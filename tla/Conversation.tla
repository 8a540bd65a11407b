---------------------------- MODULE Conversation ----------------------------
(***************************************************************************)
(* The conversation of a realtime session and the compaction of its old    *)
(* items into a rolling memory (realtime_compaction.go,                    *)
(* realtime_compactcoord.go, compactcoord).                                *)
(*                                                                         *)
(* An item is known by its number in the order of arrival; its text is     *)
(* left out, and the memory is the set of items whose text is folded into  *)
(* it.  Every action that reads or writes conv.Items is one critical       *)
(* section of conv.Lock; the summary is made outside of it.                *)
(***************************************************************************)
EXTENDS SequencesExt, FiniteSetsExt, Integers

CONSTANTS
    MaxHistoryItems,    \* items that a compaction keeps
    CompactionTrigger   \* items that a compaction needs to start

(***************************************************************************)
(* resolveCompaction makes the trigger larger than the history.            *)
(***************************************************************************)
ASSUME CompactionAssumption ==
    /\ MaxHistoryItems \in Nat
    /\ CompactionTrigger \in Nat
    /\ CompactionTrigger > MaxHistoryItems

VARIABLES
    items,              \* conv.Items
    added,              \* number of items ever appended
    memory,             \* items that conv.Memory summarises
    dropped,            \* items deleted by the client or rolled back
    compaction,         \* the state of compactcoord
    compactor,          \* the step the compaction goroutine is about to take
    overflow,           \* the items it summarises
    prior               \* the memory it merges them with

itemVars == <<items, added, memory, dropped>>
compactionVars == <<compaction, compactor, overflow, prior>>
conversationVars == <<itemVars, compactionVars>>

Kind == {"message", "call", "output"}

Item(id, kind, of) == [id |-> id, kind |-> kind, of |-> of]

Ids(s) == {s[i].id : i \in DOMAIN s}

ConversationTypeOK ==
    /\ items \in Seq([id : Nat, kind : Kind, of : Nat])
    /\ added \in Nat
    /\ memory \subseteq 1..added
    /\ dropped \subseteq 1..added
    /\ compaction \in {"Idle", "Running", "Terminated"}
    /\ compactor \in {"none", "snapshot", "summarize", "commit", "finish"}
    /\ overflow \in Seq([id : Nat, kind : Kind, of : Nat])
    /\ prior \subseteq 1..added

ConversationInit ==
    /\ items = <<>>
    /\ added = 0
    /\ memory = {}
    /\ dropped = {}
    /\ compaction = "Idle"
    /\ compactor = "none"
    /\ overflow = <<>>
    /\ prior = {}

-----------------------------------------------------------------------------
(***************************************************************************)
(* What the events and the responses do to the items.                      *)
(***************************************************************************)

\* conv.Items = append(conv.Items, &item)
Append1(kind, of) ==
    /\ items' = Append(items, Item(added + 1, kind, of))
    /\ added' = added + 1
    /\ UNCHANGED <<memory, dropped>>

\* deleteItem and the rollbacks: an item that is not there is not found.
Remove1(id) ==
    /\ \/ id \notin Ids(items) /\ UNCHANGED items
       \/ \E i \in DOMAIN items : items[i].id = id /\ items' = RemoveAt(items, i)
    /\ dropped' = dropped \cup ({id} \cap Ids(items))
    /\ UNCHANGED <<added, memory>>

\* maybeCompact's look at the length.
Over == Len(items) > CompactionTrigger

-----------------------------------------------------------------------------
(***************************************************************************)
(* The compaction coordinator and its goroutine.                           *)
(***************************************************************************)

\* Apply(Trigger): starts the goroutine, unless one runs or the session ends.
Trigger ==
    IF compaction = "Idle"
    THEN /\ compaction' = "Running"
         /\ compactor' = "snapshot"
         /\ UNCHANGED <<overflow, prior>>
    ELSE UNCHANGED compactionVars

(***************************************************************************)
(* compactionCut: where to split, pulled left while the first kept item is *)
(* the output of a tool call.                                              *)
(***************************************************************************)
CompactionCut ==
    LET naive == Len(items) - MaxHistoryItems
        Splits(cut) == items[cut + 1].kind = "output"
    IN  IF MaxHistoryItems = 0 \/ naive <= 0
        THEN 0
        ELSE Max({0} \cup {cut \in 1..naive : ~Splits(cut)})

\* The first critical section of compact.
Snapshot ==
    /\ compactor = "snapshot"
    /\ IF Over /\ CompactionCut > 0
       THEN /\ overflow' = SubSeq(items, 1, CompactionCut)
            /\ prior' = memory
            /\ compactor' = "summarize"
       ELSE /\ compactor' = "finish"
            /\ UNCHANGED <<overflow, prior>>
    /\ UNCHANGED <<itemVars, compaction>>

SummaryArrives ==
    /\ compactor = "summarize"
    /\ compactor' = "commit"
    /\ UNCHANGED <<itemVars, compaction, overflow, prior>>

\* The model fails, answers nothing, is cancelled or takes compactionTimeout.
SummaryFails ==
    /\ compactor = "summarize"
    /\ compactor' = "finish"
    /\ UNCHANGED <<itemVars, compaction, overflow, prior>>

PrefixMatches ==
    /\ Len(overflow) <= Len(items)
    /\ \A i \in DOMAIN overflow : items[i].id = overflow[i].id

\* Wrong form: the items are evicted although their head has changed.
CommitAnyway ==
    /\ compactor = "commit"
    /\ memory' = prior \cup Ids(overflow)
    /\ items' = SelectSeq(items, LAMBDA item : item.id \notin Ids(overflow))
    /\ compactor' = "finish"
    /\ UNCHANGED <<added, dropped, compaction, overflow, prior>>

\* Wrong form: the items are evicted at the other end.
CommitEvictsNewest ==
    /\ compactor = "commit"
    /\ IF PrefixMatches
       THEN /\ memory' = prior \cup Ids(overflow)
            /\ items' = SubSeq(items, 1, Len(items) - Len(overflow))
       ELSE UNCHANGED <<memory, items>>
    /\ compactor' = "finish"
    /\ UNCHANGED <<added, dropped, compaction, overflow, prior>>

\* The second critical section of compact.
Commit ==
    /\ compactor = "commit"
    /\ IF PrefixMatches
       THEN /\ memory' = prior \cup Ids(overflow)
            /\ items' = SubSeq(items, Len(overflow) + 1, Len(items))
       ELSE UNCHANGED <<memory, items>>
    /\ compactor' = "finish"
    /\ UNCHANGED <<added, dropped, compaction, overflow, prior>>

\* Wrong form: the goroutine ends without Apply(Finished).
CompactionForgets ==
    /\ compactor = "finish"
    /\ compactor' = "none"
    /\ overflow' = <<>>
    /\ prior' = {}
    /\ UNCHANGED <<itemVars, compaction>>

\* Apply(Finished), and the goroutine ends.
CompactionFinished ==
    /\ compactor = "finish"
    /\ compactor' = "none"
    /\ compaction' = IF compaction = "Running" THEN "Idle" ELSE compaction
    /\ overflow' = <<>>
    /\ prior' = {}
    /\ UNCHANGED itemVars

Compact ==
    Snapshot \/ SummaryArrives \/ SummaryFails \/ Commit \/ CompactionFinished

-----------------------------------------------------------------------------
(***************************************************************************)
(* "Items are never dropped without a summary": every item that was added  *)
(* is live, folded into the memory, or was deleted or rolled back, and in  *)
(* exactly one of these places.  A deletion or a rollback during the       *)
(* summary, a failed summary or a second compaction must not change this.  *)
(***************************************************************************)
NothingForgotten ==
    /\ Ids(items) \cup memory \cup dropped = 1..added
    /\ Ids(items) \cap memory = {}
    /\ Ids(items) \cap dropped = {}
    /\ memory \cap dropped = {}

(***************************************************************************)
(* The memory is what came before: a prompt built from the memory and the  *)
(* live items after it tells the conversation in its order.                *)
(***************************************************************************)
MemoryIsOlder ==
    /\ \A i, j \in DOMAIN items : i < j => items[i].id < items[j].id
    /\ \A m \in memory : \A i \in DOMAIN items : m < items[i].id

(***************************************************************************)
(* "A function_call and its function_call_output are never split across    *)
(* the boundary": an output whose call is in the memory is there itself.   *)
(***************************************************************************)
PairsTogether ==
    \A i \in DOMAIN items :
        items[i].kind = "output" => items[i].of \notin memory
=============================================================================
