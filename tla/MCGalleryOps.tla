---------------------------- MODULE MCGalleryOps ----------------------------
EXTENDS GalleryOps

CONSTANTS f1, f2
=============================================================================
