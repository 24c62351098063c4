---------------------------- MODULE MCGalleryLimit -----------------------------
(* Model-checking instance of GalleryLimit: copies are interchangeable.    *)
EXTENDS GalleryLimit, TLC

CopierSymmetry == Permutations(Copiers)
=============================================================================
