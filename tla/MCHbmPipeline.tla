--------------------------- MODULE MCHbmPipeline ----------------------------
(* Small kernels for HbmPipeline.                                          *)
EXTENDS HbmPipeline

CopyKernel == <<"read", "write">>
=============================================================================
