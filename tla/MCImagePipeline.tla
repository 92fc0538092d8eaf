--------------------------- MODULE MCImagePipeline ---------------------------
EXTENDS ImagePipeline

MCVariants == {{}, {"blur", "grayscale"}}
=============================================================================
