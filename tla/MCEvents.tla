------------------------------ MODULE MCEvents ------------------------------
(* One display whose power, cable and layers change under the pipeline.      *)
EXTENDS DisplayCompositor
=============================================================================
