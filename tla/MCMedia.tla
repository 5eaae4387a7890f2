--------------------------------- MODULE MCMedia ---------------------------------
(***************************************************************************)
(* Two windows over two conversations; an image, and a page whose card shows   *)
(* it; a download with three attempts; one uploader of the user's own.        *)
(***************************************************************************)
EXTENDS Media
================================================================================
