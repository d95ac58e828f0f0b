-------------------------- MODULE MCDownloadModel --------------------------
(***************************************************************************)
(* DownloadModel for TLC: the model has three blocks, the server may have a *)
(* shorter, a longer or another file of the same length instead, and parts  *)
(* of the model, of another file and of more than the model lie around.     *)
(***************************************************************************)
EXTENDS DownloadModel

MCModel == <<"m", "m", "m">>
MCVersions == {MCModel, <<"o", "o">>, <<"m", "o", "m">>, <<"o", "o", "o", "o">>}
MCLeftovers == {<<"m">>, <<"o">>, <<"m", "m", "m">>, <<"o", "o", "o", "o", "o">>}
=============================================================================
