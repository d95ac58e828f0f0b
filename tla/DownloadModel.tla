--------------------------- MODULE DownloadModel ---------------------------
(***************************************************************************)
(* scripts/download_model.sh: a model file is fetched into OUT.part, which *)
(* an interrupted run leaves behind and a later one continues, moved to    *)
(* OUT, and only there compared with the SHA-256 of the manifest.  A file  *)
(* is the sequence of its blocks, and its sum is right when it is Model.   *)
(* The network breaks, the script is killed between any two of its steps,  *)
(* and the file on the server is replaced.  Two scripts that run at once   *)
(* are left out.                                                           *)
(***************************************************************************)
EXTENDS Integers, Sequences

CONSTANTS
  Model,      \* the file the manifest's sum belongs to
  Versions,   \* what the server may have under the URL
  Leftovers,  \* what an earlier download may have left
  None,       \* no such file
  MaxFaults   \* bound: breaks, repeats, kills and replacements in a behaviour

ASSUME FilesAssumption ==
  /\ Model \in Versions
  /\ \A v \in Versions \cup Leftovers : v \in Seq(STRING) /\ v # <<>>
  /\ None \notin Versions \cup Leftovers
  /\ MaxFaults \in Nat

VARIABLES
  tool,        \* curl or wget
  resumable,   \* the server answers a request for the rest of a file
  remote,      \* what the server has
  out, part,   \* the files OUT and OUT.part
  force,       \* FORCE of this run
  doing,       \* where the script is; idle between two runs
  source,      \* the file this transfer is about
  offset,      \* where it began
  faults       \* how much went wrong

scriptVars ==
  <<tool, resumable, remote, out, part, force, doing, source, offset, faults>>

ScriptInit ==
  /\ tool \in {"curl", "wget"}
  /\ resumable \in BOOLEAN
  /\ remote \in Versions
  /\ out \in Leftovers \cup Versions \cup {None}
  /\ part \in Leftovers \cup {None}
  /\ force = FALSE
  /\ doing = "idle"
  /\ source = <<>>
  /\ offset = 0
  /\ faults = 0

World == <<tool, resumable, remote>>
Fetch == <<source, offset>>

GoOn(place) == doing' = place

\* -s "$OUT.part"
PartHasBytes == part # None /\ part # <<>>

-----------------------------------------------------------------------------
(* The script. *)

\* It is called, with or without --force.
Call ==
  /\ doing \in {"idle", "failed", "ready"}
  /\ force' \in BOOLEAN
  /\ GoOn("check")
  /\ UNCHANGED <<World, out, part, Fetch, faults>>

\* Mutant: a file that is there is taken for the model.
CheckExistingByName ==
  /\ doing = "check"
  /\ GoOn(IF out # None /\ ~force THEN "ready" ELSE "download")
  /\ UNCHANGED <<World, out, part, force, Fetch, faults>>

\* Mutant: the file that is there is not looked at.
CheckExistingNever ==
  /\ doing = "check"
  /\ GoOn("download")
  /\ UNCHANGED <<World, out, part, force, Fetch, faults>>

\* A file that is there and has the right sum ends the run.
CheckExisting ==
  /\ doing = "check"
  /\ GoOn(IF out = Model /\ ~force THEN "ready" ELSE "download")
  /\ UNCHANGED <<World, out, part, force, Fetch, faults>>

\* dl: a transfer from the start writes the part anew.
Fresh ==
  /\ \/ doing = "download" /\ ~PartHasBytes
     \/ doing = "restart"
  /\ part' = <<>>
  /\ source' = remote
  /\ offset' = 0
  /\ GoOn("fresh")
  /\ UNCHANGED <<World, out, force, faults>>

\* A part that is there is continued where it ends.
Resume ==
  /\ doing = "download"
  /\ PartHasBytes /\ resumable /\ Len(part) < Len(remote)
  /\ source' = remote
  /\ offset' = Len(part)
  /\ GoOn("resume")
  /\ UNCHANGED <<World, out, part, force, faults>>

\* The part has all the bytes the server has, or more: wget is content, and
\* so is curl in some versions.
ResumeNothingLeft ==
  /\ doing = "download"
  /\ PartHasBytes /\ resumable /\ Len(part) >= Len(remote)
  /\ GoOn("move")
  /\ UNCHANGED <<World, out, part, force, Fetch, faults>>

\* The part cannot be continued: it goes and curl begins anew, while wget will
\* not overwrite it.
ResumeRefused ==
  /\ doing = "download"
  /\ PartHasBytes
  /\ \/ /\ tool = "curl"
        /\ ~resumable \/ Len(part) >= Len(remote)
        /\ part' = None
        /\ GoOn("restart")
     \/ tool = "wget" /\ ~resumable /\ part' = part /\ GoOn("failed")
  /\ UNCHANGED <<World, out, force, Fetch, faults>>

\* One more block.
Receive ==
  /\ doing \in {"fresh", "resume"}
  /\ Len(part) < Len(source)
  /\ part' = Append(part, source[Len(part) + 1])
  /\ UNCHANGED <<World, out, force, doing, Fetch, faults>>

\* All blocks are there.
Received ==
  /\ doing \in {"fresh", "resume"}
  /\ Len(part) >= Len(source)
  /\ GoOn("move")
  /\ UNCHANGED <<World, out, part, force, Fetch, faults>>

\* The part takes OUT's place, whatever was there.
Move ==
  /\ doing = "move"
  /\ out' = part
  /\ part' = None
  /\ GoOn("verify")
  /\ UNCHANGED <<World, force, Fetch, faults>>

\* Mutant: the file whose sum is wrong goes back to be continued.
VerifyPutsBack ==
  /\ doing = "verify"
  /\ GoOn(IF out = Model THEN "ready" ELSE "failed")
  /\ out' = IF out = Model THEN out ELSE None
  /\ part' = IF out = Model THEN part ELSE out
  /\ UNCHANGED <<World, force, Fetch, faults>>

\* The sum is compared, and a file with another is removed.
Verify ==
  /\ doing = "verify"
  /\ GoOn(IF out = Model THEN "ready" ELSE "failed")
  /\ out' = IF out = Model THEN out ELSE None
  /\ UNCHANGED <<World, part, force, Fetch, faults>>

Script ==
  \/ Call \/ CheckExisting \/ Fresh \/ Resume \/ ResumeNothingLeft \/ ResumeRefused
  \/ Receive \/ Received \/ Move \/ Verify

-----------------------------------------------------------------------------
(* What goes wrong. *)

Fault == faults < MaxFaults /\ faults' = faults + 1

\* The transfer breaks for good.  curl's second try begins anew where the first
\* continued a part; otherwise the part stays for the next run.
Break ==
  /\ Fault
  /\ doing \in {"fresh", "resume"}
  /\ IF tool = "curl" /\ doing = "resume"
     THEN part' = None /\ GoOn("restart")
     ELSE part' = part /\ GoOn("failed")
  /\ UNCHANGED <<World, out, force, Fetch>>

\* curl --retry: the same transfer once more from where it began.
Retry ==
  /\ Fault
  /\ doing \in {"fresh", "resume"} /\ tool = "curl"
  /\ part' = SubSeq(part, 1, offset)
  /\ source' = remote
  /\ UNCHANGED <<World, out, force, doing, offset>>

\* The script is killed; the files stay as they are.
Kill ==
  /\ Fault
  /\ doing \notin {"idle", "failed", "ready"}
  /\ GoOn("idle")
  /\ UNCHANGED <<World, out, part, force, Fetch>>

\* Another file is put on the server; a transfer under way goes on with the old.
Publish ==
  /\ Fault
  /\ remote' \in Versions \ {remote}
  /\ UNCHANGED <<tool, resumable, out, part, force, doing, Fetch>>

ScriptNext == Script \/ Break \/ Retry \/ Kill \/ Publish

ScriptSpec == ScriptInit /\ [][ScriptNext]_scriptVars

\* The script's steps are taken, and a user whose run fails calls it again.
FairScriptSpec == ScriptSpec /\ WF_scriptVars(Script /\ doing # "ready")

-----------------------------------------------------------------------------
(* What the script promises. *)

\* The script says that the model is ready only over the model of the manifest,
\* also when an earlier run was killed between the move and the comparison, or
\* the part it continued came from another file.
ReadyIsVerified == doing = "ready" => out = Model

\* A model that is there is never lost to a run without --force, however that
\* run ends.
ModelSurvives == [][out = Model /\ out' # Model => force]_scriptVars

\* No part that an earlier run left, of whatever file, keeps the download from
\* coming to its end: once the server keeps the model and nothing more goes wrong,
\* a call that is repeated while it fails gets it.  With wget the server has to
\* continue files.
DownloadCompletes ==
  <>[](remote = Model /\ (tool = "curl" \/ resumable)) => []<>(doing = "ready")

\* Only a run with --force gets behind the check while the model is there.
ForcedBehindCheck ==
  doing \in {"download", "restart", "fresh", "resume", "move"} /\ out = Model => force
=============================================================================
