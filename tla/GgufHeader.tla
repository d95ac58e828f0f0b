----------------------------- MODULE GgufHeader -----------------------------
(***************************************************************************)
(* The header loop of hd_gguf_open (src/io/gguf.c): the metadata and the   *)
(* tensor table of a pack are read into a buffer that doubles until a dry  *)
(* parse gets through; a second parse then fills in the table.             *)
(*                                                                         *)
(* A header is a sequence of entries, metadata before tensors.  Of an      *)
(* entry only this matters: how many bytes the parser tests for before it  *)
(* reads them (`head`), how many more it steps over (`tail`), and whether  *)
(* it tests for those too ("tested"), not ("skipped", a value of fixed     *)
(* size), or rejects the entry after its head ("bad").  A tensor of a type *)
(* that is not supported is tested for like another, and only the second   *)
(* parse rejects it ("unsupported").                                       *)
(***************************************************************************)
EXTENDS Integers, Sequences, FiniteSetsExt

CONSTANTS
  Cap,     \* the first buffer, 1 MiB
  Files    \* the files opened: [entries, length], the length without the fixed 24 bytes

Kinds == {"tested", "skipped", "bad", "unsupported"}

Entry == [head : Nat \ {0}, tail : Nat, kind : Kinds]

\* What the module takes for granted; ModelLoad assumes it of its constants.
CapAssumption == Cap \in Nat \ {0}
\* There is a tensor, and the entry of a tensor tests for all it reads.
FileAssumption ==
  \A f \in Files :
    /\ f.entries \in Seq(Entry) /\ f.length \in Nat
    /\ f.entries # <<>> /\ f.entries[Len(f.entries)].kind # "skipped"

VARIABLES
  file,  \* the file being opened
  pc,    \* where hd_gguf_open is
  cap,   \* cap
  used   \* used

vars == <<file, pc, cap, used>>

TypeOK ==
  /\ file \in Files
  /\ pc \in {"fill", "dry_parse", "real_parse", "ok", "error", "refused"}
  /\ cap \in Nat \ {0} /\ used \in 0 .. cap

Init == file \in Files /\ pc = "fill" /\ cap = Cap /\ used = 0

Entries == file.entries

\* b.pos at the start of entry k.
Pos(k) ==
  LET pos[j \in 1 .. Len(Entries) + 1] ==
        IF j = 1 THEN 0 ELSE pos[j - 1] + Entries[j - 1].head + Entries[j - 1].tail
  IN  pos[k]

HeaderLength == Pos(Len(Entries) + 1)

\* The parser stops at entry k for want of bytes, or because the entry is bad.
Short(k) ==
  \/ Pos(k) + Entries[k].head > used
  \/ Entries[k].kind \in {"tested", "unsupported"} /\ Pos(k + 1) > used

Stops(k) == Short(k) \/ Entries[k].kind = "bad"

\* Mutant: the bytes of a tensor's entry are stepped over untested.
ParseSkips ==
  LET stops == {k \in 1 .. Len(Entries) : Pos(k) + Entries[k].head > used \/ Entries[k].kind = "bad"}
  IN  IF stops = {} THEN "through"
      ELSE IF Pos(Min(stops)) + Entries[Min(stops)].head > used THEN "short" ELSE "malformed"

\* gguf_dry_parse on the first `used` bytes; gguf_real_parse walks the same way.
Parse ==
  LET stops == {k \in 1 .. Len(Entries) : Stops(k)}
  IN  IF stops = {} THEN "through"
      ELSE IF Short(Min(stops)) THEN "short" ELSE "malformed"

\* Mutant: a full buffer is not enlarged.
FillFixed ==
  /\ pc = "fill"
  /\ used' = Min({cap, file.length})
  /\ pc' = IF used' = 0 THEN "error" ELSE "dry_parse"
  /\ UNCHANGED <<file, cap>>

\* The loop head: double a full buffer, then read as much as it takes or the
\* file has.  A file with nothing in it is an error.
Fill ==
  /\ pc = "fill"
  /\ cap' = IF used = cap THEN 2 * cap ELSE cap
  /\ used' = Min({cap', file.length})
  /\ pc' = IF used' = 0 THEN "error" ELSE "dry_parse"
  /\ UNCHANGED file

\* The dry parse is through, or the header is malformed, or it wants more.
DryParse ==
  /\ pc = "dry_parse"
  /\ pc' = CASE Parse = "through"   -> "real_parse"
             [] Parse = "malformed" -> "error"
             [] Parse = "short"     -> "fill"
  /\ UNCHANGED <<file, cap, used>>

\* The real parse.  It refuses a type it has no size for, and whatever else it
\* misses; it may run out of memory.  Unlike the errors before it, that closes what
\* was opened.
RealParse ==
  /\ pc = "real_parse"
  /\ \/ /\ Parse = "through" /\ \A k \in DOMAIN Entries : Entries[k].kind # "unsupported"
        /\ pc' = "ok"
     \/ pc' = "refused"
  /\ UNCHANGED <<file, cap, used>>

Next == Fill \/ DryParse \/ RealParse

Ended == pc \in {"ok", "error", "refused"} /\ UNCHANGED vars

Spec == Init /\ [][Next \/ Ended]_vars
-----------------------------------------------------------------------------
\* The entry of every tensor and value is read from bytes of the file, although
\* the dry parse steps over some values without a test.
WholeHeaderRead == pc \in {"real_parse", "ok", "refused"} => used >= HeaderLength

\* Only a good header is accepted, and only a malformed one or an empty file is an
\* error of the loop, however the entries lie across the blocks they are read in:
\* whatever the first parse lets through, the second finds well-formed.
OutcomeIsRight ==
  LET has(kind) == \E k \in DOMAIN Entries : Entries[k].kind = kind
  IN  /\ pc = "ok" => ~has("bad") /\ ~has("unsupported")
      /\ pc = "error" => has("bad") \/ file.length = 0
      /\ pc = "refused" => ~has("bad")

\* The buffer is not enlarged beyond twice the header, whatever payload of
\* many gigabytes comes behind it.
BufferFollowsHeader == cap <= Max({Cap, 2 * (HeaderLength - 1)})
=============================================================================
