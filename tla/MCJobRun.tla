------------------------------ MODULE MCJobRun ------------------------------
(***************************************************************************)
(* JobRun for TLC.  The rules read few fields at a time, so the requests    *)
(* vary one group of fields together and keep the others harmless: the      *)
(* images, the mode, the boxes and the names; the size; steps and           *)
(* scheduler; count, seed and texts; the ways an upload fails.              *)
(***************************************************************************)
EXTENDS JobRun

Plain ==
  [endpoint |-> "generations", prompt |-> "text", model |-> Absent, unsupported |-> FALSE,
   uploads |-> <<>>, mode |-> Absent, aliases |-> 0, layout |-> Absent, size |-> <<>>,
   exact |-> FALSE, keep |-> FALSE, scheduler |-> Absent, steps |-> <<>>, n |-> 0,
   seed |-> <<1>>, verbose |-> FALSE]

PlainEdit == [Plain EXCEPT !.endpoint = "edits", !.uploads = <<"good">>]

Goods(k) == [i \in 1 .. k |-> "good"]

Combined ==
  {[Plain EXCEPT !.endpoint = IF k = 0 THEN e ELSE "edits", !.uploads = Goods(k), !.mode = m,
                 !.aliases = a, !.layout = l] :
     e \in {"generations", "edits"}, k \in 0 .. MaxRefs + 1, m \in Modes \cup {Absent, "other"},
     a \in 0 .. 2, l \in {Absent, "good", "bad"}}

\* Buckets, sizes next to them, sizes beyond every bucket, a size between two,
\* and sizes that do not parse.
Sizes ==
  {<<2048, 2048>>, <<2496, 1664>>, <<1312, 3104>>, <<1728, 2304>>, <<1024, 1024>>, <<1000, 800>>,
   <<800, 1000>>, <<800, 700>>, <<8192, 1>>, <<1, 8192>>, <<8193, 5>>, <<0, 5>>, <<1920, 1080>>}

Sized ==
  {[p EXCEPT !.size = s, !.exact = x, !.keep = k] :
     p \in {Plain, PlainEdit}, s \in Sizes \cup {<<>>}, x \in BOOLEAN, k \in BOOLEAN}

\* Around zero, around the limit, around the ends of int and of long.
Numbers == {-5, 0, 1, 4, 5, 64, 65, 127, 128, 255, 256, 257, 2047, 2048}

Stepped ==
  {[p EXCEPT !.steps = <<v>>, !.scheduler = s] :
     p \in {Plain, PlainEdit}, v \in Numbers, s \in Schedulers \cup {Absent, "other"}}

Counted ==
  {[p EXCEPT !.n = v, !.seed = s, !.verbose = b] :
     p \in {Plain, PlainEdit}, v \in Numbers \cup {2, 3}, s \in {<<>>, <<SeedModulus - 2>>}, b \in BOOLEAN}

Refused ==
  {[p EXCEPT !.prompt = t, !.model = m, !.unsupported = u] :
     p \in {Plain, PlainEdit}, t \in {"text", "empty", "long"}, m \in {Absent, "own", "other"},
     u \in BOOLEAN}

Uploaded ==
  {[PlainEdit EXCEPT !.uploads = <<a, b>>] : a, b \in {"good", "large", "bad"}}

MCRequests ==
  Combined \cup Sized \cup Stepped \cup Counted \cup Refused \cup Uploaded
    \cup {[Plain EXCEPT !.endpoint = "edits_json"]}
=============================================================================
