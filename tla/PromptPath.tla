----------------------------- MODULE PromptPath -----------------------------
(***************************************************************************)
(* From the caption of a request to the rows of the sequence that the      *)
(* transformer works on: names of references (src/runtime/ref_alias.c), the*)
(* template and the byte pair encoding (src/model/tokenizer.c), and the    *)
(* rows with their places (src/runtime/sequence.c).                        *)
(*                                                                         *)
(* A caption is a sequence of symbols: letters, spaces, mentions of a name,*)
(* and markers, which are the added tokens a caption may spell out.  A     *)
(* token is a sequence of symbols.  A mention and a fixed word of the      *)
(* template or of the expansion is one symbol.                             *)
(***************************************************************************)
EXTENDS Integers, Sequences, FiniteSetsExt, SequencesExt

CONSTANTS
  Captions,   \* the captions that may come
  Words,      \* mentions, phrases and what else is a word of its own
  Aliases,    \* the explicit names that may come; the empty one is none
  Automatic,  \* the mentions that need no explicit name, ref1 and so on
  Phrases,    \* what a name becomes, for each reference
  Geometries, \* the references that may come, by their grids
  Target,     \* the grid of the image, rows and columns
  Merges,     \* the merge table: pairs of tokens by their rank
  MaxRefs,    \* HD_SEQ_MAX_REFS
  FixPoint    \* where the places of the image begin

Letters == {"a", "b", "c"}
Space == "_"
Newline == "/"
Blanks == {Space, Newline}
Markers == {"im_start", "im_end", "vision_start", "vision_end", "image_pad"}
VisionStart == <<"vision_start">>
ImagePad == <<"image_pad">>

Symbols ==
  Letters \cup Blanks \cup Markers \cup Words
    \cup {"user", "assistant", "mapping", "boi", "tms"}
Tokens == Seq(Symbols)
Made(m) == Merges[m][1] \o Merges[m][2]

\* tokenizer_tables.h: each side of a merge is one byte or made by a better merge,
\* and there is one token for each byte and each merge.
ASSUME MergesAssumption ==
  /\ Merges \in Seq((Tokens \ {<<>>}) \X (Tokens \ {<<>>}))
  /\ \A m \in DOMAIN Merges, side \in {1, 2} :
       Len(Merges[m][side]) = 1 \/ \E k \in 1 .. m - 1 : Merges[m][side] = Made(k)
  /\ \A m, k \in DOMAIN Merges : Made(m) = Made(k) => m = k

\* There is a phrase for each reference.
ASSUME CaptionsAssumption ==
  /\ Captions \subseteq Tokens
  /\ Phrases \in Tokens /\ Len(Phrases) >= MaxRefs
  /\ MaxRefs \in Nat

Grids == (Nat \ {0}) \X (Nat \ {0})

\* No grid is empty.
ASSUME GridsAssumption ==
  /\ Geometries \subseteq [cond : Grids, grid : Grids]
  /\ Target \in Grids
  /\ FixPoint \in Nat

VARIABLES
  pc,      \* the stage
  refs,    \* the references
  names,   \* their explicit names
  text,    \* the caption, then the template around it
  at,      \* how far the encoder or the expansion is
  word,    \* the tokens of the word being merged
  ids,     \* the tokens of the template
  row,     \* the tokens of the expanded template, then of all rows
  filled,  \* ri: the references put in so far
  block,   \* v: the next block of the layout
  start,   \* st_pos: its first row
  top,     \* max_pos: the largest place given
  fp,      \* where the image's places begin, 0 once they were given
  placed   \* the rows that have places: row, t, h and w

vars == <<pc, refs, names, text, at, word, ids, row, filled, block, start, top, fp, placed>>

K == Len(refs)

Init ==
  /\ pc = "names"
  /\ refs \in UNION {[1 .. k -> Geometries] : k \in 0 .. MaxRefs}
  /\ names \in [1 .. Len(refs) -> Aliases]
  /\ text \in Captions
  /\ at = 1 /\ word = <<>> /\ ids = <<>> /\ row = <<>>
  /\ filled = 0 /\ block = 0 /\ start = 0 /\ top = -1 /\ fp = FixPoint
  /\ placed = {}

Layout == <<block, start, top, fp, placed>>

-----------------------------------------------------------------------------
(* Names. *)

\* hd_ref_alias_lookup: an explicit name counts before an automatic one; 0 when
\* the name is not known.
Lookup(mention) ==
  LET explicit  == {k \in 1 .. K : names[k] = mention}
      automatic == {k \in DOMAIN Automatic \cap 1 .. K : Automatic[k] = mention}
  IN  IF explicit # {} THEN Min(explicit) ELSE IF automatic # {} THEN Min(automatic) ELSE 0

\* hd_ref_alias_build refuses a name that two references have.
Duplicate == \E i, j \in 1 .. K : i # j /\ names[i] = names[j] /\ names[i] # ""

\* hd_ref_alias_expand: each known name becomes the phrase of its image, and if
\* there is one the mapping goes in front.
Expanded ==
  LET known(s) == Lookup(s) > 0
      body     == [i \in DOMAIN text |-> IF known(text[i]) THEN Phrases[Lookup(text[i])]
                                                           ELSE text[i]]
  IN  IF \E i \in DOMAIN text : known(text[i]) THEN <<"mapping", Newline>> \o body ELSE text

\* The caption with its names expanded, in the template with one placeholder
\* for each reference.
Template(caption) ==
  LET placeholder == <<"vision_start", "image_pad", "vision_end">>
  IN  <<"im_start", "user", Newline>> \o FlattenSeq([k \in 1 .. K |-> placeholder])
        \o caption \o <<"im_end", Newline, "im_start", "assistant", Newline>>

Names ==
  /\ pc = "names"
  /\ IF Duplicate THEN pc' = "refused" /\ text' = text
     ELSE pc' = "encode" /\ text' = Template(Expanded)
  /\ UNCHANGED <<refs, names, at, word, ids, row, filled, Layout>>

-----------------------------------------------------------------------------
(* Tokens. *)

\* The symbols of one kind from position i on.
Run(kind, i) ==
  Min({j \in i .. Len(text) + 1 : j > Len(text) \/ text[j] \notin kind}) - i

\* The letters, or the one symbol of another kind, that begin at position i.
Body(i) ==
  IF Run(Letters, i) > 0 THEN Run(Letters, i)
  ELSE IF i <= Len(text) /\ text[i] \notin Blanks \cup Markers THEN 1 ELSE 0

\* pretokenize: a space goes to the word behind it, the last blank of several is
\* left for that word, and blanks before a marker or the end stay together.
WordLength ==
  LET blanks == Run(Blanks, at)
      body   == Body(at + blanks)
  IN  CASE blanks = 0                                  -> body
        [] blanks = 1 /\ body > 0 /\ text[at] = Space -> 1 + body
        [] blanks > 1 /\ body > 0                     -> blanks - 1
        [] OTHER                                       -> blanks

\* A marker is one token wherever it stands.
EncodeMarker ==
  /\ pc = "encode"
  /\ at <= Len(text) /\ text[at] \in Markers
  /\ ids' = Append(ids, <<text[at]>>)
  /\ at' = at + 1
  /\ UNCHANGED <<pc, refs, names, text, word, row, filled, Layout>>

\* A word begins as its single symbols.
BeginWord ==
  /\ pc = "encode"
  /\ at <= Len(text) /\ text[at] \notin Markers
  /\ word' = [i \in 1 .. WordLength |-> <<text[at + i - 1]>>]
  /\ at' = at + WordLength
  /\ pc' = "merge"
  /\ UNCHANGED <<refs, names, text, ids, row, filled, Layout>>

\* merge_rank_of, for the pair that begins at position i.
Ranks(w, i) == {m \in DOMAIN Merges : Merges[m] = <<w[i], w[i + 1]>>}
Mergeable(w) == {i \in 1 .. Len(w) - 1 : Ranks(w, i) # {}}
Rank(w, i) == Min(Ranks(w, i))

\* Mutant: the leftmost pair is merged, whatever its rank.
BestLeftmost(w) == Min(Mergeable(w))

\* The leftmost of the pairs with the best rank.
Best(w) ==
  CHOOSE i \in Mergeable(w) :
    \A j \in Mergeable(w) : Rank(w, i) < Rank(w, j) \/ (Rank(w, i) = Rank(w, j) /\ i <= j)

MergedAt(w, i) == SubSeq(w, 1, i - 1) \o <<w[i] \o w[i + 1]>> \o SubSeq(w, i + 2, Len(w))

\* bpe_apply_merge: one pair becomes one token.
Merge ==
  /\ pc = "merge"
  /\ Mergeable(word) # {}
  /\ word' = MergedAt(word, Best(word))
  /\ UNCHANGED <<pc, refs, names, text, at, ids, row, filled, Layout>>

\* No pair is left to merge: the word's tokens are those of the text.
EndWord ==
  /\ pc = "merge"
  /\ Mergeable(word) = {}
  /\ ids' = ids \o word
  /\ word' = <<>>
  /\ pc' = "encode"
  /\ UNCHANGED <<refs, names, text, at, row, filled, Layout>>

\* All of the text is encoded.
Encoded ==
  /\ pc = "encode"
  /\ at > Len(text)
  /\ at' = 1
  /\ pc' = IF K = 0 THEN "text_only" ELSE "expand"
  /\ UNCHANGED <<refs, names, text, word, ids, row, filled, Layout>>

-----------------------------------------------------------------------------
(* Rows with references: hd_seq_build. *)

Area(grid) == grid[1] * grid[2]

\* The sum of the first k values of f.
Total(f, k) ==
  LET sum[n \in 0 .. k] == IF n = 0 THEN 0 ELSE sum[n - 1] + f[n]
  IN  sum[k]

\* The places of each reference in the template, and its rows behind the image.
CondAreas == [k \in 1 .. K |-> Area(refs[k].cond)]
GridAreas == [k \in 1 .. K |-> Area(refs[k].grid)]

\* Mutant: each placeholder counts as its two markers.
ReservedTwo == Len(ids) + Total(CondAreas, K) - 2 * K

\* exp_n: the rows counted for the expanded template, where each reference has one
\* placeholder.
Reserved == Len(ids) + Total(CondAreas, K) - K

Placeholder(i) == i < Len(ids) /\ ids[i] = VisionStart /\ ids[i + 1] = ImagePad

Pads(n) == [i \in 1 .. n |-> ImagePad]

\* A placeholder is replaced by as many pads as its reference has places, which is
\* none behind the last reference; behind MaxRefs of them the array is overrun.
Expand ==
  /\ pc = "expand"
  /\ at <= Len(ids) /\ Placeholder(at)
  /\ IF filled < MaxRefs
     THEN /\ row' = row \o <<VisionStart>>
                       \o Pads(IF filled < K THEN Area(refs[filled + 1].cond) ELSE 0)
          /\ filled' = filled + 1 /\ at' = at + 2 /\ pc' = pc
     ELSE pc' = "overrun" /\ UNCHANGED <<row, filled, at>>
  /\ UNCHANGED <<refs, names, text, word, ids, Layout>>

\* Any other token stays.
Copy ==
  /\ pc = "expand"
  /\ at <= Len(ids) /\ ~Placeholder(at)
  /\ row' = Append(row, ids[at])
  /\ at' = at + 1
  /\ UNCHANGED <<pc, refs, names, text, word, ids, filled, Layout>>

\* A block of rows of the transformer's image side.
Block(n) == <<VisionStart>> \o Pads(n - 1)

Starts(r) == {i \in DOMAIN r : r[i] = VisionStart}

\* More placeholders than references: no sequence.
Refuse ==
  /\ pc = "expand"
  /\ at > Len(ids) /\ filled # K
  /\ pc' = "refused"
  /\ UNCHANGED <<refs, names, text, at, word, ids, row, filled, Layout>>

\* The markers of the image and of the time go behind the template, then the
\* rows of the image and of the references; then the blocks are counted, in an
\* array that has room for those of MaxRefs references.
AppendRows ==
  /\ pc = "expand"
  /\ at > Len(ids) /\ filled = K
  /\ row' = row \o <<<<"boi">>, <<"tms">>>> \o Block(Area(Target))
               \o FlattenSeq([k \in 1 .. K |-> Block(GridAreas[k])])
  /\ pc' = CASE Cardinality(Starts(row')) > 2 * MaxRefs + 1 -> "overrun"
             [] Cardinality(Starts(row')) = 2 * K + 1       -> "layout"
             [] OTHER                                       -> "refused"
  /\ UNCHANGED <<refs, names, text, at, word, ids, filled, Layout>>

\* The row behind the marker of block v; rows are counted from zero.
StartOf(v) ==
  CHOOSE i \in Starts(row) : Cardinality({j \in Starts(row) : j < i}) = v

\* The places of a stretch of text and of a grid.
TextPlaces(first, n, place) ==
  {<<first + i, place + i, place + i, place + i>> : i \in 0 .. n - 1}
GridPlaces(first, grid, place) ==
  {<<first + h * grid[2] + w, place, place + h, place + w>> :
     h \in 0 .. grid[1] - 1, w \in 0 .. grid[2] - 1}
Largest(grid) == IF grid[1] > grid[2] THEN grid[1] - 1 ELSE grid[2] - 1

\* The grid of block v: references in the template, the image, references.
GridOf(v) ==
  IF v < K THEN refs[v + 1].cond ELSE IF v = K THEN Target ELSE refs[v - K].grid

\* Mutant: the image's place is taken for the references behind it, too.
PlaceBlockFixed ==
  /\ pc = "layout" /\ block <= 2 * K
  /\ LET skip  == block >= K
         first == IF top >= 0 THEN top + 1 ELSE 0
         n     == StartOf(block) - start - (IF skip THEN 1 ELSE 0)
         base  == IF ~skip THEN first + n ELSE fp
     IN  /\ placed' = placed \cup TextPlaces(start, n, first)
                        \cup GridPlaces(start + n, GridOf(block), base)
         /\ top' = Max({first + n - 1, base + Largest(GridOf(block))})
         /\ start' = start + n + Area(GridOf(block))
         /\ fp' = fp
  /\ block' = block + 1
  /\ pc' = IF block' > 2 * K THEN "mask" ELSE pc
  /\ UNCHANGED <<refs, names, text, at, word, ids, row, filled>>

\* The text before a block and the block get their places.  A block of the
\* template begins behind its marker; the others take the marker in, and the
\* first of them begins at FixPoint.
PlaceBlock ==
  /\ pc = "layout" /\ block <= 2 * K
  /\ LET skip  == block >= K
         first == IF top >= 0 THEN top + 1 ELSE 0
         n     == StartOf(block) - start - (IF skip THEN 1 ELSE 0)
         base  == IF ~skip THEN first + n ELSE IF fp > 0 THEN fp ELSE first
     IN  /\ placed' = placed \cup TextPlaces(start, n, first)
                        \cup GridPlaces(start + n, GridOf(block), base)
         /\ top' = Max({first + n - 1, base + Largest(GridOf(block))})
         /\ start' = start + n + Area(GridOf(block))
         /\ fp' = IF skip THEN 0 ELSE fp
  /\ block' = block + 1
  /\ pc' = IF block' > 2 * K THEN "mask" ELSE pc
  /\ UNCHANGED <<refs, names, text, at, word, ids, row, filled>>

\* The rows that take what the vision tower made of the references: the pads
\* before the row of the image.
TemplateRows == Len(row) - Area(Target) - Total(GridAreas, K)
Marked == {i \in 0 .. TemplateRows - 1 : row[i + 1] = ImagePad}

\* Mutant: what is marked is not counted.
MaskUncounted ==
  /\ pc = "mask"
  /\ pc' = "done"
  /\ UNCHANGED <<refs, names, text, at, word, ids, row, filled, Layout>>

\* They have to be as many as the tower has rows.
Mask ==
  /\ pc = "mask"
  /\ pc' = IF Cardinality(Marked) = Total(CondAreas, K) THEN "done"
            ELSE "refused"
  /\ UNCHANGED <<refs, names, text, at, word, ids, row, filled, Layout>>

-----------------------------------------------------------------------------
(* Rows without references: hd_seq_t2i. *)

PlaceText ==
  /\ pc = "text_only"
  /\ row' = ids \o <<<<"boi">>, <<"tms">>>> \o Pads(Area(Target))
  /\ placed' = TextPlaces(0, Len(ids) + 2, 0) \cup GridPlaces(Len(ids) + 2, Target, FixPoint)
  /\ pc' = "done"
  /\ UNCHANGED <<refs, names, text, at, word, ids, filled, block, start, top, fp>>

Next ==
  \/ Names \/ EncodeMarker \/ BeginWord \/ Merge \/ EndWord \/ Encoded
  \/ Expand \/ Copy \/ Refuse \/ AppendRows \/ PlaceBlock \/ Mask \/ PlaceText

Spec == Init /\ [][Next]_vars

-----------------------------------------------------------------------------
(* Properties. *)

\* Every occurrence of one pair is merged, from the left.
MergeAll(w, m) ==
  LET from[i \in 1 .. Len(w) + 1] ==
        IF i > Len(w) THEN <<>>
        ELSE IF i < Len(w) /\ <<w[i], w[i + 1]>> = Merges[m]
             THEN <<w[i] \o w[i + 1]>> \o from[i + 2]
             ELSE <<w[i]>> \o from[i + 1]
  IN  from[1]

\* Byte pair encoding as it is defined: the merges are made in the order of their
\* ranks, each wherever its pair occurs.
Reference(w) ==
  LET passed[m \in 0 .. Len(Merges)] == IF m = 0 THEN w ELSE MergeAll(passed[m - 1], m)
  IN  passed[Len(Merges)]

\* A word that is merged pair by pair, each time the leftmost of the best
\* (bpe_apply_merge), has the tokens of the definition, and nothing of the text is lost or comes twice.
EncodingIsExact ==
  /\ pc = "merge" /\ Mergeable(word) = {} =>
       LET symbols == FlattenSeq(word)
       IN  /\ symbols = SubSeq(text, at - Len(symbols), at - 1)
           /\ word = Reference([i \in DOMAIN symbols |-> <<symbols[i]>>])
  /\ pc \in {"expand", "text_only"} => FlattenSeq(ids) = text

\* The markers of one kind that the template has beyond its own.
Spelt == Cardinality({i \in DOMAIN text : text[i] = "vision_start"}) - K

\* exp_ids has room for what the expansion writes and no more than that, whatever
\* markers a caption spells; an array is overrun only if the caption spells more
\* starts than there are references left to MaxRefs.
ExpansionFits ==
  /\ pc = "expand" => Len(row) <= Reserved
  /\ pc \in {"layout", "mask"} => TemplateRows = Reserved + 2
  /\ pc = "overrun" => Spelt > MaxRefs - K

\* The rows of reference k in the template, behind the first three tokens and the
\* references before it.
ReferenceRows(k) ==
  LET first == 4 + Total(CondAreas, k - 1) + 2 * (k - 1)
  IN  first .. first + Area(refs[k].cond) - 1

\* Every row of a sequence that is handed on has one place (the places come from
\* malloc), and the embeddings of the references go to the rows of the references
\* in their order, whatever pads the caption spells.
RowsAreWhole ==
  pc = "done" =>
    /\ {p[1] : p \in placed} = 0 .. Len(row) - 1
    /\ Cardinality(placed) = Len(row)
    /\ K > 0 => Marked = UNION {ReferenceRows(k) : k \in 1 .. K}
    /\ \A k \in 1 .. K : Cardinality({p[2] : p \in {q \in placed : q[1] \in ReferenceRows(k)}}) = 1

\* The places of the text stay below FixPoint.
TextEndsBefore == \A p \in placed : p[1] < Len(row) - Area(Target)
                     - Total(GridAreas, K) => Max({p[2], p[3], p[4]}) < FixPoint

\* Two rows never have the same place while the text ends before the image
\* begins; the places are what tells equal pads apart.
PlacesDistinct ==
  pc = "done" /\ TextEndsBefore =>
    Cardinality({<<p[2], p[3], p[4]>> : p \in placed}) = Len(row)
=============================================================================
