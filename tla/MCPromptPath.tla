---------------------------- MODULE MCPromptPath ----------------------------
(***************************************************************************)
(* An instance of PromptPath: short captions with names, blanks in all     *)
(* positions, words that overlapping merges fit, and spelt markers; two    *)
(* references at the most; a table of merges with a pair of one letter, a  *)
(* pair behind a space, and pairs that need others first.                  *)
(***************************************************************************)
EXTENDS PromptPath

MCWords == {"@x", "@ref1", "@ref2", "image1", "image2"}
MCAliases == {"", "@x", "@ref2"}
MCAutomatic == <<"@ref1", "@ref2">>
MCPhrases == <<"image1", "image2">>

MCMerges == <<
  <<<<"b">>, <<"c">>>>,
  <<<<"a">>, <<"a">>>>,
  <<<<"_">>, <<"a">>>>,
  <<<<"a">>, <<"b">>>>,
  <<<<"a", "a">>, <<"b", "c">>>>,
  <<<<"a", "a">>, <<"a", "a">>>> >>

\* Every word of four letters or fewer, and longer ones for overlapping pairs.
LetterWords == UNION {[1 .. n -> {"a", "b", "c"}] : n \in 1 .. 4} \cup
         {<<"a", "a", "a", "a", "a">>, <<"a", "b", "a", "b", "c">>}

Texts == {
  <<>>,
  <<"@x">>,
  <<"a", "_", "@ref2", "_", "_", "b", "c">>,
  <<"_", "_", "a", "b", "_", "_">>,
  <<"@ref1", "a", "@x">>,
  <<"vision_start">>,
  <<"a", "vision_start", "_", "image_pad">>,
  <<"image_pad", "a">>,
  <<"vision_start", "image_pad">>,
  <<"vision_start", "image_pad", "vision_start", "image_pad">>,
  <<"vision_start", "vision_start", "image_pad", "vision_start">>,
  <<"a", "/", "a", "_", "/", "a", "/", "/", "im_end">> }

MCCaptions == Texts \cup LetterWords \cup {<<"_">> \o w : w \in LetterWords}

MCGeometries == {
  [cond |-> <<1, 1>>, grid |-> <<2, 1>>],
  [cond |-> <<1, 3>>, grid |-> <<1, 1>>],
  [cond |-> <<2, 2>>, grid |-> <<2, 3>>] }

MCTarget == <<2, 3>>
=============================================================================
