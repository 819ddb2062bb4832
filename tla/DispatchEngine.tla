--------------------------- MODULE DispatchEngine ---------------------------
(***************************************************************************)
(* One call of Dispatch of evo-bot-runtime: an answer of the AI is cut     *)
(* into parts, the first one is signed, and the parts are posted one after *)
(* the other until the last one, an error or the cancellation of the       *)
(* pipeline's context.  A word is its number of runes, an answer the       *)
(* sequence of its words, a part a sequence of positions in the answer.    *)
(* MaxWords, MaxRunes and MaxLimit bound the inputs.                       *)
(***************************************************************************)
EXTENDS Integers, Sequences, SequencesExt

CONSTANTS
    MaxWords,    \* words of an answer
    MaxRunes,    \* runes of a word
    MaxLimit     \* TextSegmentationLimit (0: segmentation is off) and MinSize

ASSUME SizesAssumption ==
    {MaxWords, MaxRunes, MaxLimit} \subseteq Nat

VARIABLES
    words,       \* the answer
    cfg,         \* the BotConfig
    parts,       \* what is to be posted
    pc,
    posted,      \* the parts the postback URL has received
    cancelled,   \* is the context cancelled
    before       \* how many parts had been received when it was

vars == <<words, cfg, parts, pc, posted, cancelled, before>>

Answers == UNION {[1 .. n -> 1 .. MaxRunes] : n \in 0 .. MaxWords}
Config == [limit : 0 .. MaxLimit, minSize : 0 .. MaxLimit,
           signed : BOOLEAN, delay : BOOLEAN]
----------------------------------------------------------------------------
(* utf8.RuneCountInString of the words of a part joined by single spaces *)
Runes(text, part) ==
    FoldLeft(LAMBDA n, k : n + text[k], Len(part) - 1, part)

(* The bug of a boundary that leaves one rune of the limit unused *)
Pack_Strict(text, limit) ==
    FoldLeft(LAMBDA ps, k :
               IF ps # <<>> /\ Runes(text, Last(ps)) + 1 + text[k] < limit
               THEN Front(ps) \o << Append(Last(ps), k) >>
               ELSE Append(ps, <<k>>),
             <<>>, [k \in DOMAIN text |-> k])

(* The words are put greedily into parts of at most limit runes; a word    *)
(* that is longer than that is a part of its own.                          *)
Pack(text, limit) ==
    FoldLeft(LAMBDA ps, k :
               IF ps # <<>> /\ Runes(text, Last(ps)) + 1 + text[k] <= limit
               THEN Front(ps) \o << Append(Last(ps), k) >>
               ELSE Append(ps, <<k>>),
             <<>>, [k \in DOMAIN text |-> k])

(* A part shorter than minSize joins its predecessor if the limit allows *)
MergeShort(text, limit, minSize, raw) ==
    IF minSize = 0 \/ Len(raw) <= 1 THEN raw
    ELSE FoldLeft(LAMBDA ps, p :
                    IF /\ ps # <<>> /\ Runes(text, p) < minSize
                       /\ Runes(text, Last(ps)) + 1 + Runes(text, p) <= limit
                    THEN Front(ps) \o << Last(ps) \o p >>
                    ELSE Append(ps, p),
                  <<>>, raw)

(* Without segmentation, or without a word, the content is one part *)
SegmentContent(text, c) ==
    IF c.limit = 0 \/ text = <<>> THEN << [k \in DOMAIN text |-> k] >>
    ELSE MergeShort(text, c.limit, c.minSize, Pack(text, c.limit))
----------------------------------------------------------------------------
Init ==
    /\ words \in Answers /\ cfg \in Config
    /\ parts = <<>> /\ posted = <<>> /\ pc = "segment"
    /\ cancelled = FALSE /\ before = 0

Segment ==
    /\ pc = "segment"
    /\ parts' = [k \in DOMAIN SegmentContent(words, cfg) |->
                   [text |-> SegmentContent(words, cfg)[k],
                    signed |-> cfg.signed /\ k = 1]]
    /\ pc' = "check"
    /\ UNCHANGED <<words, cfg, posted, cancelled, before>>

(* The bug of a loop that looks at the context only while it waits *)
Check_Forgotten ==
    /\ pc = "check"
    /\ pc' = "send"
    /\ UNCHANGED <<words, cfg, parts, posted, cancelled, before>>

(* The context is looked at before each part *)
Check ==
    /\ pc = "check"
    /\ pc' = IF cancelled THEN "interrupted" ELSE "send"
    /\ UNCHANGED <<words, cfg, parts, posted, cancelled, before>>

(* The bug of a loop that does not advance after the wait *)
Sent_Again ==
    /\ pc = "send"
    /\ posted' = Append(posted, parts[IF Len(posted) = 1 THEN 1 ELSE Len(posted) + 1])
    /\ pc' = IF Len(posted') = Len(parts) THEN "done"
             ELSE IF cfg.delay THEN "wait" ELSE "check"
    /\ UNCHANGED <<words, cfg, parts, cancelled, before>>

Sent ==
    /\ pc = "send"
    /\ posted' = Append(posted, parts[Len(posted) + 1])
    /\ pc' = IF Len(posted') = Len(parts) THEN "done"
             ELSE IF cfg.delay THEN "wait" ELSE "check"
    /\ UNCHANGED <<words, cfg, parts, cancelled, before>>

(* The request failed, before or after the part was received *)
SendFails ==
    /\ pc = "send"
    /\ \/ UNCHANGED posted
       \/ posted' = Append(posted, parts[Len(posted) + 1])
    /\ pc' = "error"
    /\ UNCHANGED <<words, cfg, parts, cancelled, before>>

(* The delay between two parts, or the cancellation during it; select may  *)
(* take either if both are there                                           *)
Waited ==
    /\ pc = "wait"
    /\ \/ pc' = "check"
       \/ cancelled /\ pc' = "interrupted"
    /\ UNCHANGED <<words, cfg, parts, posted, cancelled, before>>

(* cancelPair, Cancel or Shutdown, at any time *)
CancelContext ==
    /\ ~cancelled /\ pc \notin {"done", "error", "interrupted"}
    /\ cancelled' = TRUE /\ before' = Len(posted)
    /\ UNCHANGED <<words, cfg, parts, pc, posted>>

Returned == pc \in {"done", "error", "interrupted"} /\ UNCHANGED vars

Next == Segment \/ Check \/ Sent \/ SendFails \/ Waited \/ CancelContext
        \/ Returned
Spec == Init /\ [][Next]_vars
----------------------------------------------------------------------------
Texts(ps) == [k \in DOMAIN ps |-> ps[k].text]

(* What the contact has received is the beginning of the answer, every     *)
(* word once and in order, and the whole answer when Dispatch returns nil. *)
PostedIsPrefix ==
    LET sent == FlattenSeq(Texts(posted))
    IN  /\ sent = [k \in 1 .. Len(sent) |-> k] /\ Len(sent) <= Len(words)
        /\ pc = "done" => Len(sent) = Len(words)

(* A cancelled pipeline lets the contact receive at most the one part that *)
(* was already checked.                                                    *)
AtMostOnePartLate == cancelled => Len(posted) <= before + 1

(* The parts a reader would accept: consecutive words, each part within    *)
(* the limit unless it is a single word.  A cutting is given by the        *)
(* positions a part ends at.                                               *)
Fits(text, limit, cuts) ==
    \A a, b \in cuts \cup {0, Len(text)} :
        a < b /\ (\A c \in cuts : ~(a < c /\ c < b)) /\ b > a + 1 =>
            Runes(text, [k \in 1 .. b - a |-> a + k]) <= limit

(* Segmentation needs no more parts than any way of cutting the answer     *)
(* between words that respects the limit.                                  *)
FewestParts ==
    parts # <<>> /\ cfg.limit > 0 /\ words # <<>> =>
        \A cuts \in SUBSET (1 .. Len(words) - 1) :
            Fits(words, cfg.limit, cuts) => Len(parts) <= Cardinality(cuts) + 1
=============================================================================
