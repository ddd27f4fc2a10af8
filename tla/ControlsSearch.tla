--------------------------- MODULE ControlsSearch ---------------------------
(***************************************************************************)
(* Which controls a question gets: controls_search of                      *)
(* query_web/pipeline/controls.py.  Every wording of the question is       *)
(* searched for, in the framework asked for or in all, and for a           *)
(* comparison in each framework by itself; of what was found the best are  *)
(* picked one after the other, and a preferred framework that is missing   *)
(* is searched once more.                                                  *)
(*                                                                         *)
(* A control is [id, framework, source, family, overlap, score]: overlap   *)
(* counts the words of the question it has, score is in hundredths.        *)
(***************************************************************************)
EXTENDS Naturals, Sequences, FiniteSets

CONSTANTS Rankings,        \* orders in which a search may return the controls there are
          Inquiries,       \* [k, explicit, inferred, compare, preferred, words, wordings, more]
          Authority,       \* _framework_authority_rank, a number for each framework
          Compared,        \* framework_backfill, in its order
          AnyFramework     \* no filter, no preference

Within(s) == {s[i] : i \in DOMAIN s}
AllControls == UNION {Within(r) : r \in Rankings}
Same(c, d) == c.id = d.id /\ c.framework = d.framework /\ c.source = d.source

\* An index holds a control once.
ASSUME RankedOnce == \A r \in Rankings : \A i, j \in DOMAIN r : Same(r[i], r[j]) => i = j

\* The parsers put the name of the framework into every requirement id; a
\* document without ids is of one framework.
ASSUME IdsNameFrameworks ==
    \A c, d \in AllControls : c.id = d.id /\ (c.id # "" \/ c.source = d.source) => c.framework = d.framework

\* Counts, of controls and of wordings, and scores.
ASSUME SearchBounds ==
    /\ Rankings \subseteq Seq(AllControls) /\ Len(Compared) \in Nat
    /\ \A c \in AllControls : c.overlap \in Nat /\ c.score \in Nat
    /\ \A q \in Inquiries : q.k \in Nat /\ q.wordings \in Nat /\ q.more \in Nat

VARIABLES
    inquiry,    \* the question, as far as the search looks at it
    fetches,    \* searches still to be made: [framework, top]
    found,      \* candidates so far
    extra,      \* candidates of the preferred framework
    unseen,     \* candidates not yet considered
    passed,     \* considered and passed over
    picked,     \* the controls picked, in order
    result,     \* what the question gets
    searchStage

inquiryVars == <<inquiry, fetches, found, extra, unseen, passed, picked, result, searchStage>>

AtLeast(n, m) == IF n < m THEN m ELSE n

\* What the question names wins; a guess gives way to a comparison.
FilterFor == IF inquiry.explicit # AnyFramework THEN inquiry.explicit
             ELSE IF inquiry.compare THEN AnyFramework ELSE inquiry.inferred
Diverse == FilterFor = AnyFramework /\ inquiry.compare
PerFramework == AtLeast(IF inquiry.k < 5 THEN inquiry.k ELSE 5, 2)

\* One search for each wording of the question; first with the filter, then, for
\* a comparison, in one framework after the other.
Wordings(f, n, many) == [i \in 1..many |-> [framework |-> f, top |-> n]]
FirstFetches ==
    [i \in 1..(inquiry.wordings * (IF Diverse THEN 1 + Len(Compared) ELSE 1)) |->
        LET turn == (i - 1) \div inquiry.wordings
        IN  IF turn = 0
            THEN [framework |-> FilterFor, top |-> IF FilterFor = AnyFramework THEN 4 * inquiry.k ELSE inquiry.k]
            ELSE [framework |-> Compared[turn], top |-> PerFramework]]

SearchInitWith(inquiries) ==
    /\ inquiry \in inquiries
    /\ fetches = FirstFetches
    /\ found = {} /\ extra = {} /\ unseen = {} /\ passed = {} /\ picked = <<>> /\ result = {}
    /\ searchStage = "search"

SearchInit == SearchInitWith(Inquiries)

\* The first fetch.top controls of a ranking that the filter lets through.
Through(fetch, c) == fetch.framework \in {AnyFramework, c.framework}
Slice(r, fetch) ==
    {r[i] : i \in {j \in DOMAIN r : /\ Through(fetch, r[j])
                                    /\ Cardinality({h \in 1..(j - 1) : Through(fetch, r[h])}) < fetch.top}}

\* Of a control that both the words and the vector find, the copy with the higher score.
Fused(lexical, vector) ==
    LET both == lexical \cup vector
    IN  {c \in both : \A d \in both : Same(c, d) => d.score <= c.score}

\* _merge_control_candidates: what is already there is not added again.
MergeInto(candidates, new) == candidates \cup {c \in new : \A d \in candidates : ~Same(c, d)}

Fetch(new) ==
    /\ searchStage \in {"search", "prefer"} /\ fetches # <<>>
    /\ fetches' = Tail(fetches)
    /\ IF searchStage = "search" THEN found' = MergeInto(found, new) /\ UNCHANGED extra
       ELSE extra' = MergeInto(extra, new) /\ UNCHANGED found
    /\ UNCHANGED <<inquiry, unseen, passed, picked, result, searchStage>>

FetchFinds(r, v) == Fetch(Fused(Slice(r, Head(fetches)), Slice(v, Head(fetches))))
FetchFails == Fetch({})

\* More words of the question first, then the preferred framework, then the
\* authority of the framework, then the score; of equals any comes first.
Overlap(c) == IF inquiry.words THEN c.overlap ELSE 0
Disliked(c) == IF inquiry.preferred \in {AnyFramework, c.framework} THEN 0 ELSE 1
Before(c, d) ==
    \/ Overlap(c) > Overlap(d)
    \/ Overlap(c) = Overlap(d) /\ Disliked(c) < Disliked(d)
    \/ /\ Overlap(c) = Overlap(d) /\ Disliked(c) = Disliked(d)
       /\ \/ Authority[c.framework] < Authority[d.framework]
          \/ Authority[c.framework] = Authority[d.framework] /\ c.score > d.score
BestOf(candidates) == {c \in candidates : \A d \in candidates : ~Before(d, c)}

StartPicking ==
    /\ searchStage = "search" /\ fetches = <<>>
    /\ unseen' = found /\ searchStage' = "pick"
    /\ UNCHANGED <<inquiry, fetches, found, extra, passed, picked, result>>

\* _select_diverse_controls: no framework and no family takes more than half of
\* the places, unless there is nothing else to fill them with.
Half == AtLeast((inquiry.k + 1) \div 2, 1)
OfFramework(s, f) == {i \in DOMAIN s : s[i].framework = f}
OfFamily(s, f) == {i \in DOMAIN s : s[i].family = f}

\* Bug: frameworks are not counted.
CrowdedFamily(c) == c.family # "" /\ Cardinality(OfFamily(picked, c.family)) >= Half

Crowded(c) == \/ Cardinality(OfFramework(picked, c.framework)) >= Half
              \/ c.family # "" /\ Cardinality(OfFamily(picked, c.family)) >= Half

PicksDone == unseen = {} \/ Len(picked) >= inquiry.k

Pick ==
    /\ searchStage \in {"pick", "fill", "repick"} /\ ~PicksDone
    /\ \E c \in BestOf(unseen) :
          /\ unseen' = unseen \ {c}
          /\ IF searchStage = "pick" /\ Diverse /\ Crowded(c)
             THEN passed' = passed \cup {c} /\ UNCHANGED picked
             ELSE picked' = Append(picked, c) /\ UNCHANGED passed
    /\ UNCHANGED <<inquiry, fetches, found, extra, result, searchStage>>

PicksLeaveRoom == passed # {} /\ Len(picked) < inquiry.k

FillUp ==
    /\ searchStage = "pick" /\ PicksDone /\ PicksLeaveRoom
    /\ unseen' = passed /\ passed' = {} /\ searchStage' = "fill"
    /\ UNCHANGED <<inquiry, fetches, found, extra, picked, result>>

HasPreferred(s) == \E i \in DOMAIN s : s[i].framework = inquiry.preferred

\* Bug: the preferred framework is added although the question names another.
NeedsPreferredAlways == ~Diverse /\ inquiry.preferred # AnyFramework /\ ~HasPreferred(picked)

NeedsPreferred == /\ ~Diverse /\ FilterFor = AnyFramework /\ inquiry.preferred # AnyFramework
                  /\ ~HasPreferred(picked)

EndPicking ==
    /\ searchStage \in {"pick", "fill"} /\ PicksDone /\ ~(searchStage = "pick" /\ PicksLeaveRoom)
    /\ IF NeedsPreferred
       THEN /\ searchStage' = "prefer"
            /\ fetches' = Wordings(inquiry.preferred, PerFramework, inquiry.wordings + inquiry.more)
       ELSE searchStage' = "dedupe" /\ UNCHANGED fetches
    /\ UNCHANGED <<inquiry, found, extra, unseen, passed, picked, result>>

PickAgain ==
    /\ searchStage = "prefer" /\ fetches = <<>>
    /\ IF extra = {} THEN searchStage' = "dedupe" /\ UNCHANGED <<unseen, picked>>
       ELSE searchStage' = "repick" /\ unseen' = MergeInto(Within(picked), extra) /\ picked' = <<>>
    /\ UNCHANGED <<inquiry, fetches, found, extra, passed, result>>

\* Bug: one word of the question is not enough.
AcceptableWithTwo(c) == Overlap(c) > 1 /\ c.score >= 5

\* Some word, unless the score is noise; a score near the others when no word counts.
Acceptable(c) == \/ Overlap(c) > 0 /\ c.score >= 5
                 \/ ~inquiry.words /\ c.score >= 10 /\ \E i \in DOMAIN picked : 10 * c.score >= 6 * picked[i].score

PreferredLeft == BestOf({c \in unseen : c.framework = inquiry.preferred})

\* The best control of the preferred framework takes the last place when
\* ranking does not give it one and it has something to do with the question.
BackfillPreferred ==
    /\ searchStage = "repick" /\ PicksDone
    /\ IF picked # <<>> /\ ~HasPreferred(picked)
       THEN \E c \in PreferredLeft :
               picked' = IF Acceptable(c) THEN [picked EXCEPT ![Len(picked)] = c] ELSE picked
       ELSE UNCHANGED picked
    /\ searchStage' = "dedupe"
    /\ UNCHANGED <<inquiry, fetches, found, extra, unseen, passed, result>>

\* Of the controls with one requirement id, from several sources, the first stays.
IsFirst(s, i) == s[i].id = "" \/ \A j \in 1..(i - 1) : s[j].id # s[i].id
DedupeIds ==
    /\ searchStage = "dedupe"
    /\ result' = {picked[i] : i \in {j \in DOMAIN picked : IsFirst(picked, j)}}
    /\ searchStage' = "done"
    /\ UNCHANGED <<inquiry, fetches, found, extra, unseen, passed, picked>>

SearchNext == \/ \E r, v \in Rankings : FetchFinds(r, v)
              \/ FetchFails \/ StartPicking \/ Pick \/ FillUp \/ EndPicking
              \/ PickAgain \/ BackfillPreferred \/ DedupeIds

SearchSpec == SearchInit /\ [][SearchNext]_inquiryVars

(***************************************************************************)
(* Properties.                                                             *)
(***************************************************************************)

\* A search ends with at most as many controls as were asked for, no two of one
\* requirement, and of the framework the question named when it named one,
\* whatever the comparison and the preferred framework add to the candidates.
ControlsFitTheQuestion ==
    searchStage = "done" =>
        /\ Cardinality(result) <= inquiry.k
        /\ \A c, d \in result : c.id = d.id /\ c.id # "" => c = d
        /\ inquiry.explicit # AnyFramework => \A c \in result : c.framework = inquiry.explicit

\* A comparison that ends with one framework only found no control of another
\* that does not share its family with one it chose.
ComparisonSpansFrameworks ==
    searchStage = "done" /\ Diverse /\ inquiry.k >= 2 /\ (\A c, d \in result : c.framework = d.framework) =>
        \A c \in found : \E d \in result : d.framework = c.framework \/ (d.family = c.family /\ d.family # "")

\* A preferred framework is in what a search without a filter ends with, unless
\* nothing of it was found when it was searched by itself, or the question has
\* words and a best of what was found has none of them or a score that is noise.
PreferredIsRepresented ==
    /\ searchStage = "done" /\ ~Diverse /\ FilterFor = AnyFramework /\ inquiry.preferred # AnyFramework
    /\ inquiry.k > 0 /\ \A c \in result : c.framework # inquiry.preferred
    => extra = {} \/ (inquiry.words /\ \E c \in BestOf(extra) : c.overlap = 0 \/ c.score < 5)
=============================================================================
