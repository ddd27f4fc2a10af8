---------------------------- MODULE CommentParts ----------------------------
(***************************************************************************)
(* The answer to a mention as one or more comments: the report is rendered *)
(* as sections, sections are packed into bodies of a limited length, and   *)
(* the bodies are posted one after the other                               *)
(* (_render_assessment_comment_sections, _pack_comment_bodies,             *)
(* _post_assessment_comments of polling_worker.py).  When one cannot be    *)
(* posted the mention is assessed and answered again later, and the new    *)
(* report may have other sections.                                         *)
(***************************************************************************)
EXTENDS Naturals, Sequences

CONSTANTS
    Renderings,     \* reports, as the lengths of their sections
    CommentLimit,   \* characters of a body
    CutMargin,      \* what is cut away beside the excess of a long section, less the note that says so
    PartHeader,     \* length of the line "comment i of n"
    MaxAnswers

ASSUME RenderingsAssumption == Renderings \subseteq Seq(Nat)
ASSUME LimitAssumption == CommentLimit \in Nat /\ CutMargin \in 0..CommentLimit /\ PartHeader \in Nat
ASSUME AnswersAssumption == MaxAnswers \in Nat \ {0}

VARIABLES
    rendering,  \* the sections of the report that is posted
    next,       \* sections packed so far
    open,       \* the body that is being filled
    filled,     \* what its length is thought to be
    bodies,     \* full bodies
    page,       \* answer -> its comments on the page
    phase,      \* "pack", "post", "posted", "failed"
    answers     \* times the mention was answered

partVars == <<rendering, next, open, filled, bodies, page, phase, answers>>

\* A body has consecutive sections.
EmptyBody == [from |-> 1, to |-> 0, length |-> 0]
Extended(body, i, n) == [from |-> body.from, to |-> i, length |-> body.length + n]
HasSections(body) == body.from <= body.to

PartsInit ==
    /\ rendering \in Renderings /\ next = 0 /\ open = EmptyBody /\ filled = 0 /\ bodies = <<>>
    /\ page = [a \in 1..MaxAnswers |-> <<>>] /\ phase = "pack" /\ answers = 1

\* A section that is longer than a body is cut.
Kept(i) == IF rendering[i] > CommentLimit THEN CommentLimit - CutMargin ELSE rendering[i]

\* Bug: the section that does not fit any more is lost.
LoseOverflow ==
    /\ phase = "pack" /\ next < Len(rendering)
    /\ LET i == next + 1
       IN  IF filled + Kept(i) > CommentLimit
           THEN /\ open' = [from |-> i + 1, to |-> i, length |-> 0] /\ filled' = 0
                /\ bodies' = IF HasSections(open) THEN Append(bodies, open) ELSE bodies
           ELSE open' = Extended(open, i, Kept(i)) /\ filled' = filled + Kept(i) /\ UNCHANGED bodies
    /\ next' = next + 1
    /\ UNCHANGED <<rendering, page, phase, answers>>

PackSection ==
    /\ phase = "pack" /\ next < Len(rendering)
    /\ LET i == next + 1
       IN  IF filled + Kept(i) > CommentLimit
           THEN /\ open' = [from |-> i, to |-> i, length |-> Kept(i)] /\ filled' = Kept(i)
                /\ bodies' = IF HasSections(open) THEN Append(bodies, open) ELSE bodies
           ELSE open' = Extended(open, i, Kept(i)) /\ filled' = filled + Kept(i) /\ UNCHANGED bodies
    /\ next' = next + 1
    /\ UNCHANGED <<rendering, page, phase, answers>>

\* Without any section there is still one comment, an empty one.
FinishPacking ==
    /\ phase = "pack" /\ next = Len(rendering)
    /\ bodies' = IF HasSections(open) \/ bodies = <<>> THEN Append(bodies, open) ELSE bodies
    /\ phase' = "post"
    /\ UNCHANGED <<rendering, next, open, filled, page, answers>>

\* Several parts say which one they are, which may make them longer than a
\* body may be.
Comment(part) ==
    LET header == IF Len(bodies) = 1 THEN 0 ELSE PartHeader
    IN  [part |-> part, total |-> Len(bodies), from |-> bodies[part].from, to |-> bodies[part].to,
         length |-> header + bodies[part].length]

PostPart ==
    /\ phase = "post"
    /\ LET part == Len(page[answers]) + 1
       IN  /\ page' = [page EXCEPT ![answers] = Append(@, Comment(part))]
           /\ phase' = IF part = Len(bodies) THEN "posted" ELSE "post"
    /\ UNCHANGED <<rendering, next, open, filled, bodies, answers>>

\* A part is refused, or its call raises.
PostFails ==
    /\ phase = "post" /\ phase' = "failed"
    /\ UNCHANGED <<rendering, next, open, filled, bodies, page, answers>>

AnswerAgain ==
    /\ phase = "failed" /\ answers < MaxAnswers
    /\ answers' = answers + 1
    /\ rendering' \in Renderings /\ next' = 0 /\ open' = EmptyBody /\ filled' = 0 /\ bodies' = <<>>
    /\ phase' = "pack"
    /\ UNCHANGED page

PartsNext == PackSection \/ FinishPacking \/ PostPart \/ PostFails \/ AnswerAgain

PartsSpec == PartsInit /\ [][PartsNext]_partVars

(***************************************************************************)
(* Properties.                                                             *)
(***************************************************************************)

\* The comments of an answer that is posted have each section of its report
\* once and in order, whatever parts of failed attempts are on the page too, and
\* say truly which of how many they are.  Every body is packed within the limit,
\* and an answer that is one comment is; a part of several is posted with the
\* line that says which one it is before its body, which the limit does not count.
PartsAreTheReport ==
    phase = "posted" =>
        LET its == page[answers]
        IN  /\ its # <<>> /\ its[1].from = 1 /\ its[Len(its)].to = Len(rendering)
            /\ \A i \in 2..Len(its) : its[i].from = its[i - 1].to + 1
            /\ \A i \in DOMAIN its : its[i].part = i /\ its[i].total = Len(its)
            /\ \A i \in DOMAIN its : bodies[i].length <= CommentLimit
            /\ Len(its) = 1 => its[1].length <= CommentLimit
=============================================================================
