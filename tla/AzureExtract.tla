---------------------------- MODULE AzureExtract ----------------------------
(***************************************************************************)
(* What is read of an Azure scope (azure_resource.py): the resources of a  *)
(* group, page by page up to a limit, or those that are named, one by one; *)
(* the policy assignments of the subscription, the group and each named    *)
(* resource, page by page; and every policy they refer to, once.           *)
(* A call that raises ends the assessment.                                 *)
(***************************************************************************)
EXTENDS Naturals, Sequences, FiniteSets

CONSTANTS
    Estate,          \* [resources, assigned]: the group's, and for each path [id, policy] records
    PageSize,        \* items of a page of a listing
    MaxResources,    \* max_resources
    NoPolicy         \* an assignment without a definition_id

Items(s) == {s[i] : i \in DOMAIN s}

\* A listing has an end, and azure_resource.py 73 takes no limit below one.
ASSUME EstateAssumption ==
    /\ Estate.resources \in Seq(Items(Estate.resources))
    /\ \A p \in DOMAIN Estate.assigned : Estate.assigned[p] \in Seq(Items(Estate.assigned[p]))
    /\ {"subscription", "group"} \subseteq DOMAIN Estate.assigned
    /\ PageSize \in Nat \ {0} /\ MaxResources \in Nat \ {0}

\* An assignment is the same in every listing it is in: to keep one for each id, as
\* the code does, is to keep each of them once.
ASSUME IdAssumption ==
    \A a, b \in UNION {Items(Estate.assigned[p]) : p \in DOMAIN Estate.assigned} : a.id = b.id => a = b

VARIABLES
    named,           \* resource_ids of the scope; none stands for the whole group
    extracting,      \* "resources", "assignments", "policies", "extracted"
    served,          \* items of the current listing that have been served
    resources,
    paths,           \* scope paths whose assignments are still to be listed
    assignments,     \* assignments_by_id: those met so far
    unread,          \* those whose policies are still to be looked at
    policies,        \* policies read
    cut              \* a listing ended at an answer without a list

extractVars == <<named, extracting, served, resources, paths, assignments, unread, policies, cut>>

ScopePaths == {"subscription", "group"} \cup Items(named)

ExtractInitWith(scope) ==
    /\ named = scope /\ extracting = "resources" /\ served = 0 /\ resources = <<>> /\ cut = FALSE
    /\ paths = ScopePaths
    /\ assignments = {} /\ unread = {} /\ policies = <<>>

Upto(n, s) == SubSeq(s, 1, IF n < Len(s) THEN n ELSE Len(s))
PageOf(listing) == SubSeq(listing, served + 1, IF served + PageSize < Len(listing) THEN served + PageSize ELSE Len(listing))
LastPage(listing) == served + PageSize >= Len(listing)

\* The next one of what is left, in an order that does not matter here.
NextOf(S) == CHOOSE x \in S : TRUE

\* The resources a scope names are all read, and then cut to the limit.
ReadNamed ==
    /\ extracting = "resources" /\ named # <<>>
    /\ LET all == Append(resources, named[Len(resources) + 1])
       IN  IF Len(all) = Len(named)
           THEN resources' = Upto(MaxResources, all) /\ extracting' = "assignments"
           ELSE resources' = all /\ UNCHANGED extracting
    /\ UNCHANGED <<named, served, paths, assignments, unread, policies, cut>>

ReadGroup ==
    /\ extracting = "resources" /\ named = <<>>
    /\ resources' = Upto(MaxResources, resources \o PageOf(Estate.resources))
    /\ IF LastPage(Estate.resources) \/ Len(resources') >= MaxResources
       THEN extracting' = "assignments" /\ served' = 0
       ELSE served' = served + PageSize /\ UNCHANGED extracting
    /\ UNCHANGED <<named, paths, assignments, unread, policies, cut>>

\* The next path's, or the policies when there is none left.
NextPath ==
    /\ paths' = paths \ {NextOf(paths)} /\ served' = 0
    /\ extracting' = IF paths' = {} THEN "policies" ELSE extracting
    /\ unread' = IF paths' = {} THEN assignments' ELSE unread

ReadAssignments ==
    /\ extracting = "assignments"
    /\ LET listing == Estate.assigned[NextOf(paths)]
       IN  /\ assignments' = assignments \cup Items(PageOf(listing))
           /\ IF LastPage(listing) THEN NextPath ELSE served' = served + PageSize /\ UNCHANGED <<paths, extracting, unread>>
    /\ UNCHANGED <<named, resources, policies, cut>>

\* An answer without a list ends the listing as its last page does.
AnswerWithoutList ==
    /\ cut' = TRUE
    /\ \/ /\ extracting = "resources" /\ named = <<>> /\ extracting' = "assignments" /\ served' = 0
          /\ UNCHANGED <<paths, unread, assignments>>
       \/ extracting = "assignments" /\ UNCHANGED assignments /\ NextPath
    /\ UNCHANGED <<named, resources, policies>>

ReadPolicy ==
    /\ extracting = "policies" /\ unread # {}
    /\ LET policy == NextOf(unread).policy
       IN  policies' = IF policy = NoPolicy \/ policy \in Items(policies) THEN policies ELSE Append(policies, policy)
    /\ unread' = unread \ {NextOf(unread)}
    /\ UNCHANGED <<named, extracting, served, resources, paths, assignments, cut>>

PutTogether ==
    /\ extracting = "policies" /\ unread = {} /\ extracting' = "extracted"
    /\ UNCHANGED <<named, served, resources, paths, assignments, unread, policies, cut>>

ExtractNext ==
    \/ ReadNamed \/ ReadGroup \/ ReadAssignments \/ AnswerWithoutList \/ ReadPolicy \/ PutTogether

ExtractSpec(scopes) == (\E scope \in scopes : ExtractInitWith(scope)) /\ [][ExtractNext]_extractVars

(***************************************************************************)
(* Unless an answer had no list the extract has the first resources of the *)
(* scope up to the limit, every assignment of its paths, and every policy  *)
(* they refer to, read once, however the pages fall.  (Beyond the limit    *)
(* nothing says that there are more.)                                      *)
(***************************************************************************)
ExtractIsWhole ==
    extracting = "extracted" /\ ~cut =>
        /\ resources = Upto(MaxResources, IF named = <<>> THEN Estate.resources ELSE named)
        /\ assignments = UNION {Items(Estate.assigned[p]) : p \in ScopePaths}
        /\ Items(policies) = {a.policy : a \in assignments} \ {NoPolicy}
        /\ \A i, j \in DOMAIN policies : policies[i] = policies[j] => i = j
=============================================================================
