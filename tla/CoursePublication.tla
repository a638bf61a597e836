------------------------- MODULE CoursePublication -------------------------
(***************************************************************************)
(* From a requirement to the editions of a course (jobs.py, composer.py,   *)
(* catalog.py, slide_builder.py): an outline is composed from what the     *)
(* searches return, registered, confirmed into a course with the draft of  *)
(* its slides, illustrated and published, edition after edition.           *)
(*                                                                         *)
(* Searching and composing happen before the transaction that registers    *)
(* an outline, a search at a time; everything else is one transaction of   *)
(* operations.py.  Meanwhile cards are withdrawn and returned, reviews are *)
(* opened and closed (KnowledgeCards), and the provider of the visuals     *)
(* changes its mind (NetworkVisuals).                                      *)
(*                                                                         *)
(* Simplifications:                                                        *)
(*  - there is one requirement, and one snapshot of the index;             *)
(*  - an identifier that digests its parts is those parts: an edition is   *)
(*    the path of placements from the confirmed course, and deck, slides   *)
(*    and manifest go with the course they are of;                         *)
(*  - the slides are one for each card, and each has one slot; placements  *)
(*    are of network visuals (those of a source or of a dataset have no    *)
(*    verdict that can change);                                            *)
(*  - the scope of use is one that wants a current verification;           *)
(*  - an operation repeated under its identifier is answered from the      *)
(*    ledger, and one that fails leaves nothing.                           *)
(***************************************************************************)
EXTENDS CourseOutline, NetworkVisuals

CONSTANTS Composers,      \* compose jobs
          VersionOf,      \* the outline version each composes
          LogicalOf,      \* the logical outline of each version
          RevisionOf,     \* the revision of each version
          IncludedBy,     \* the cards each job wants in any case, in their order
          ExcludedBy,     \* the cards each job does not want
          Confirmers,     \* confirm jobs
          ConfirmedBy,    \* the outline version each confirms
          ConfirmationOf, \* the confirmation each registers, and whose it is
          CourseOf,       \* the logical course each makes of it
          EditionOf,      \* and the revision it has as a course
          Placements,     \* identifiers of visual placements
          Illustrates,    \* bound: the card each placement is for
          Reviewable,     \* bound: subjects of blocking reviews
          Withdrawable,   \* bound: cards that are withdrawn
          MaxBootstrap,   \* the cards and placements a bootstrap has room for
          MaxChanges,     \* bound: withdrawals, returns and reviews
          MaxEdition      \* bound: the revision of an edition

Outlines == Range(VersionOf)

ASSUME PublicationAssumption ==
  /\ DOMAIN VersionOf = Composers
  /\ DOMAIN LogicalOf = Outlines /\ RevisionOf \in [Outlines -> Nat \ {0}]
  /\ IncludedBy \in [Composers -> Seq(Cards)]
  /\ ExcludedBy \in [Composers -> SUBSET Cards]
  /\ ConfirmedBy \in [Confirmers -> Outlines]
  /\ DOMAIN ConfirmationOf = Confirmers
  /\ DOMAIN CourseOf = Confirmers /\ EditionOf \in [Confirmers -> Nat \ {0}]
  /\ Illustrates \in [Placements -> Cards]
  /\ Withdrawable \subseteq Cards
  /\ MaxBootstrap \in Nat /\ MaxChanges \in Nat /\ MaxEdition \in Nat

VARIABLES
  live,       \* card_lifecycle_current: published cards that are not suspended
  blocked,    \* review_task_current: subjects with an open blocking review
  changes,    \* withdrawals, returns and reviews so far
  composing,  \* what each compose job has by now
  outlines,   \* course_outlines: the registered outlines
  confirmed,  \* outline_confirmations: the confirmation of each outline
  courses,    \* course_versions, with their slide_decks and runtime_manifests
  placed      \* visual_placements

courseVars == <<live, blocked, changes, composing, outlines, confirmed, courses, placed>>
vars == <<courseVars, visualVars>>

\* A card as the subject of a review (visuals are subjects as they are).
Subject(c) == <<c>>

Idle == [at |-> "idle"]
Empty == [x \in {} |-> x]

Init ==
  /\ VisualsInit
  /\ live = Cards
  /\ blocked = {}
  /\ changes = 0
  /\ composing = [c \in Composers |-> Idle]
  /\ outlines = Empty
  /\ confirmed = Empty
  /\ courses = Empty
  /\ placed = Empty

-----------------------------------------------------------------------------
(* The knowledge base meanwhile *)

Change(cards, subjects) ==
  /\ changes < MaxChanges /\ changes' = changes + 1
  /\ live' = cards /\ blocked' = subjects
  /\ UNCHANGED <<visualVars, composing, outlines, confirmed, courses, placed>>

Withdraw(c) == c \in live /\ Change(live \ {c}, blocked)
Return(c) == c \notin live /\ Change(live \cup {c}, blocked)
OpenReview(s) == s \notin blocked /\ Change(live, blocked \cup {s})
CloseReview(s) == s \in blocked /\ Change(live, blocked \ {s})

-----------------------------------------------------------------------------
(* Composing *)

\* One search of _retrieve_and_compose: a read transaction for each goal.  A job
\* whose outcome is committed is answered from the ledger.
RetrieveFor(c) ==
  LET hits == IF composing[c].at = "retrieving" THEN composing[c].hits ELSE <<>>
  IN  /\ composing[c].at \in {"idle", "retrieving"} /\ Len(hits) < Len(Goals)
      /\ composing' = [composing EXCEPT ![c] =
           [at |-> "retrieving", hits |-> Append(hits, Search(Len(hits) + 1, live))]]
      /\ UNCHANGED <<visualVars, live, blocked, changes, outlines, confirmed, courses, placed>>

\* _compose_from_retrievals, on the cards as they are by now.  A job that has no
\* outline fails, and may be asked for again.
PrepareFor(c) ==
  LET outline == Composed(composing[c].hits, live, IncludedBy[c], ExcludedBy[c])
  IN  /\ composing[c].at = "retrieving" /\ Len(composing[c].hits) = Len(Goals)
      /\ composing' = [composing EXCEPT ![c] =
           IF outline = NoOutline THEN Idle ELSE [at |-> "prepared", outline |-> outline]]
      /\ UNCHANGED <<visualVars, live, blocked, changes, outlines, confirmed, courses, placed>>

\* Fault: what was read before the transaction is not checked again in it.
StillFits(o, outline) ==
  /\ ~outline.gaps
  /\ IF o \in DOMAIN outlines THEN outlines[o] = outline
     ELSE \A other \in DOMAIN outlines : LogicalOf[other] = LogicalOf[o]
                                           => RevisionOf[other] # RevisionOf[o]

\* _validate_composer_binding: the cards an outline was composed of are still live.
StillBound(outline) == Range(outline.cards) \subseteq live

\* register_course_outline: the version is new, or has the same outline.
MayRegister(o, outline) ==
  /\ ~outline.gaps
  /\ IF o \in DOMAIN outlines THEN outlines[o] = outline
     ELSE /\ StillBound(outline)
          /\ \A other \in DOMAIN outlines : LogicalOf[other] = LogicalOf[o]
                                              => RevisionOf[other] # RevisionOf[o]

\* register_prepared_composition: an outline that is not registered is composed anew.
RegisterFor(c) ==
  LET o == VersionOf[c]
      outline == composing[c].outline
  IN  /\ composing[c].at = "prepared"
      /\ IF MayRegister(o, outline)
         THEN /\ composing' = [composing EXCEPT ![c] = [at |-> "committed"]]
              /\ outlines' = Plus([x \in {o} |-> outline], outlines)
         ELSE composing' = [composing EXCEPT ![c] = Idle] /\ UNCHANGED outlines
      /\ UNCHANGED <<visualVars, live, blocked, changes, confirmed, courses, placed>>

\* _run_course_compose
RunCompose(c) == RetrieveFor(c) \/ PrepareFor(c) \/ RegisterFor(c)

-----------------------------------------------------------------------------
(* Confirming *)

\* _card_lineage: what a slide is made of is a live card with its sources.
HasLineage(c) == c \in live

\* _reject_blocking_reviews
NotBlocked(subjects) == subjects \cap blocked = {}

\* _build_and_register: the draft of an outline can be built.
Cleared(o) == LET cards == Range(outlines[o].cards)
              IN  (\A c \in cards : HasLineage(c)) /\ NotBlocked({Subject(c) : c \in cards})

\* _slide: a slide for every card, with an empty slot.
Draft(o) == [c \in Range(outlines[o].cards) |-> {}]

\* _walk_nodes, of the slides of a deck: the placements they show, in their order.
ShownIn(taught, deck) == FoldLeft(LAMBDA shown, c : shown \o SetToSeq(deck[c]), <<>>, taught)
Shown(o, deck) == ShownIn(Taught(outlines[o]), deck)

\* The members of a list, each where it is first.
Once(list) == FoldLeft(LAMBDA kept, a : IF Contains(kept, a) THEN kept ELSE Append(kept, a),
                       <<>>, list)

\* register_runtime_manifest: the artifacts of what is shown.
Manifest(shown) == Once([i \in DOMAIN shown |-> ArtifactOf(placed[shown[i]].visual)])

\* Fault: two versions of a course may have the same revision.
FreeRevision(logical, revision) == TRUE

\* The UNIQUE columns of course_versions.
NewRevision(logical, revision) ==
  \A k \in DOMAIN courses : courses[k].logical = logical => courses[k].revision # revision

Newest(o) ==
  \A other \in DOMAIN outlines : LogicalOf[other] = LogicalOf[o]
                                   => RevisionOf[other] <= RevisionOf[o]

\* confirm_course_outline: an outline is confirmed once, while it is the newest.  Whoever
\* registers the same confirmation again is given it, by then the newest or not.
Confirmable(o, confirmation) ==
  /\ o \in DOMAIN outlines
  /\ \A other \in DOMAIN confirmed : confirmed[other] = confirmation <=> other = o
  /\ o \notin DOMAIN confirmed => Newest(o) /\ StillBound(outlines[o])

\* register_slide_deck: a slide is of a live card, and shows what was placed on it.
DeckStands(deck) == \A c \in DOMAIN deck : c \in live /\ \A p \in deck[c] : placed[p].card = c

\* register_course_version: a course, and with it its slides.  Registered again, at
\* another time, it is not the course it was.
WithCourse(k, course) == Plus([x \in {k} |-> course], courses)

\* _run_course_outline_confirm: an outline becomes a course with the draft of its slides, all
\* or nothing.  A confirmation may be used for several courses.
RunConfirm(j) ==
  LET o == ConfirmedBy[j]
  IN  /\ Confirmable(o, ConfirmationOf[j]) /\ Cleared(o)
      /\ <<j>> \notin DOMAIN courses /\ NewRevision(CourseOf[j], EditionOf[j])
      /\ DeckStands(Draft(o))
      /\ confirmed' = Plus([x \in {o} |-> ConfirmationOf[j]], confirmed)
      /\ courses' = WithCourse(<<j>>,
           [logical |-> CourseOf[j], revision |-> EditionOf[j], outline |-> o,
            parent |-> <<>>, deck |-> Draft(o), visuals |-> <<>>, manifest |-> <<>>])
      /\ UNCHANGED <<visualVars, live, blocked, changes, composing, outlines, placed>>

-----------------------------------------------------------------------------
(* Illustrating and publishing *)

\* The confirmed course an edition goes back to.
Root(k) == LET up[x \in DOMAIN courses] == IF courses[x].parent = <<>> THEN x
                                           ELSE up[courses[x].parent]
           IN  up[k]

\* _visual_placement_authority: the evidence a visual has by now, whatever it says.
Evidence(v) == verified[v].revision

\* register_visual_placement
WithPlacement(p, placement) == Plus([x \in {p} |-> placement], placed)

\* _attach_visual_mutation: on a slide of the confirmed course, whose draft can
\* still be built.
RunAttach(p, k, c, v) ==
  /\ k \in DOMAIN courses /\ p \notin DOMAIN placed
  /\ Cleared(courses[k].outline)
  /\ c \in Range(outlines[courses[k].outline].cards)
  /\ v \in DOMAIN acquired
  /\ placed' = WithPlacement(p, [root |-> Root(k), card |-> c, visual |-> v,
                                 evidence |-> Evidence(v)])
  /\ UNCHANGED <<visualVars, live, blocked, changes, composing, outlines, confirmed, courses>>

\* Fault: a verified visual is enough, whatever the placement refers to.
AuthorisedByStatus(p, now) ==
  LET v == placed[p].visual
  IN  StatusAt(v, now) = "verified" /\ verified[v].at <= now /\ v \notin blocked

\* _resolve_network_visual: the placement refers to the verification there is now.
SameVerdict(p) == placed[p].evidence = Evidence(placed[p].visual)

\* evaluate_visual_publication: the visual is verified, and that has not expired.
PolicyAllows(v, now) == StatusAt(v, now) = "verified" /\ verified[v].at <= now

\* _resolve_visual
Authorised(p, now) ==
  LET v == placed[p].visual IN SameVerdict(p) /\ PolicyAllows(v, now) /\ NotBlocked({v})

\* _bind_visuals: a slot shows one placement at most.
SlotsAreFree(with) == \A p, q \in with : placed[p].card = placed[q].card => p = q
Bound(deck, with) == [c \in DOMAIN deck |-> {p \in with : placed[p].card = c}]

\* _publication_validation: from the draft of the confirmed course, whatever the
\* edition before shows.
MayPublish(k, with, now) ==
  /\ k \in DOMAIN courses
  /\ Cleared(courses[k].outline)
  /\ \A p \in with : placed[p].root = Root(k) /\ Authorised(p, now)
  /\ SlotsAreFree(with)

\* Fault: what the edition before shows stays on the slides.
EditionOnTop(k, asked) ==
  LET o == courses[k].outline
      deck == Bound(Draft(o), Range(asked \o courses[k].visuals))
  IN  [courses[k] EXCEPT !.revision = @ + 1, !.parent = k, !.deck = deck,
                         !.visuals = asked, !.manifest = Manifest(Shown(o, deck))]

\* _publication_validation: the edition that is to come after this one lists its
\* placements as they were asked for.
Edition(k, asked) ==
  LET o == courses[k].outline
      deck == Bound(Draft(o), Range(asked))
  IN  [courses[k] EXCEPT !.revision = @ + 1, !.parent = k, !.deck = deck,
                         !.visuals = asked, !.manifest = Manifest(Shown(o, deck))]

\* publish_course_version: the next edition of a course, from any edition that has
\* none yet, with the placements asked for.
RunPublishCourse(k, asked, now) ==
  LET edition == Edition(k, asked)
  IN  /\ MayPublish(k, Range(asked), now) /\ edition.revision <= MaxEdition
      /\ NewRevision(edition.logical, edition.revision) /\ DeckStands(edition.deck)
      /\ courses' = WithCourse(Append(k, asked), edition)
      /\ UNCHANGED <<visualVars, live, blocked, changes, composing, outlines, confirmed, placed>>

-----------------------------------------------------------------------------
(* Opening for projection (projection_bundle.py) *)

Published(k) == courses[k].parent # <<>>

\* _teaching_course_projection: the chapters that have lessons, one at least.
Lessons(o) == LET chapters == outlines[o].chapters IN Among(chapters, Range(chapters) \ {<<>>})

\* _projection_asset_sources: every artifact is there once, and is one that is shown.
Transferable(manifest, shown) ==
  /\ IsInjective(manifest) /\ Range(manifest) \subseteq DOMAIN artifacts
  /\ Range(manifest) = {ArtifactOf(placed[p].visual) : p \in Range(shown)}

\* _resolve: what describes a course with its slides to the host is of a limited size.
SmallEnough(k) ==
  LET course == courses[k]
  IN  Len(outlines[course.outline].cards) + Len(Shown(course.outline, course.deck)) <= MaxBootstrap

\* _resolve: a course is opened only when what it lists is what its slides show, in
\* the order in which they show it, and that is not too much.
Opens(k) ==
  LET course == courses[k]
      shown == Shown(course.outline, course.deck)
  IN  /\ Published(k)
      /\ course.visuals = shown /\ course.manifest = Manifest(shown)
      /\ Transferable(course.manifest, shown)
      /\ Lessons(course.outline) # <<>> /\ SmallEnough(k)

-----------------------------------------------------------------------------
(* The jobs of the visuals *)

RunSearchJob(now) == Discover(now) /\ UNCHANGED courseVars
RunAcquireJob(now, batch) == Acquire(now, batch) /\ UNCHANGED courseVars
RunRevalidateJob(now, v) == Revalidate(now, v) /\ UNCHANGED courseVars

-----------------------------------------------------------------------------
CourseNext ==
  \/ \E c \in Withdrawable : Withdraw(c) \/ Return(c)
  \/ \E s \in Reviewable : OpenReview(s) \/ CloseReview(s)
  \/ \E c \in Composers : RunCompose(c)
  \/ \E j \in Confirmers : RunConfirm(j)
  \/ \E p \in Placements, k \in DOMAIN courses, v \in Visuals : RunAttach(p, k, Illustrates[p], v)
  \/ \E asked \in SetToAllKPermutations(DOMAIN placed) :
       \E k \in DOMAIN courses, now \in Now : RunPublishCourse(k, asked, now)

Next ==
  \/ CourseNext
  \/ Tick /\ UNCHANGED courseVars
  \/ \E p \in Pages, s \in States : Turn(p, s) /\ UNCHANGED courseVars
  \/ \E now \in Now : RunSearchJob(now)
  \/ \E now \in Now, batch \in Batches : RunAcquireJob(now, batch)
  \/ \E now \in Now, v \in Visuals : RunRevalidateJob(now, v)

Spec == Init /\ [][Next]_vars

-----------------------------------------------------------------------------
(* Properties *)

\* The slots of all cards together.
Allotted(cards, slots) == FoldLeft(LAMBDA n, c : n + slots[c], 0, cards)

\* The i-th card of chapter g is taught after the card p: in an earlier chapter, or
\* before it in its own.
TaughtBefore(chapters, p, g, i) ==
  \/ \E e \in 1..g - 1 : p \in Range(chapters[e])
  \/ \E h \in 1..i - 1 : chapters[g][h] = p

\* The card p has no place in the first g chapters: no goal of theirs is covered by it.
BelongsLater(p, g) == \A e \in 1..Least(g, Len(Goals)) : ~Covers(p, e)

\* The chapters of an outline that is registered can be taught: they hold each of its
\* cards once, and with it everything the card presupposes, taught before it wherever
\* that covers a goal by then (the chapters go by goals: what covers a later goal, or
\* none, is taught later than the cards that presuppose it); every goal is covered, in
\* its own chapter or that of an earlier goal in the same words; and the slots allotted
\* are exactly those there are, one for each card at least (select_with_prerequisites,
\* _allocate, _compose_from_retrievals).
Teachable(outline) ==
  LET cards == Range(outline.cards)
      chapters == outline.chapters
  IN  /\ IsInjective(outline.cards) /\ IsInjective(Taught(outline))
      /\ Range(Taught(outline)) = cards
      /\ \A g \in DOMAIN chapters : \A i \in DOMAIN chapters[g] :
           \A p \in Range(PrerequisitesOf[chapters[g][i]]) :
             p \in cards /\ (TaughtBefore(chapters, p, g, i) \/ BelongsLater(p, g))
      /\ \A g \in DOMAIN Goals : \E h \in 1..g : Goals[h] = Goals[g] /\ outline.chapters[h] # <<>>
      /\ \A c \in cards : outline.slots[c] >= 1
      /\ Allotted(outline.cards, outline.slots) = Slots

OutlineIsTeachable == \A o \in DOMAIN outlines : Teachable(outlines[o])

\* Nothing that was withdrawn is taught: an outline is registered, a course made and
\* an edition published only while all its cards are live, however long ago the
\* searches were (register_course_outline, confirm_course_outline,
\* register_course_version).
WithdrawnStaysOut ==
  [][/\ \A o \in DOMAIN outlines' \ DOMAIN outlines : Range(outlines'[o].cards) \subseteq live
     /\ \A k \in DOMAIN courses' \ DOMAIN courses :
          \A c \in Range(outlines[courses'[k].outline].cards) :
            c \in live /\ Subject(c) \notin blocked]_vars

\* The editions of a course form one chain: of two versions of a logical course, one
\* is the later, and no two supersede the same (register_course_version, and the
\* UNIQUE columns of course_versions).
EditionsDoNotFork ==
  \A k, l \in DOMAIN courses :
    k # l => /\ courses[k].logical = courses[l].logical
                  => courses[k].revision # courses[l].revision
             /\ courses[k].parent = courses[l].parent => courses[k].parent = <<>>

\* An edition can be opened for projection, but for two things, which nothing asks of
\* who publishes it: its placements were not asked for in the order of its slides, or
\* there is too much on them (_publication_validation, PublishedProjectionBundleResolver).
InSlideOrder(k) ==
  LET visuals == courses[k].visuals
      taught == Taught(outlines[courses[k].outline])
  IN  \A i, j \in DOMAIN visuals :
        i < j => \E m, n \in DOMAIN taught :
                   m < n /\ taught[m] = placed[visuals[i]].card /\ taught[n] = placed[visuals[j]].card

EditionsOpenInOrder ==
  \A k \in DOMAIN courses : Published(k) => (Opens(k) <=> InSlideOrder(k) /\ SmallEnough(k))

\* Whatever was published can be opened (tests/test_projection_bundle.py, "resolver
\* returns exact published path free bundle").
EditionsOpen == \A k \in DOMAIN courses : Published(k) => Opens(k)

\* Once a revalidation has given a visual another verdict, whatever was placed before
\* is not published any more: every placement in a new edition was made after the
\* last verdict on its visual, which is in favour and, but for the wait for the lock,
\* still holds (_resolve_network_visual, evaluate_visual_publication).
StalePlacementsStayOut ==
  [][\A k \in DOMAIN courses' \ DOMAIN courses, p \in Placements :
       p \in UNION Range(courses'[k].deck) =>
         LET verdict == verified[placed[p].visual]
         IN  /\ verdict.status = "verified" /\ placed[p].evidence = verdict.revision
             /\ clock <= verdict.at + VerificationTTL + MaxWait]_vars
=============================================================================
