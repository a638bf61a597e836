---------------------- MODULE CoursePublicationProofs ----------------------
(***************************************************************************)
(* For any cards, outlines, courses and visuals: an outline can be taught, *)
(* the editions of a course form one chain, nothing withdrawn is taught,   *)
(* no edition shows what a revalidation has turned down, and an edition    *)
(* can be opened if its placements were asked for in the slides' order.    *)
(*                                                                         *)
(* A course is known by the path of placements that leads to it from its   *)
(* confirmation.  The chain rests on no course being replaced: a path one  *)
(* longer than a course's is of the next revision, and the revisions of a  *)
(* logical course are taken once.                                          *)
(*                                                                         *)
(* An outline is composed by folds and by a recursion that looks at the    *)
(* calls deeper in the prerequisites (Calls, Deeper).  Each is first shown *)
(* to go through its steps, one lemma for each (AmongRuns, TakingEquation, *)
(* SelectionRuns, AllocationRuns, ...), and then an induction over the     *)
(* steps shows what it keeps.                                              *)
(*                                                                         *)
(* That an edition opens rests on what was there when it was published     *)
(* being there still (Standing, Grows), and on there being one way only to *)
(* put its visuals in the order of its slides (OrderIsOne).                *)
(***************************************************************************)
EXTENDS CoursePublication, Recursion, SequenceTheorems, TLAPS

\* What the path of a course consists of.
Asked == UNION {SetToAllKPermutations(D) : D \in SUBSET Placements}
Steps == Confirmers \cup Asked

Shape(course) ==
  course = [logical |-> course.logical, revision |-> course.revision, outline |-> course.outline,
            parent |-> course.parent, deck |-> course.deck, visuals |-> course.visuals,
            manifest |-> course.manifest]

CourseTyped ==
  \A k \in DOMAIN courses :
    k \in Seq(Steps) /\ k # <<>> /\ Shape(courses[k]) /\ courses[k].revision \in Nat

\* A confirmed course goes by its confirmation, and an edition follows another.
PathsLead ==
  \A k \in DOMAIN courses :
    LET up == courses[k].parent
    IN  IF up = <<>> THEN \E j \in Confirmers : k = <<j>> /\ ConfirmedBy[j] \in DOMAIN confirmed
        ELSE /\ up \in DOMAIN courses
             /\ \E asked \in Asked : k = Append(up, asked)
             /\ courses[k].logical = courses[up].logical
             /\ courses[k].revision = courses[up].revision + 1

RevisionsAreTakenOnce ==
  \A k, l \in DOMAIN courses :
    k # l /\ courses[k].logical = courses[l].logical => courses[k].revision # courses[l].revision

Chained == CourseTyped /\ PathsLead /\ RevisionsAreTakenOnce

VisualsTyped ==
  /\ clock \in Nat
  /\ provider \in [Pages -> States]
  /\ \A a \in DOMAIN artifacts : artifacts[a] \in Nat
  /\ DOMAIN acquired \subseteq DOMAIN verified
  /\ \A v \in DOMAIN verified : verified[v].at \in Nat

PlacementsTyped ==
  DOMAIN placed \subseteq Placements /\ \A p \in DOMAIN placed : placed[p].visual \in DOMAIN verified

IInv == Chained /\ VisualsTyped /\ PlacementsTyped

-----------------------------------------------------------------------------
(* The steps of the action properties *)

OutlinesOfLiveCards ==
  \A o \in DOMAIN outlines' \ DOMAIN outlines : Range(outlines'[o].cards) \subseteq live

CoursesOfLiveCards ==
  \A k \in DOMAIN courses' \ DOMAIN courses :
    \A c \in Range(outlines[courses'[k].outline].cards) : c \in live /\ Subject(c) \notin blocked

ShownAreVerified ==
  \A k \in DOMAIN courses' \ DOMAIN courses, p \in Placements :
    p \in UNION Range(courses'[k].deck) =>
      LET verdict == verified[placed[p].visual]
      IN  /\ verdict.status = "verified" /\ placed[p].evidence = verdict.revision
          /\ clock <= verdict.at + VerificationTTL + MaxWait

VerdictsStand ==
  \A v \in DOMAIN verified :
    /\ v \in DOMAIN verified'
    /\ verified'[v] # verified[v] => verified'[v].revision = verified[v].revision + 1
    /\ verified[v].status # "verified" /\ verified'[v].status = "verified"
         => provider[PageOf(v)] = v[2]

Sound == OutlinesOfLiveCards /\ CoursesOfLiveCards /\ ShownAreVerified

-----------------------------------------------------------------------------
(* The visuals *)

LEMMA NowIsNear ==
  ASSUME VisualsTyped, NEW now \in Now
  PROVE  now \in Nat /\ clock <= now + MaxWait
BY VisualsAssumption DEF Now, VisualsTyped

\* What a revalidation says is what the provider says: only an unchanged page is
\* found to be what the visual was made of.
LEMMA FoundIsUnchanged ==
  ASSUME VisualsTyped, NEW v \in Visuals, Found(v) = "verified"
  PROVE  provider[PageOf(v)] = v[2]
<1>1. PageOf(v) \in Pages /\ v[2] \in States \ {"removed"}
  BY DEF Visuals, PageOf
<1>2. provider[PageOf(v)] \in States
  BY <1>1 DEF VisualsTyped
<1> QED
  BY <1>1, <1>2, VisualsAssumption DEF Found, LicenseIn, BytesIn

LEMMA RevalidateStands ==
  ASSUME VisualsTyped, NEW now \in Now, NEW v \in Visuals, Revalidate(now, v)
  PROVE  VisualsTyped' /\ DOMAIN verified' = DOMAIN verified /\ VerdictsStand
<1>1. /\ verified' = [verified EXCEPT ![v] = [status |-> Found(v), at |-> now,
                                                revision |-> verified[v].revision + 1]]
      /\ UNCHANGED <<clock, provider, artifacts, acquired>>
  BY DEF Revalidate, WithVerdict, Verdict
<1>2. now \in Nat
  BY NowIsNear
<1>3. DOMAIN verified' = DOMAIN verified
  BY <1>1
<1>4. \A w \in DOMAIN verified : w # v => verified'[w] = verified[w]
  BY <1>1
<1>5. v \in DOMAIN verified =>
        verified'[v] = [status |-> Found(v), at |-> now, revision |-> verified[v].revision + 1]
  BY <1>1
<1>6. \A w \in DOMAIN verified : verified'[w].at \in Nat
  BY <1>2, <1>4, <1>5 DEF VisualsTyped
<1>7. VisualsTyped'
  BY <1>1, <1>3, <1>6 DEF VisualsTyped
<1>8. VerdictsStand
  BY <1>3, <1>4, <1>5, FoundIsUnchanged DEF VerdictsStand
<1> QED
  BY <1>3, <1>7, <1>8

LEMMA KeepStands ==
  ASSUME VisualsTyped, NEW now \in Nat, NEW valid, Keep(now, valid),
         UNCHANGED <<clock, provider>>
  PROVE  VisualsTyped' /\ DOMAIN verified \subseteq DOMAIN verified' /\ VerdictsStand
<1> DEFINE had == {VisualOf(c) : c \in valid} \ DOMAIN acquired
           stored == Plus(artifacts, [a \in {ArtifactOf(v) : v \in had} |-> now])
           first == [v \in had |-> Verdict("verified", stored[ArtifactOf(v)], 1)]
           from == [v \in had |-> CHOOSE c \in valid : VisualOf(c) = v]
<1>1. artifacts' = stored /\ acquired' = Plus(acquired, from) /\ verified' = Plus(verified, first)
  BY DEF Keep
<1>2. /\ DOMAIN stored = DOMAIN artifacts \cup {ArtifactOf(v) : v \in had}
      /\ \A a \in DOMAIN stored : stored[a] \in Nat
  BY DEF Plus, VisualsTyped
<1>3. DOMAIN acquired' = DOMAIN acquired \cup had
  BY <1>1 DEF Plus
<1>4. DOMAIN first = had /\ \A v \in had : first[v] = Verdict("verified", stored[ArtifactOf(v)], 1)
  OBVIOUS
<1>5. \A v \in had : stored[ArtifactOf(v)] \in Nat
  BY <1>2
<1> HIDE DEF had, stored, first, from
<1>6. \A v \in had : first[v].at \in Nat
  BY <1>4, <1>5 DEF Verdict
<1>7. /\ DOMAIN verified' = DOMAIN verified \cup had
      /\ \A v \in DOMAIN verified : verified'[v] = verified[v]
      /\ \A v \in had \ DOMAIN verified : verified'[v] = first[v]
  BY <1>1, <1>4 DEF Plus
<1>8. \A v \in DOMAIN verified' : verified'[v].at \in Nat
  BY <1>6, <1>7 DEF VisualsTyped
<1>9. VisualsTyped'
  BY <1>1, <1>2, <1>3, <1>7, <1>8 DEF VisualsTyped
<1> QED
  BY <1>7, <1>9 DEF VerdictsStand

LEMMA AcquireStands ==
  ASSUME VisualsTyped, NEW now \in Now, NEW batch, Acquire(now, batch)
  PROVE  VisualsTyped' /\ DOMAIN verified \subseteq DOMAIN verified' /\ VerdictsStand
<1> DEFINE valid == {c \in batch : Acquirable(c, now)}
<1>1. /\ UNCHANGED <<clock, provider>>
      /\ Keep(now, valid) \/ UNCHANGED <<artifacts, acquired, verified>>
  BY DEF Acquire
<1>2. CASE UNCHANGED <<artifacts, acquired, verified>>
  BY <1>1, <1>2 DEF VisualsTyped, VerdictsStand
<1>3. CASE Keep(now, valid)
  BY <1>1, <1>3, NowIsNear, KeepStands
<1> QED
  BY <1>1, <1>2, <1>3

\* The clock, the provider and a search decide nothing.
LEMMA OutsideStands ==
  ASSUME VisualsTyped,
         Tick \/ (\E p \in Pages, s \in States : Turn(p, s)) \/ (\E now \in Now : Discover(now))
  PROVE  VisualsTyped' /\ DOMAIN verified \subseteq DOMAIN verified' /\ VerdictsStand
<1>1. UNCHANGED <<artifacts, acquired, verified>>
  BY DEF Tick, Turn, Discover
<1>2. clock' \in Nat
  BY DEF Tick, Turn, Discover, VisualsTyped
<1>3. provider' \in [Pages -> States]
  <2>1. ASSUME NEW p \in Pages, NEW s \in States, Turn(p, s)
        PROVE  provider' \in [Pages -> States]
    BY <2>1 DEF Turn, VisualsTyped
  <2>2. provider' = provider \/ \E p \in Pages, s \in States : Turn(p, s)
    BY DEF Tick, Discover
  <2> QED
    BY <2>1, <2>2 DEF VisualsTyped
<1> QED
  BY <1>1, <1>2, <1>3 DEF VisualsTyped, VerdictsStand

LEMMA VisualsStand ==
  ASSUME VisualsTyped, UNCHANGED visualVars
  PROVE  VisualsTyped' /\ VerdictsStand
BY DEF VisualsTyped, VerdictsStand, visualVars

-----------------------------------------------------------------------------
(* Paths *)

LEMMA PathsDiffer ==
  ASSUME NEW k \in Seq(Steps), k # <<>>, NEW asked \in Asked, NEW j \in Confirmers
  PROVE  /\ Append(k, asked) \in Seq(Steps) /\ Append(k, asked) # <<>>
         /\ Append(k, asked) # <<j>>
         /\ <<j>> \in Seq(Steps) /\ <<j>> # <<>>
<1>1. asked \in Steps /\ j \in Steps
  BY DEF Steps
<1>2. /\ Append(k, asked) \in Seq(Steps) /\ Append(k, asked) # <<>>
      /\ Len(Append(k, asked)) = Len(k) + 1
  BY <1>1, AppendProperties
<1>3. Len(k) \in Nat /\ Len(k) # 0
  OBVIOUS
<1>4. <<j>> \in Seq(Steps) /\ <<j>> # <<>> /\ Len(<<j>>) = 1
  BY <1>1
<1> QED
  BY <1>2, <1>3, <1>4

LEMMA PathsLeadBack ==
  ASSUME NEW k \in Seq(Steps), NEW l \in Seq(Steps), NEW a \in Asked, NEW b \in Asked,
         Append(k, a) = Append(l, b)
  PROVE  k = l
BY AppendInjective DEF Steps

\* A course that is added, and replaces none.
LEMMA CourseAdded ==
  ASSUME NEW k, NEW course, k \notin DOMAIN courses, courses' = WithCourse(k, course)
  PROVE  /\ DOMAIN courses' = DOMAIN courses \cup {k}
         /\ courses'[k] = course
         /\ \A l \in DOMAIN courses : courses'[l] = courses[l]
BY DEF WithCourse, Plus

LEMMA NewRevisionKeeps ==
  ASSUME Chained, NEW k, NEW course, k \notin DOMAIN courses, courses' = WithCourse(k, course),
         NewRevision(course.logical, course.revision)
  PROVE  RevisionsAreTakenOnce'
<1>1. /\ DOMAIN courses' = DOMAIN courses \cup {k}
      /\ courses'[k] = course
      /\ \A l \in DOMAIN courses : courses'[l] = courses[l]
  BY CourseAdded
<1>2. \A l \in DOMAIN courses : courses[l].logical = course.logical => courses[l].revision # course.revision
  BY DEF NewRevision
<1> QED
  BY <1>1, <1>2 DEF Chained, RevisionsAreTakenOnce

\* No confirmation replaces a course.
LEMMA ConfirmKeeps ==
  ASSUME Chained, NEW j \in Confirmers, RunConfirm(j)
  PROVE  Chained' /\ <<j>> \notin DOMAIN courses
<1> DEFINE o == ConfirmedBy[j]
           course == [logical |-> CourseOf[j], revision |-> EditionOf[j], outline |-> o,
                      parent |-> <<>>, deck |-> Draft(o), visuals |-> <<>>, manifest |-> <<>>]
<1>1. /\ <<j>> \notin DOMAIN courses
      /\ NewRevision(CourseOf[j], EditionOf[j])
      /\ confirmed' = Plus([x \in {o} |-> ConfirmationOf[j]], confirmed)
      /\ courses' = WithCourse(<<j>>, course)
  BY DEF RunConfirm
<1>2. /\ course.logical = CourseOf[j] /\ course.revision = EditionOf[j] /\ course.parent = <<>>
      /\ Shape(course) /\ EditionOf[j] \in Nat
  BY PublicationAssumption DEF Shape
<1> HIDE DEF course
<1>3. <<j>> \notin DOMAIN courses
  BY <1>1
<1>4. /\ DOMAIN courses' = DOMAIN courses \cup {<<j>>}
      /\ courses'[<<j>>] = course
      /\ \A l \in DOMAIN courses : courses'[l] = courses[l]
  BY <1>1, <1>3, CourseAdded
<1>5. <<j>> \in Seq(Steps) /\ <<j>> # <<>>
  BY DEF Steps
<1>6. CourseTyped'
  <2> SUFFICES ASSUME NEW k \in DOMAIN courses'
               PROVE  k \in Seq(Steps) /\ k # <<>> /\ Shape(courses'[k]) /\ courses'[k].revision \in Nat
    BY DEF CourseTyped, Shape
  <2>1. CASE k \in DOMAIN courses
    BY <1>4, <2>1 DEF Chained, CourseTyped
  <2>2. CASE k = <<j>>
    BY <1>2, <1>4, <1>5, <2>2
  <2> QED
    BY <1>4, <2>1, <2>2
<1>7. DOMAIN confirmed' = DOMAIN confirmed \cup {o}
  BY <1>1 DEF Plus
<1>8. PathsLead'
  BY <1>2, <1>4, <1>7 DEF Chained, PathsLead
<1>9. RevisionsAreTakenOnce'
  BY <1>1, <1>2, <1>3, NewRevisionKeeps
<1> QED
  BY <1>3, <1>6, <1>8, <1>9 DEF Chained

\* What an edition takes from the one before.
LEMMA EditionFollows ==
  ASSUME NEW k \in DOMAIN courses, Shape(courses[k]), NEW asked
  PROVE  /\ Shape(Edition(k, asked))
         /\ Edition(k, asked).logical = courses[k].logical
         /\ Edition(k, asked).revision = courses[k].revision + 1
         /\ Edition(k, asked).outline = courses[k].outline
         /\ Edition(k, asked).parent = k
         /\ Edition(k, asked).deck = Bound(Draft(courses[k].outline), Range(asked))
         /\ Edition(k, asked).visuals = asked
         /\ Edition(k, asked).manifest = Manifest(Shown(courses[k].outline, Edition(k, asked).deck))
<1> DEFINE c == courses[k]
           deck == Bound(Draft(c.outline), Range(asked))
           shown == Manifest(Shown(c.outline, deck))
<1>1. Edition(k, asked) = [c EXCEPT !.revision = @ + 1, !.parent = k, !.deck = deck,
                                    !.visuals = asked, !.manifest = shown]
  BY DEF Edition
<1>2. c = [logical |-> c.logical, revision |-> c.revision, outline |-> c.outline,
           parent |-> c.parent, deck |-> c.deck, visuals |-> c.visuals, manifest |-> c.manifest]
  BY DEF Shape
<1> HIDE DEF c, deck, shown
<1>3. Edition(k, asked) = [logical |-> c.logical, revision |-> c.revision + 1, outline |-> c.outline,
                           parent |-> k, deck |-> deck, visuals |-> asked, manifest |-> shown]
  BY <1>1, <1>2
<1>4. Shape(Edition(k, asked))
  BY <1>3 DEF Shape
<1> QED
  BY <1>3, <1>4 DEF c, deck, shown

\* No edition replaces a course: its revision would be taken.
LEMMA PublishKeeps ==
  ASSUME Chained, NEW asked \in Asked, NEW k, NEW now, RunPublishCourse(k, asked, now)
  PROVE  Chained' /\ Append(k, asked) \notin DOMAIN courses
<1> DEFINE edition == Edition(k, asked)
           path == Append(k, asked)
<1>1. /\ k \in DOMAIN courses
      /\ NewRevision(edition.logical, edition.revision)
      /\ courses' = WithCourse(path, edition)
      /\ UNCHANGED confirmed
  BY DEF RunPublishCourse, MayPublish
<1>2. k \in Seq(Steps) /\ k # <<>> /\ Shape(courses[k]) /\ courses[k].revision \in Nat
  BY <1>1 DEF Chained, CourseTyped
<1>3. /\ Shape(edition) /\ edition.logical = courses[k].logical
      /\ edition.revision = courses[k].revision + 1 /\ edition.parent = k
  BY <1>1, <1>2, EditionFollows
<1> HIDE DEF edition
<1>4. path \in Seq(Steps) /\ path # <<>> /\ \A j \in Confirmers : path # <<j>>
  <2>1. asked \in Steps
    BY DEF Steps
  <2>2. path \in Seq(Steps) /\ path # <<>>
    BY <1>2, <2>1, AppendProperties
  <2> QED
    BY <1>2, <2>2, PathsDiffer
<1>5. path \notin DOMAIN courses
  <2> SUFFICES ASSUME path \in DOMAIN courses PROVE FALSE
    OBVIOUS
  <2> DEFINE up == courses[path].parent
  <2>1. up # <<>>
    BY <1>4 DEF Chained, PathsLead
  <2>2. /\ up \in DOMAIN courses
        /\ courses[path].logical = courses[up].logical
        /\ courses[path].revision = courses[up].revision + 1
    BY <2>1 DEF Chained, PathsLead
  <2>3. PICK other \in Asked : path = Append(up, other)
    BY <2>1 DEF Chained, PathsLead
  <2>4. up \in Seq(Steps)
    BY <2>2 DEF Chained, CourseTyped
  <2>5. up = k
    BY <1>2, <2>3, <2>4, PathsLeadBack
  <2> QED
    BY <1>1, <1>3, <2>2, <2>5 DEF NewRevision
<1>6. /\ DOMAIN courses' = DOMAIN courses \cup {path}
      /\ courses'[path] = edition
      /\ \A l \in DOMAIN courses : courses'[l] = courses[l]
  BY <1>1, <1>5, CourseAdded
<1> HIDE DEF path
<1>7. CourseTyped'
  <2> SUFFICES ASSUME NEW l \in DOMAIN courses'
               PROVE  l \in Seq(Steps) /\ l # <<>> /\ Shape(courses'[l]) /\ courses'[l].revision \in Nat
    BY DEF CourseTyped, Shape
  <2>1. CASE l \in DOMAIN courses
    BY <1>6, <2>1 DEF Chained, CourseTyped
  <2>2. CASE l = path
    BY <1>2, <1>3, <1>4, <1>6, <2>2
  <2> QED
    BY <1>6, <2>1, <2>2
<1>8. PathsLead'
  <2> SUFFICES ASSUME NEW l \in DOMAIN courses'
               PROVE  LET up == courses'[l].parent
                      IN  IF up = <<>> THEN \E j \in Confirmers : l = <<j>> /\ ConfirmedBy[j] \in DOMAIN confirmed'
                          ELSE /\ up \in DOMAIN courses'
                               /\ \E a \in Asked : l = Append(up, a)
                               /\ courses'[l].logical = courses'[up].logical
                               /\ courses'[l].revision = courses'[up].revision + 1
    BY DEF PathsLead
  <2>1. CASE l \in DOMAIN courses
    BY <1>1, <1>6, <2>1 DEF Chained, PathsLead
  <2>2. CASE l = path
    <3>1. courses'[l].parent = k /\ k # <<>> /\ k \in DOMAIN courses' /\ courses'[k] = courses[k]
      BY <1>1, <1>2, <1>3, <1>6, <2>2
    <3>2. \E a \in Asked : l = Append(k, a)
      BY <2>2 DEF path
    <3>3. courses'[l] = edition
      BY <1>6, <2>2
    <3> QED
      BY <1>3, <3>1, <3>2, <3>3
  <2> QED
    BY <1>6, <2>1, <2>2
<1>9. RevisionsAreTakenOnce'
  BY <1>1, <1>5, NewRevisionKeeps DEF path, edition
<1> QED
  BY <1>5, <1>7, <1>8, <1>9 DEF Chained, path

LEMMA CoursesUnchanged == ASSUME Chained, UNCHANGED <<courses, confirmed>> PROVE Chained'
BY DEF Chained, CourseTyped, PathsLead, RevisionsAreTakenOnce, Shape

-----------------------------------------------------------------------------
(* What is taught and shown *)

LEMMA ComposeIsSound ==
  ASSUME NEW c \in Composers, RunCompose(c)
  PROVE  OutlinesOfLiveCards /\ UNCHANGED <<visualVars, live, blocked, confirmed, courses, placed>>
<1>1. UNCHANGED <<visualVars, live, blocked, confirmed, courses, placed>>
  <2>1. CASE RetrieveFor(c)
    BY <2>1 DEF RetrieveFor
  <2>2. CASE PrepareFor(c)
    BY <2>2 DEF PrepareFor
  <2>3. CASE RegisterFor(c)
    BY <2>3 DEF RegisterFor
  <2> QED
    BY <2>1, <2>2, <2>3 DEF RunCompose
<1>2. CASE UNCHANGED outlines
  BY <1>1, <1>2 DEF OutlinesOfLiveCards
<1>3. CASE RegisterFor(c)
  <2> DEFINE o == VersionOf[c]
             outline == composing[c].outline
  <2>1. CASE ~MayRegister(o, outline)
    BY <1>2, <1>3, <2>1 DEF RegisterFor
  <2>2. CASE MayRegister(o, outline)
    <3>1. outlines' = Plus([x \in {o} |-> outline], outlines)
      BY <1>3, <2>2 DEF RegisterFor
    <3>2. o \notin DOMAIN outlines => Range(outline.cards) \subseteq live
      BY <2>2 DEF MayRegister, StillBound
    <3> HIDE DEF o, outline
    <3>3. DOMAIN outlines' = {o} \cup DOMAIN outlines
      BY <3>1 DEF Plus
    <3>4. outlines'[o] = outline
      BY <3>1 DEF Plus
    <3> QED
      BY <1>1, <3>2, <3>3, <3>4 DEF OutlinesOfLiveCards
  <2> QED
    BY <2>1, <2>2
<1> QED
  BY <1>1, <1>2, <1>3 DEF RunCompose, RetrieveFor, PrepareFor

LEMMA NewCourse ==
  ASSUME NEW k, NEW course, courses' = WithCourse(k, course)
  PROVE  DOMAIN courses' \ DOMAIN courses \subseteq {k} /\ courses'[k] = course
BY DEF WithCourse, Plus

LEMMA ClearedCards ==
  ASSUME NEW o, Cleared(o)
  PROVE  \A c \in Range(outlines[o].cards) : c \in live /\ Subject(c) \notin blocked
BY DEF Cleared, HasLineage, NotBlocked

LEMMA ConfirmIsSound ==
  ASSUME NEW j \in Confirmers, RunConfirm(j)
  PROVE  CoursesOfLiveCards /\ ShownAreVerified
<1> DEFINE o == ConfirmedBy[j]
           course == [logical |-> CourseOf[j], revision |-> EditionOf[j], outline |-> o,
                      parent |-> <<>>, deck |-> Draft(o), visuals |-> <<>>, manifest |-> <<>>]
<1>1. Cleared(o) /\ courses' = WithCourse(<<j>>, course)
  BY DEF RunConfirm
<1>2. course.outline = o /\ course.deck = Draft(o)
  OBVIOUS
<1>3. \A c \in DOMAIN Draft(o) : Draft(o)[c] = {}
  BY DEF Draft
<1>4. UNION Range(Draft(o)) = {}
  BY <1>3 DEF Range
<1> HIDE DEF course, o
<1>5. DOMAIN courses' \ DOMAIN courses \subseteq {<<j>>} /\ courses'[<<j>>] = course
  BY <1>1, NewCourse
<1>6. CoursesOfLiveCards
  BY <1>1, <1>2, <1>5, ClearedCards DEF CoursesOfLiveCards
<1>7. ShownAreVerified
  BY <1>2, <1>4, <1>5 DEF ShownAreVerified
<1> QED
  BY <1>6, <1>7

\* A placement that is authorised now was made after the last verdict on its visual.
LEMMA AuthorisedIsVerified ==
  ASSUME VisualsTyped, PlacementsTyped, NEW now \in Now, NEW p \in DOMAIN placed, Authorised(p, now)
  PROVE  LET verdict == verified[placed[p].visual]
         IN  /\ verdict.status = "verified" /\ placed[p].evidence = verdict.revision
             /\ clock <= verdict.at + VerificationTTL + MaxWait
<1> DEFINE v == placed[p].visual
<1>1. v \in DOMAIN verified /\ verified[v].at \in Nat
  BY DEF PlacementsTyped, VisualsTyped
<1>2. placed[p].evidence = verified[v].revision
  BY DEF Authorised, SameVerdict, Evidence
<1>3. StatusAt(v, now) = "verified"
  BY DEF Authorised, PolicyAllows
<1> HIDE DEF v
<1>4. verified[v].status = "verified" /\ ~(now > verified[v].at + VerificationTTL)
  BY <1>3 DEF StatusAt
<1>5. /\ now \in Nat /\ clock <= now + MaxWait
      /\ VerificationTTL \in Nat /\ MaxWait \in Nat /\ clock \in Nat
  BY NowIsNear, VisualsAssumption DEF VisualsTyped
<1>6. clock <= verified[v].at + VerificationTTL + MaxWait
  BY <1>1, <1>4, <1>5
<1> QED
  BY <1>2, <1>4, <1>6 DEF v

LEMMA PublishIsSound ==
  ASSUME IInv, NEW D \in SUBSET DOMAIN placed, NEW asked \in SetToSeqs(D), NEW k, NEW now \in Now,
         RunPublishCourse(k, asked, now)
  PROVE  CoursesOfLiveCards /\ ShownAreVerified
<1> DEFINE edition == Edition(k, asked)
           path == Append(k, asked)
           o == courses[k].outline
<1>1. /\ k \in DOMAIN courses /\ Cleared(o)
      /\ \A p \in Range(asked) : Authorised(p, now)
      /\ courses' = WithCourse(path, edition)
  BY DEF RunPublishCourse, MayPublish
<1>2. Shape(courses[k])
  BY <1>1 DEF IInv, Chained, CourseTyped
<1>3. edition.outline = o /\ edition.deck = Bound(Draft(o), Range(asked))
  BY <1>1, <1>2, EditionFollows
<1>4. UNION Range(Bound(Draft(o), Range(asked))) \subseteq Range(asked)
  BY DEF Bound, Range
<1>5. Range(asked) \subseteq DOMAIN placed
  BY DEF SetToSeqs, Range
<1> HIDE DEF edition, path, o
<1>6. DOMAIN courses' \ DOMAIN courses \subseteq {path} /\ courses'[path] = edition
  BY <1>1, NewCourse
<1>7. CoursesOfLiveCards
  BY <1>1, <1>3, <1>6, ClearedCards DEF CoursesOfLiveCards
<1>8. ASSUME NEW p \in UNION Range(edition.deck)
      PROVE  LET verdict == verified[placed[p].visual]
             IN  /\ verdict.status = "verified" /\ placed[p].evidence = verdict.revision
                 /\ clock <= verdict.at + VerificationTTL + MaxWait
  <2>1. p \in Range(asked) /\ p \in DOMAIN placed
    BY <1>3, <1>4, <1>5, <1>8
  <2>2. Authorised(p, now)
    BY <1>1, <2>1
  <2> QED
    BY <2>1, <2>2, AuthorisedIsVerified DEF IInv
<1>9. ShownAreVerified
  BY <1>6, <1>8 DEF ShownAreVerified
<1> QED
  BY <1>7, <1>9

LEMMA AttachKeeps ==
  ASSUME PlacementsTyped, VisualsTyped, NEW p \in Placements, NEW k, NEW c, NEW v, RunAttach(p, k, c, v)
  PROVE  PlacementsTyped'
<1>1. /\ v \in DOMAIN acquired /\ UNCHANGED visualVars
      /\ placed' = Plus([x \in {p} |-> [root |-> Root(k), card |-> c, visual |-> v,
                                         evidence |-> Evidence(v)]], placed)
  BY DEF RunAttach, WithPlacement
<1>2. DOMAIN placed' = DOMAIN placed \cup {p} /\ placed'[p].visual = v
  BY <1>1 DEF Plus
<1>3. \A q \in DOMAIN placed : q # p => placed'[q] = placed[q]
  BY <1>1 DEF Plus
<1>4. verified' = verified /\ v \in DOMAIN verified
  BY <1>1 DEF visualVars, VisualsTyped
<1> QED
  BY <1>2, <1>3, <1>4 DEF PlacementsTyped

-----------------------------------------------------------------------------
LEMMA InitEstablishes == Init => IInv
<1> SUFFICES ASSUME Init PROVE IInv
  OBVIOUS
<1>1. DOMAIN courses = {} /\ DOMAIN placed = {}
  BY DEF Init, Empty
<1>2. Chained
  BY <1>1 DEF Chained, CourseTyped, PathsLead, RevisionsAreTakenOnce
<1>3. VisualsTyped
  BY VisualsAssumption DEF Init, VisualsInit, VisualsTyped
<1> QED
  BY <1>1, <1>2, <1>3 DEF IInv, PlacementsTyped

\* What no step of the courses does: composing, changes of the knowledge base, and
\* the jobs of the visuals leave them as they are.
LEMMA NoCourse ==
  ASSUME UNCHANGED <<outlines, courses>>
  PROVE  Sound
BY DEF Sound, OutlinesOfLiveCards, CoursesOfLiveCards, ShownAreVerified

LEMMA PlacementsStay ==
  ASSUME PlacementsTyped, placed' = placed, DOMAIN verified \subseteq DOMAIN verified'
  PROVE  PlacementsTyped'
BY DEF PlacementsTyped

\* The steps of the courses leave the visuals alone.
LEMMA CourseStepKeeps ==
  ASSUME IInv, CourseNext
  PROVE  IInv' /\ Sound /\ UNCHANGED visualVars
<1>1. Chained /\ VisualsTyped /\ PlacementsTyped
  BY DEF IInv
<1>2. ASSUME UNCHANGED visualVars PROVE VisualsTyped' /\ DOMAIN verified \subseteq DOMAIN verified'
  BY <1>1, <1>2, VisualsStand DEF visualVars
<1>3. CASE \/ \E c \in Withdrawable : Withdraw(c) \/ Return(c)
           \/ \E s \in Reviewable : OpenReview(s) \/ CloseReview(s)
  <2>1. UNCHANGED <<visualVars, outlines, confirmed, courses, placed>>
    BY <1>3 DEF Withdraw, Return, OpenReview, CloseReview, Change
  <2> QED
    BY <1>1, <1>2, <2>1, CoursesUnchanged, PlacementsStay, NoCourse DEF IInv
<1>4. ASSUME NEW c \in Composers, RunCompose(c) PROVE IInv' /\ Sound /\ UNCHANGED visualVars
  <2>1. OutlinesOfLiveCards /\ UNCHANGED <<visualVars, confirmed, courses, placed>>
    BY <1>4, ComposeIsSound
  <2>2. CoursesOfLiveCards /\ ShownAreVerified
    BY <2>1 DEF CoursesOfLiveCards, ShownAreVerified
  <2> QED
    BY <1>1, <1>2, <2>1, <2>2, CoursesUnchanged, PlacementsStay DEF IInv, Sound
<1>5. ASSUME NEW j \in Confirmers, RunConfirm(j) PROVE IInv' /\ Sound /\ UNCHANGED visualVars
  <2>1. UNCHANGED <<visualVars, outlines, placed>>
    BY <1>5 DEF RunConfirm
  <2>2. OutlinesOfLiveCards
    BY <2>1 DEF OutlinesOfLiveCards
  <2> QED
    BY <1>1, <1>2, <1>5, <2>1, <2>2, ConfirmKeeps, ConfirmIsSound, PlacementsStay DEF IInv, Sound
<1>6. ASSUME NEW p \in Placements, NEW k \in DOMAIN courses, NEW v \in Visuals,
             RunAttach(p, k, Illustrates[p], v)
      PROVE  IInv' /\ Sound /\ UNCHANGED visualVars
  <2>1. UNCHANGED <<visualVars, outlines, confirmed, courses>>
    BY <1>6 DEF RunAttach
  <2> QED
    BY <1>1, <1>2, <1>6, <2>1, AttachKeeps, CoursesUnchanged, NoCourse DEF IInv
<1>7. ASSUME NEW asked \in SetToAllKPermutations(DOMAIN placed), NEW k \in DOMAIN courses,
             NEW now \in Now, RunPublishCourse(k, asked, now)
      PROVE  IInv' /\ Sound /\ UNCHANGED visualVars
  <2>1. UNCHANGED <<visualVars, outlines, placed>>
    BY <1>7 DEF RunPublishCourse
  <2>2. PICK D \in SUBSET DOMAIN placed : asked \in SetToSeqs(D)
    BY <1>7 DEF SetToAllKPermutations
  <2>3. asked \in Asked
    BY <1>1, <1>7 DEF Asked, PlacementsTyped
  <2>4. OutlinesOfLiveCards
    BY <2>1 DEF OutlinesOfLiveCards
  <2>5. Chained'
    BY <1>1, <1>7, <2>3, PublishKeeps
  <2>6. CoursesOfLiveCards /\ ShownAreVerified
    BY <1>7, <2>2, PublishIsSound
  <2> QED
    BY <1>1, <1>2, <2>1, <2>4, <2>5, <2>6, PlacementsStay DEF IInv, Sound
<1> QED
  BY <1>3, <1>4, <1>5, <1>6, <1>7 DEF CourseNext

LEMMA VisualStepKeeps ==
  ASSUME IInv, Next, ~CourseNext
  PROVE  IInv' /\ Sound /\ VerdictsStand
<1>1. UNCHANGED courseVars
  BY DEF Next, RunSearchJob, RunAcquireJob, RunRevalidateJob
<1>2. VisualsTyped
  BY DEF IInv
<1>3. VisualsTyped' /\ DOMAIN verified \subseteq DOMAIN verified' /\ VerdictsStand
  <2>1. CASE Tick \/ (\E p \in Pages, s \in States : Turn(p, s)) \/ (\E now \in Now : Discover(now))
    BY <1>2, <2>1, OutsideStands
  <2>2. ASSUME NEW now \in Now, NEW batch, Acquire(now, batch)
        PROVE  VisualsTyped' /\ DOMAIN verified \subseteq DOMAIN verified' /\ VerdictsStand
    BY <1>2, <2>2, AcquireStands
  <2>3. ASSUME NEW now \in Now, NEW v \in Visuals, Revalidate(now, v)
        PROVE  VisualsTyped' /\ DOMAIN verified \subseteq DOMAIN verified' /\ VerdictsStand
    BY <1>2, <2>3, RevalidateStands
  <2> QED
    BY <2>1, <2>2, <2>3 DEF Next, RunSearchJob, RunAcquireJob, RunRevalidateJob
<1>4. UNCHANGED <<outlines, confirmed, courses, placed>>
  BY <1>1 DEF courseVars
<1> QED
  BY <1>3, <1>4, CoursesUnchanged, PlacementsStay, NoCourse DEF IInv

LEMMA StepKeeps == ASSUME IInv, [Next]_vars PROVE IInv' /\ Sound /\ VerdictsStand
<1>1. CASE CourseNext
  BY <1>1, CourseStepKeeps, VisualsStand DEF IInv
<1>2. CASE Next /\ ~CourseNext
  BY <1>2, VisualStepKeeps
<1>3. CASE UNCHANGED vars
  <2>1. UNCHANGED <<outlines, confirmed, courses, placed, visualVars, verified>>
    BY <1>3 DEF vars, courseVars, visualVars
  <2> QED
    BY <2>1, CoursesUnchanged, PlacementsStay, NoCourse, VisualsStand DEF IInv
<1> QED
  BY <1>1, <1>2, <1>3

THEOREM Invariance == Spec => []IInv
<1>1. IInv /\ [Next]_vars => IInv'
  BY StepKeeps
<1> QED
  BY <1>1, InitEstablishes, PTL DEF Spec

\* The editions of a course form one chain (catalog.py register_course_version): of
\* two versions of a logical course one is the later, and none has two successors.
THEOREM EditionsFormOneChain == Spec => []EditionsDoNotFork
<1>1. IInv => EditionsDoNotFork
  <2> SUFFICES ASSUME IInv, NEW k \in DOMAIN courses, NEW l \in DOMAIN courses, k # l
               PROVE  /\ courses[k].logical = courses[l].logical
                           => courses[k].revision # courses[l].revision
                      /\ courses[k].parent = courses[l].parent => courses[k].parent = <<>>
    BY DEF EditionsDoNotFork
  <2>1. courses[k].logical = courses[l].logical => courses[k].revision # courses[l].revision
    BY DEF IInv, Chained, RevisionsAreTakenOnce
  <2>2. ASSUME courses[k].parent = courses[l].parent, courses[k].parent # <<>>
        PROVE  /\ courses[k].logical = courses[l].logical
               /\ courses[k].revision = courses[l].revision
    BY <2>2 DEF IInv, Chained, PathsLead
  <2> QED
    BY <2>1, <2>2
<1> QED
  BY <1>1, Invariance, PTL

\* Nothing that was withdrawn is taught (composer.py, catalog.py, slide_builder.py):
\* an outline, a course and an edition come of live cards only, whatever the
\* searches saw before.
THEOREM WithdrawnCardsStayOut == Spec => WithdrawnStaysOut
<1>1. IInv /\ [Next]_vars =>
        [/\ \A o \in DOMAIN outlines' \ DOMAIN outlines : Range(outlines'[o].cards) \subseteq live
         /\ \A k \in DOMAIN courses' \ DOMAIN courses :
              \A c \in Range(outlines[courses'[k].outline].cards) :
                c \in live /\ Subject(c) \notin blocked]_vars
  BY StepKeeps DEF Sound, OutlinesOfLiveCards, CoursesOfLiveCards
<1> QED
  BY <1>1, Invariance, PTL DEF Spec, WithdrawnStaysOut

\* An edition shows what a revalidation has last spoken for, and no placement from
\* before that (slide_builder.py _resolve_network_visual).
THEOREM RejectedVisualsStayOut == Spec => StalePlacementsStayOut
<1>1. IInv /\ [Next]_vars =>
        [\A k \in DOMAIN courses' \ DOMAIN courses, p \in Placements :
           p \in UNION Range(courses'[k].deck) =>
             LET verdict == verified[placed[p].visual]
             IN  /\ verdict.status = "verified" /\ placed[p].evidence = verdict.revision
                 /\ clock <= verdict.at + VerificationTTL + MaxWait]_vars
  BY StepKeeps DEF Sound, ShownAreVerified
<1> QED
  BY <1>1, Invariance, PTL DEF Spec, StalePlacementsStayOut

\* A verdict on a visual gives way to a later one only, and one against it to what
\* the provider says of it again (network_visuals.py revalidate_network_visual).
THEOREM VerdictsGiveWayToLaterOnes == Spec => VerdictsAreKept
<1>1. IInv /\ [Next]_vars =>
        [\A v \in DOMAIN verified :
           /\ v \in DOMAIN verified'
           /\ verified'[v] # verified[v] => verified'[v].revision = verified[v].revision + 1
           /\ verified[v].status # "verified" /\ verified'[v].status = "verified"
                => provider[PageOf(v)] = v[2]]_visualVars
  BY StepKeeps DEF VerdictsStand
<1> QED
  BY <1>1, Invariance, PTL DEF Spec, VerdictsAreKept

-----------------------------------------------------------------------------
(* The cards of a list that are in a set *)

\* A run of Among: what is kept of the list up to each place.
Keeps(f, list, cards) ==
  /\ f[0] = <<>>
  /\ \A i \in 1 .. Len(list) :
       f[i] = IF list[i] \in cards THEN Append(f[i - 1], list[i]) ELSE f[i - 1]

LEMMA AmongRuns ==
  ASSUME NEW T, NEW list \in Seq(T), NEW cards
  PROVE  \E f \in [0 .. Len(list) -> Seq(T)] : Keeps(f, list, cards) /\ Among(list, cards) = f[Len(list)]
<1> DEFINE n == Len(list)
           V == Seq(T)
           Step == [x \in V \X (1 .. n) |-> IF list[x[2]] \in cards THEN Append(x[1], list[x[2]]) ELSE x[1]]
           Op(h, s) == IF list[Max(s)] \in cards THEN Append(h[s \ {Max(s)}], list[Max(s)]) ELSE h[s \ {Max(s)}]
           P(h) == h = [s \in SUBSET (1 .. n) |-> IF s = {} THEN <<>> ELSE Op(h, s)]
<1>1. Among(list, cards) = (CHOOSE h : P(h))[1 .. n]
  <2>1. DOMAIN list = 1 .. n
    OBVIOUS
  <2>2. Among(list, cards) = (CHOOSE h : h = [s \in SUBSET (DOMAIN list) |-> IF s = {} THEN <<>> ELSE Op(h, s)])[DOMAIN list]
    BY DEF Among, FoldLeft, MapThenFoldSet
  <2> HIDE DEF n
  <2> QED
    BY <2>1, <2>2
<1>2. n \in Nat /\ <<>> \in V
  OBVIOUS
<1>3. \A v \in V, i \in 1 .. n : /\ list[i] \in T
                                 /\ Step[<<v, i>>] = IF list[i] \in cards THEN Append(v, list[i]) ELSE v
  OBVIOUS
<1>4. Step \in [V \X (1 .. n) -> V]
  OBVIOUS
<1> HIDE DEF n, V, Step
<1>5. \A h, s : s \in SUBSET (1 .. n) /\ s # {} /\ h[s \ {Max(s)}] \in V
                => Op(h, s) = Step[<<h[s \ {Max(s)}], Max(s)>>]
  BY <1>2, <1>3, GreatestPlace
<1>6. PICK e \in [SUBSET (1 .. n) -> V] : IsFold(e, n, <<>>, Step)
  BY <1>2, <1>4, FoldExists
<1>7. P(e)
  <2>1. \A s \in SUBSET (1 .. n) : s # {} => e[s \ {Max(s)}] \in V
    BY <1>2, GreatestPlace
  <2>2. \A s \in SUBSET (1 .. n) : s # {} => Op(e, s) = Step[<<e[s \ {Max(s)}], Max(s)>>]
    BY <1>5, <2>1
  <2> HIDE DEF Op
  <2> QED
    BY <1>6, <2>2 DEF IsFold
<1>8. PICK h : P(h) /\ Among(list, cards) = h[1 .. n]
  <2> HIDE DEF P
  <2> QED
    BY <1>1, <1>7
<1>9. FoldsIn(h, n, V, <<>>, Step)
  <2>1. \A s \in SUBSET (1 .. n) : h[s] = IF s = {} THEN <<>> ELSE Op(h, s)
    <3> HIDE DEF Op
    <3> QED
      BY <1>8
  <2> HIDE DEF P, Op
  <2> QED
    BY <1>5, <2>1 DEF FoldsIn
<1>10. PICK f \in [0 .. n -> V] : Takes(f, n, <<>>, Step) /\ EndsAs(f, n, h)
  BY <1>2, <1>4, <1>9, FoldSteps
<1>11. \A i \in 1 .. n : f[i] = IF list[i] \in cards THEN Append(f[i - 1], list[i]) ELSE f[i - 1]
  <2> TAKE i \in 1 .. n
  <2>1. f[i - 1] \in V
    BY <1>2
  <2> QED
    BY <1>3, <1>10, <2>1 DEF Takes
<1>12. Keeps(f, list, cards)
  BY <1>10, <1>11 DEF Keeps, n, Takes
<1> QED
  BY <1>8, <1>10, <1>12 DEF n, V, EndsAs

LEMMA OneMore ==
  ASSUME NEW T, NEW s \in Seq(T), NEW e \in T
  PROVE  /\ Range(Append(s, e)) = Range(s) \cup {e}
         /\ IsInjective(s) /\ e \notin Range(s) => IsInjective(Append(s, e))
<1> DEFINE t == Append(s, e)
           n == Len(s)
<1>1. /\ n \in Nat /\ DOMAIN s = 1 .. n /\ DOMAIN t = 1 .. n + 1
      /\ t[n + 1] = e /\ \A i \in 1 .. n : t[i] = s[i]
  OBVIOUS
<1> HIDE DEF t, n
<1>2. Range(t) = Range(s) \cup {e}
  BY <1>1 DEF Range
<1>3. ASSUME IsInjective(s), e \notin Range(s), NEW i \in 1 .. n + 1, NEW j \in 1 .. n + 1, t[i] = t[j]
      PROVE  i = j
  <2>1. \A k \in 1 .. n : t[k] \in Range(s)
    BY <1>1 DEF Range
  <2>2. CASE i \in 1 .. n /\ j \in 1 .. n
    BY <1>1, <1>3, <2>2 DEF IsInjective
  <2>3. CASE i = n + 1 \/ j = n + 1
    BY <1>1, <1>3, <2>1, <2>3
  <2> QED
    BY <1>1, <2>2, <2>3
<1>4. IsInjective(s) /\ e \notin Range(s) => IsInjective(t)
  BY <1>1, <1>3 DEF IsInjective
<1> QED
  BY <1>2, <1>4 DEF t

\* What is kept is what the set has of the list, and each place of it once.
LEMMA AmongKeeps ==
  ASSUME NEW T, NEW list \in Seq(T), NEW cards
  PROVE  /\ Among(list, cards) \in Seq(T)
         /\ Range(Among(list, cards)) = Range(list) \cap cards
         /\ IsInjective(list) => IsInjective(Among(list, cards))
<1>1. PICK f \in [0 .. Len(list) -> Seq(T)] :
        Keeps(f, list, cards) /\ Among(list, cards) = f[Len(list)]
  BY AmongRuns
<1> DEFINE n == Len(list)
           Upto(i) == {list[j] : j \in 1 .. i}
           Fine(i) == /\ Range(f[i]) = Upto(i) \cap cards
                      /\ IsInjective(list) => IsInjective(f[i])
           S == {i \in Nat : i <= n => Fine(i)}
<1>2. n \in Nat /\ DOMAIN list = 1 .. n /\ \A i \in 1 .. n : list[i] \in T
  OBVIOUS
<1>3. 0 \in S
  <2>1. f[0] = <<>>
    BY <1>1 DEF Keeps
  <2>2. Upto(0) = {}
    OBVIOUS
  <2>3. Range(<<>>) = {} /\ IsInjective(<<>>)
    BY DEF Range, IsInjective
  <2> QED
    BY <2>1, <2>2, <2>3
<1>4. ASSUME NEW i \in Nat, i \in S PROVE i + 1 \in S
  <2> SUFFICES ASSUME i + 1 <= n PROVE Fine(i + 1)
    OBVIOUS
  <2>1. Fine(i) /\ i + 1 \in 1 .. n /\ i \in 0 .. n /\ i + 1 - 1 = i
    BY <1>2, <1>4
  <2>2. f[i + 1] = IF list[i + 1] \in cards THEN Append(f[i], list[i + 1]) ELSE f[i]
    BY <1>1, <2>1 DEF Keeps
  <2>3. f[i] \in Seq(T) /\ list[i + 1] \in T
    BY <1>2, <2>1
  <2>4. Upto(i + 1) = Upto(i) \cup {list[i + 1]}
    BY <2>1
  <2>5. IsInjective(list) => list[i + 1] \notin Upto(i)
    BY <1>2, <2>1 DEF IsInjective
  <2> HIDE DEF Upto, n
  <2>6. CASE list[i + 1] \in cards
    BY <2>1, <2>2, <2>3, <2>4, <2>5, <2>6, OneMore
  <2>7. CASE list[i + 1] \notin cards
    BY <2>1, <2>2, <2>4, <2>7
  <2> QED
    BY <2>6, <2>7
<1> HIDE DEF S
<1>5. n \in S
  BY <1>2, <1>3, <1>4, EveryNumber
<1>6. Fine(n)
  BY <1>2, <1>5 DEF S
<1>7. Upto(n) = Range(list)
  BY <1>2 DEF Range
<1> HIDE DEF Upto
<1> QED
  BY <1>1, <1>2, <1>6, <1>7

\* What is kept is in the order of the list.
LEMMA AmongInOrder ==
  ASSUME NEW T, NEW list \in Seq(T), NEW cards, IsInjective(list),
         NEW x \in DOMAIN list, NEW y \in 1 .. x - 1, list[y] \in cards,
         NEW m \in DOMAIN Among(list, cards), Among(list, cards)[m] = list[x]
  PROVE  \E l \in 1 .. m - 1 : Among(list, cards)[l] = list[y]
<1>1. PICK f \in [0 .. Len(list) -> Seq(T)] :
        Keeps(f, list, cards) /\ Among(list, cards) = f[Len(list)]
  BY AmongRuns
<1> DEFINE n == Len(list)
           Upto(i) == {list[j] : j \in 1 .. i}
           Ordered(t) == \A k \in 1 .. Len(t) : t[k] = list[x] => \E l \in 1 .. k - 1 : t[l] = list[y]
           Fine(i) == Range(f[i]) = Upto(i) \cap cards /\ Ordered(f[i])
           S == {i \in Nat : i <= n => Fine(i)}
<1>2. /\ n \in Nat /\ DOMAIN list = 1 .. n /\ \A i \in 1 .. n : list[i] \in T
      /\ x \in 1 .. n /\ y \in 1 .. n /\ y < x
  OBVIOUS
<1>3. 0 \in S
  <2>1. f[0] = <<>>
    BY <1>1 DEF Keeps
  <2>2. Upto(0) = {}
    OBVIOUS
  <2>3. Range(<<>>) = {} /\ Ordered(<<>>)
    BY DEF Range
  <2> QED
    BY <2>1, <2>2, <2>3
<1>4. ASSUME NEW i \in Nat, i \in S PROVE i + 1 \in S
  <2> SUFFICES ASSUME i + 1 <= n PROVE Fine(i + 1)
    <3> HIDE DEF Fine, n
    <3> QED
      OBVIOUS
  <2> DEFINE j == i + 1
  <2>1. Fine(i) /\ j \in 1 .. n /\ i \in 0 .. n /\ j - 1 = i
    <3> HIDE DEF Fine, n
    <3> QED
      BY <1>2, <1>4
  <2>2. f[j] = IF list[j] \in cards THEN Append(f[i], list[j]) ELSE f[i]
    BY <1>1, <2>1 DEF Keeps
  <2>3. f[i] \in Seq(T) /\ list[j] \in T
    BY <1>2, <2>1
  <2>4. Upto(j) = Upto(i) \cup {list[j]}
    BY <2>1
  <2>5. list[j] = list[x] => list[y] \in Upto(i)
    <3> SUFFICES ASSUME list[j] = list[x] PROVE list[y] \in Upto(i)
      OBVIOUS
    <3>1. j = x
      BY <1>2, <2>1 DEF IsInjective
    <3>2. y \in 1 .. i
      BY <1>2, <3>1
    <3> QED
      BY <3>2
  <2> DEFINE t == f[i]
             e == list[j]
  <2>6. ASSUME e \in cards PROVE Ordered(Append(t, e))
    <3> SUFFICES ASSUME NEW k \in 1 .. Len(Append(t, e)), Append(t, e)[k] = list[x]
                 PROVE  \E l \in 1 .. k - 1 : Append(t, e)[l] = list[y]
      OBVIOUS
    <3>1. /\ Len(t) \in Nat /\ DOMAIN t = 1 .. Len(t) /\ Len(Append(t, e)) = Len(t) + 1
          /\ Append(t, e)[Len(t) + 1] = e /\ \A l \in 1 .. Len(t) : Append(t, e)[l] = t[l]
      BY <2>3
    <3>2. CASE k \in 1 .. Len(t)
      <4>1. t[k] = list[x]
        BY <3>1, <3>2
      <4>2. PICK l \in 1 .. k - 1 : t[l] = list[y]
        BY <2>1, <3>2, <4>1
      <4>3. l \in 1 .. Len(t)
        BY <3>1, <3>2
      <4> QED
        BY <3>1, <4>2, <4>3
    <3>3. CASE k = Len(t) + 1
      <4>1. list[y] \in Upto(i) \cap cards
        BY <2>5, <3>1, <3>3
      <4>2. list[y] \in Range(t)
        BY <2>1, <4>1
      <4>3. PICK l \in DOMAIN t : t[l] = list[y]
        BY <4>2 DEF Range
      <4>4. l \in 1 .. k - 1 /\ Append(t, e)[l] = list[y]
        BY <3>1, <3>3, <4>3
      <4> QED
        BY <4>4
    <3> QED
      BY <3>1, <3>2, <3>3
  <2>7. Range(Append(t, e)) = Range(t) \cup {e}
    BY <2>3, OneMore
  <2> HIDE DEF Upto, n, Ordered, t, e, j
  <2>8. CASE list[j] \in cards
    BY <2>1, <2>2, <2>4, <2>6, <2>7, <2>8 DEF t, e, j
  <2>9. CASE list[j] \notin cards
    BY <2>1, <2>2, <2>4, <2>9 DEF j
  <2> QED
    BY <2>8, <2>9 DEF j
<1> HIDE DEF S
<1>5. n \in S
  BY <1>2, <1>3, <1>4, EveryNumber
<1>6. Ordered(f[n])
  BY <1>2, <1>5 DEF S
<1>7. m \in 1 .. Len(f[n]) /\ f[n][m] = list[x]
  BY <1>1, <1>2
<1> QED
  BY <1>1, <1>6, <1>7

-----------------------------------------------------------------------------
(* Taking a card with those it presupposes *)

Outcomes == [what : {"taken", "cycle", "missing"}, selected : Seq(Cards)]

\* The calls a call makes have an outcome.
Answers(take, call) ==
  \A p \in Cards, s \in Seq(Cards) : take[Call(p, call.visiting \cup {call.card}, s)] \in Outcomes

\* A run of TakingAll: the outcome after each of the cards presupposed.
TakesInTurn(f, take, call, selected) ==
  LET before == PrerequisitesOf[call.card]
  IN  /\ f[0] = Outcome("taken", selected)
      /\ \A i \in 1 .. Len(before) :
           f[i] = IF f[i - 1].what # "taken" THEN f[i - 1]
                  ELSE take[Call(before[i], call.visiting \cup {call.card}, f[i - 1].selected)]

LEMMA TakingAllRuns ==
  ASSUME NEW take, NEW call \in Calls, NEW selected \in Seq(Cards), Answers(take, call)
  PROVE  \E f \in [0 .. Len(PrerequisitesOf[call.card]) -> Outcomes] :
           /\ TakesInTurn(f, take, call, selected)
           /\ TakingAll(take, call, selected) = f[Len(PrerequisitesOf[call.card])]
<1> DEFINE list == PrerequisitesOf[call.card]
           n == Len(list)
           V == Outcomes
           with == call.visiting \cup {call.card}
           b == Outcome("taken", selected)
           Step == [x \in V \X (1 .. n) |-> IF x[1].what # "taken" THEN x[1]
                                            ELSE take[Call(list[x[2]], with, x[1].selected)]]
           Op(h, s) == IF h[s \ {Max(s)}].what # "taken" THEN h[s \ {Max(s)}]
                       ELSE take[Call(list[Max(s)], with, h[s \ {Max(s)}].selected)]
           P(h) == h = [s \in SUBSET (1 .. n) |-> IF s = {} THEN b ELSE Op(h, s)]
<1>0. list \in Seq(Cards) /\ DOMAIN list = 1 .. n
  BY OutlineAssumption DEF Calls
<1>1. TakingAll(take, call, selected) = (CHOOSE h : P(h))[1 .. n]
  <2>1. TakingAll(take, call, selected)
          = (CHOOSE h : h = [s \in SUBSET (DOMAIN list) |-> IF s = {} THEN b ELSE Op(h, s)])[DOMAIN list]
    BY DEF TakingAll, FoldLeft, MapThenFoldSet
  <2> HIDE DEF n, list
  <2> QED
    BY <1>0, <2>1
<1>2. n \in Nat /\ b \in V
  BY <1>0 DEF Outcomes, Outcome
<1> HIDE DEF list
<1>3. \A v \in V, i \in 1 .. n : /\ list[i] \in Cards /\ v.selected \in Seq(Cards)
                                 /\ Step[<<v, i>>] = IF v.what # "taken" THEN v
                                                     ELSE take[Call(list[i], with, v.selected)]
  BY <1>0 DEF Outcomes
<1>4. Step \in [V \X (1 .. n) -> V]
  <2>1. \A v \in V, i \in 1 .. n : take[Call(list[i], with, v.selected)] \in V
    BY <1>3 DEF Answers
  <2> HIDE DEF V, n, with
  <2> QED
    BY <2>1
<1> HIDE DEF n, V, Step, b, with
<1>5. \A h, s : s \in SUBSET (1 .. n) /\ s # {} /\ h[s \ {Max(s)}] \in V
                => Op(h, s) = Step[<<h[s \ {Max(s)}], Max(s)>>]
  BY <1>2, <1>3, GreatestPlace
<1>6. PICK e \in [SUBSET (1 .. n) -> V] : IsFold(e, n, b, Step)
  BY <1>2, <1>4, FoldExists
<1>7. P(e)
  <2>1. \A s \in SUBSET (1 .. n) : s # {} => e[s \ {Max(s)}] \in V
    BY <1>2, GreatestPlace
  <2>2. \A s \in SUBSET (1 .. n) : s # {} => Op(e, s) = Step[<<e[s \ {Max(s)}], Max(s)>>]
    BY <1>5, <2>1
  <2> HIDE DEF Op
  <2> QED
    BY <1>6, <2>2 DEF IsFold
<1>8. PICK h : P(h) /\ TakingAll(take, call, selected) = h[1 .. n]
  <2> HIDE DEF P
  <2> QED
    BY <1>1, <1>7
<1>9. FoldsIn(h, n, V, b, Step)
  <2>1. \A s \in SUBSET (1 .. n) : h[s] = IF s = {} THEN b ELSE Op(h, s)
    <3> HIDE DEF Op
    <3> QED
      BY <1>8
  <2> HIDE DEF P, Op
  <2> QED
    BY <1>5, <2>1 DEF FoldsIn
<1>10. PICK f \in [0 .. n -> V] : Takes(f, n, b, Step) /\ EndsAs(f, n, h)
  BY <1>2, <1>4, <1>9, FoldSteps
<1>11. \A i \in 1 .. n : f[i] = IF f[i - 1].what # "taken" THEN f[i - 1]
                                ELSE take[Call(list[i], with, f[i - 1].selected)]
  <2> TAKE i \in 1 .. n
  <2>1. f[i - 1] \in V
    BY <1>2
  <2> QED
    BY <1>3, <1>10, <2>1 DEF Takes
<1>12. TakesInTurn(f, take, call, selected)
  BY <1>10, <1>11 DEF TakesInTurn, n, Takes, list, with, b
<1> QED
  BY <1>8, <1>10, <1>12 DEF n, V, EndsAs, list

\* What a call makes of those it makes.
Taken(take, available, call) ==
  IF call.card \in Range(call.selected) THEN Outcome("taken", call.selected)
  ELSE IF call.card \in call.visiting THEN Outcome("cycle", call.selected)
  ELSE IF call.card \notin available THEN Outcome("missing", call.selected)
  ELSE LET before == TakingAll(take, call, call.selected)
       IN  IF before.what # "taken" THEN before
           ELSE IF Len(before.selected) >= Slots THEN Outcome("missing", before.selected)
           ELSE Outcome("taken", Append(before.selected, call.card))

\* The calls a call makes come before it: they are for the sake of more cards.
Deeper == {x \in Calls \X Calls : x[2].visiting \subseteq x[1].visiting /\ x[1].visiting # x[2].visiting}

LEMMA CallsAreWellFounded == IsWellFoundedOn(Deeper, Calls) /\ IsTransitive(Deeper, Calls)
<1> DEFINE R == StrictSubsetOrdering(Cards)
           F == FiniteSubsetsOf(Cards)
<1>1. IsWellFoundedOn(R, F)
  BY FS_StrictSubsetOrderingWellFounded
<1>2. ASSUME NEW T \in SUBSET Calls, T # {}
      PROVE  \E x \in T : \A y \in T : ~ (<<y, x>> \in Deeper)
  <2> DEFINE Rest == {Cards \ x.visiting : x \in T}
  <2>1. Rest \subseteq F /\ Rest # {}
    <3>1. \A x \in T : Cards \ x.visiting \in SUBSET Cards
      OBVIOUS
    <3>2. \A x \in T : IsFiniteSet(Cards \ x.visiting)
      BY <3>1, OutlineAssumption, FS_Subset
    <3> QED
      BY <1>2, <3>1, <3>2 DEF FiniteSubsetsOf
  <2>2. \E x \in Rest : \A y \in Rest : ~ (<<y, x>> \in R)
    <3> HIDE DEF Rest, R, F
    <3> QED
      BY <1>1, <2>1, WFMin, SMT
  <2>3. PICK x \in T : \A y \in T : ~ (<<Cards \ y.visiting, Cards \ x.visiting>> \in R)
    BY <2>2
  <2>4. ASSUME NEW y \in T, <<y, x>> \in Deeper PROVE FALSE
    <3>1. x.visiting \subseteq y.visiting /\ y.visiting # x.visiting
      BY <2>4 DEF Deeper
    <3>2. x.visiting \subseteq Cards /\ y.visiting \subseteq Cards
      BY DEF Calls
    <3>3. <<Cards \ y.visiting, Cards \ x.visiting>> \in R
      BY <3>1, <3>2 DEF StrictSubsetOrdering
    <3> QED
      BY <2>3, <3>3
  <2> QED
    BY <2>4
<1>3. IsWellFoundedOn(Deeper, Calls)
  BY <1>2, MinWF
<1>4. IsTransitive(Deeper, Calls)
  BY DEF Deeper, IsTransitive
<1> QED
  BY <1>3, <1>4

\* A card that nobody asked about yet: the calls for those it presupposes are deeper.
LEMMA CallsGoDeeper ==
  ASSUME NEW call \in Calls, call.card \notin call.visiting, NEW p \in Cards, NEW s \in Seq(Cards)
  PROVE  LET next == Call(p, call.visiting \cup {call.card}, s)
         IN  next \in Calls /\ <<next, call>> \in Deeper /\ next.card = p /\ next.selected = s
<1> DEFINE next == Call(p, call.visiting \cup {call.card}, s)
<1>1. call.card \in Cards /\ call.visiting \in SUBSET Cards
  BY DEF Calls
<1>2. next = [card |-> p, visiting |-> call.visiting \cup {call.card}, selected |-> s]
  BY DEF Call
<1>3. next \in Calls
  <2>1. call.visiting \cup {call.card} \in SUBSET Cards
    BY <1>1
  <2> HIDE DEF next
  <2> QED
    BY <1>2, <2>1 DEF Calls
<1>4. next.visiting = call.visiting \cup {call.card} /\ next.card = p /\ next.selected = s
  BY <1>2
<1> HIDE DEF next
<1>5. <<next, call>> \in Deeper
  BY <1>3, <1>4 DEF Deeper
<1> QED
  BY <1>3, <1>4, <1>5 DEF next

\* Two ways to take cards that agree on deeper calls make the same of a call.
LEMMA TakingAllLooksDeeper ==
  ASSUME NEW f, NEW g, NEW call \in Calls, call.card \notin call.visiting,
         Answers(f, call), Answers(g, call),
         \A x \in Calls : <<x, call>> \in Deeper => f[x] = g[x]
  PROVE  TakingAll(f, call, call.selected) = TakingAll(g, call, call.selected)
<1> DEFINE list == PrerequisitesOf[call.card]
           n == Len(list)
           with == call.visiting \cup {call.card}
<1>0. list \in Seq(Cards) /\ n \in Nat /\ \A i \in 1 .. n : list[i] \in Cards
  BY OutlineAssumption DEF Calls
<1>1. call.selected \in Seq(Cards)
  BY DEF Calls
<1>2. PICK u \in [0 .. n -> Outcomes] :
        TakesInTurn(u, f, call, call.selected) /\ TakingAll(f, call, call.selected) = u[n]
  <2> DEFINE s == call.selected
  <2>1. s \in Seq(Cards)
    BY <1>1
  <2> HIDE DEF s
  <2>2. \E h \in [0 .. Len(PrerequisitesOf[call.card]) -> Outcomes] :
          /\ TakesInTurn(h, f, call, s)
          /\ TakingAll(f, call, s) = h[Len(PrerequisitesOf[call.card])]
    BY <2>1, TakingAllRuns
  <2> QED
    BY <2>2 DEF s
<1>3. PICK v \in [0 .. n -> Outcomes] :
        TakesInTurn(v, g, call, call.selected) /\ TakingAll(g, call, call.selected) = v[n]
  <2> DEFINE s == call.selected
  <2>1. s \in Seq(Cards)
    BY <1>1
  <2> HIDE DEF s
  <2>2. \E h \in [0 .. Len(PrerequisitesOf[call.card]) -> Outcomes] :
          /\ TakesInTurn(h, g, call, s)
          /\ TakingAll(g, call, s) = h[Len(PrerequisitesOf[call.card])]
    BY <2>1, TakingAllRuns
  <2> QED
    BY <2>2 DEF s
<1> DEFINE S == {i \in Nat : i <= n => u[i] = v[i]}
<1>4. 0 \in S
  BY <1>2, <1>3 DEF TakesInTurn
<1>5. ASSUME NEW i \in Nat, i \in S PROVE i + 1 \in S
  <2> SUFFICES ASSUME i + 1 <= n PROVE u[i + 1] = v[i + 1]
    OBVIOUS
  <2>1. i + 1 \in 1 .. n /\ i \in 0 .. n /\ i + 1 - 1 = i /\ u[i] = v[i]
    BY <1>0, <1>5
  <2>2. u[i] \in Outcomes /\ u[i].selected \in Seq(Cards) /\ list[i + 1] \in Cards
    BY <1>0, <2>1 DEF Outcomes
  <2>3. f[Call(list[i + 1], with, u[i].selected)] = g[Call(list[i + 1], with, u[i].selected)]
    <3> DEFINE next == Call(list[i + 1], with, u[i].selected)
    <3>1. next \in Calls /\ <<next, call>> \in Deeper
      BY <2>2, CallsGoDeeper
    <3> HIDE DEF next
    <3>2. f[next] = g[next]
      BY <3>1
    <3> QED
      BY <3>2 DEF next
  <2>4. u[i + 1] = IF u[i].what # "taken" THEN u[i] ELSE f[Call(list[i + 1], with, u[i].selected)]
    <3>1. \A j \in 1 .. n : u[j] = IF u[j - 1].what # "taken" THEN u[j - 1]
                                   ELSE f[Call(list[j], with, u[j - 1].selected)]
      BY <1>2 DEF TakesInTurn
    <3> HIDE DEF n, list, with
    <3> QED
      BY <2>1, <3>1
  <2>5. v[i + 1] = IF v[i].what # "taken" THEN v[i] ELSE g[Call(list[i + 1], with, v[i].selected)]
    <3>1. \A j \in 1 .. n : v[j] = IF v[j - 1].what # "taken" THEN v[j - 1]
                                   ELSE g[Call(list[j], with, v[j - 1].selected)]
      BY <1>3 DEF TakesInTurn
    <3> HIDE DEF n, list, with
    <3> QED
      BY <2>1, <3>1
  <2> QED
    BY <2>1, <2>3, <2>4, <2>5
<1> HIDE DEF S
<1>6. n \in S
  BY <1>0, <1>4, <1>5, EveryNumber
<1> QED
  BY <1>0, <1>2, <1>3, <1>6 DEF S

LEMMA TakenIsOutcome ==
  ASSUME NEW take, NEW available, NEW call \in Calls,
         call.card \notin call.visiting => Answers(take, call)
  PROVE  Taken(take, available, call) \in Outcomes
<1> DEFINE before == TakingAll(take, call, call.selected)
           list == PrerequisitesOf[call.card]
<1>1. call.card \in Cards /\ call.selected \in Seq(Cards)
  BY DEF Calls
<1>2. \A w \in {"taken", "cycle", "missing"}, s \in Seq(Cards) : Outcome(w, s) \in Outcomes
  BY DEF Outcome, Outcomes
<1>3. call.card \notin call.visiting => before \in Outcomes
  <2> SUFFICES ASSUME call.card \notin call.visiting PROVE before \in Outcomes
    OBVIOUS
  <2>1. Len(list) \in Nat
    BY <1>1, OutlineAssumption
  <2>2. PICK f \in [0 .. Len(list) -> Outcomes] : before = f[Len(list)]
    BY <1>1, TakingAllRuns
  <2> HIDE DEF before, list
  <2> QED
    BY <2>1, <2>2
<1>4. before \in Outcomes => before.selected \in Seq(Cards) /\ Append(before.selected, call.card) \in Seq(Cards)
  BY <1>1 DEF Outcomes
<1> HIDE DEF before
<1> QED
  BY <1>1, <1>2, <1>3, <1>4, Zenon DEF Taken, before

LEMMA TakingEquation ==
  ASSUME NEW available
  PROVE  Taking(available) = [call \in Calls |-> Taken(Taking(available), available, call)]
<1> DEFINE Made(f) == [call \in Calls |-> Taken(f, available, call)]
           P(f) == f = Made(f)
           D == Calls
           V == Outcomes
           G == [f \in [D -> V] |-> Made(f)]
<1>1. Taking(available) = CHOOSE f : P(f)
  BY DEF Taking, Taken
<1>2. IsWellFoundedOn(Deeper, D) /\ IsTransitive(Deeper, D)
  BY CallsAreWellFounded
<1>3. V # {}
  <2>1. <<>> \in Seq(Cards)
    OBVIOUS
  <2>2. [what |-> "taken", selected |-> <<>>] \in V
    BY <2>1 DEF Outcomes
  <2> QED
    BY <2>2
<1>4. \A f \in [D -> V], call \in Calls : call.card \notin call.visiting => Answers(f, call)
  <2> SUFFICES ASSUME NEW f \in [D -> V], NEW call \in Calls, call.card \notin call.visiting,
                      NEW p \in Cards, NEW s \in Seq(Cards)
               PROVE  f[Call(p, call.visiting \cup {call.card}, s)] \in Outcomes
    BY DEF Answers
  <2>1. Call(p, call.visiting \cup {call.card}, s) \in Calls
    BY CallsGoDeeper
  <2> QED
    BY <2>1
<1>5. G \in [[D -> V] -> [D -> V]]
  <2>1. \A f \in [D -> V], call \in Calls : Taken(f, available, call) \in V
    BY <1>4, TakenIsOutcome
  <2>2. \A f \in [D -> V] : Made(f) \in [D -> V]
    BY <2>1
  <2> HIDE DEF Made, D, V
  <2> QED
    BY <2>2
<1>6. \A f \in [D -> V], x \in D : G[f][x] = Taken(f, available, x)
  OBVIOUS
<1>7. ASSUME NEW f \in [D -> V], NEW g \in [D -> V], NEW x \in D,
             \A y \in D : <<y, x>> \in Deeper => f[y] = g[y]
      PROVE  G[f][x] = G[g][x]
  <2>1. x.card \notin x.visiting => TakingAll(f, x, x.selected) = TakingAll(g, x, x.selected)
    BY <1>4, <1>7, TakingAllLooksDeeper
  <2>2. Taken(f, available, x) = Taken(g, available, x)
    BY <2>1, Zenon DEF Taken
  <2> QED
    BY <1>6, <2>2
<1>8. LooksBack(G, D, Deeper, V)
  BY <1>5, <1>7 DEF LooksBack
<1> HIDE DEF G, D, V
<1>9. Fixpoints(G, D, V) # {}
  BY <1>2, <1>3, <1>8, RecursionExists
<1>10. PICK f \in [D -> V] : f = G[f]
  BY <1>9 DEF Fixpoints
<1>11. P(f)
  BY <1>10 DEF G
<1> HIDE DEF P
<1>12. P(Taking(available))
  BY <1>1, <1>11
<1> QED
  BY <1>12 DEF P

\* A selection is in order: each card is there once, after those it presupposes, and
\* there is time for all.
PrerequisitesFirst(s) ==
  \A i \in 1 .. Len(s) : Range(PrerequisitesOf[s[i]]) \subseteq {s[h] : h \in 1 .. i - 1}

InOrder(s) == s \in Seq(Cards) /\ IsInjective(s) /\ Len(s) <= Slots /\ PrerequisitesFirst(s)

LEMMA OneMoreInOrder ==
  ASSUME NEW s, InOrder(s), NEW c \in Cards, c \notin Range(s), Len(s) < Slots,
         Range(PrerequisitesOf[c]) \subseteq Range(s)
  PROVE  InOrder(Append(s, c)) /\ Range(Append(s, c)) = Range(s) \cup {c}
<1> DEFINE t == Append(s, c)
           n == Len(s)
<1>1. s \in Seq(Cards)
  BY DEF InOrder
<1>2. t \in Seq(Cards) /\ Len(t) = n + 1 /\ n \in Nat /\ t[n + 1] = c /\ \A i \in 1 .. n : t[i] = s[i]
  BY <1>1
<1>3. IsInjective(t) /\ Range(t) = Range(s) \cup {c}
  BY <1>1, OneMore DEF InOrder
<1>4. Len(t) <= Slots
  BY <1>2, OutlineAssumption
<1>5. Range(s) = {s[h] : h \in 1 .. n}
  BY <1>1 DEF Range
<1>6. ASSUME NEW i \in 1 .. n + 1
      PROVE  Range(PrerequisitesOf[t[i]]) \subseteq {t[h] : h \in 1 .. i - 1}
  <2>1. {s[h] : h \in 1 .. i - 1} \subseteq {t[h] : h \in 1 .. i - 1}
    BY <1>2
  <2>2. CASE i \in 1 .. n
    <3>1. Range(PrerequisitesOf[s[i]]) \subseteq {s[h] : h \in 1 .. i - 1}
      BY <2>2 DEF InOrder, PrerequisitesFirst
    <3>2. t[i] = s[i]
      BY <1>2, <2>2
    <3> HIDE DEF t, n
    <3> QED
      BY <2>1, <3>1, <3>2
  <2>3. CASE i = n + 1
    <3>1. i - 1 = n /\ t[i] = c
      BY <1>2, <2>3
    <3> HIDE DEF t, n
    <3> QED
      BY <1>5, <2>1, <3>1, Zenon
  <2>4. i \in 1 .. n \/ i = n + 1
    BY <1>2
  <2> QED
    BY <2>2, <2>3, <2>4
<1> HIDE DEF t, n
<1>7. PrerequisitesFirst(t)
  BY <1>2, <1>6 DEF PrerequisitesFirst
<1> QED
  BY <1>2, <1>3, <1>4, <1>7 DEF InOrder, t

\* What a call does to a selection in order.  It selects no card it is made for: that
\* would be a cycle.
Serves(r, call) ==
  /\ r \in Outcomes
  /\ InOrder(call.selected)
       => /\ InOrder(r.selected) /\ Range(call.selected) \subseteq Range(r.selected)
          /\ Range(r.selected) \cap call.visiting \subseteq Range(call.selected)
          /\ r.what = "taken" => call.card \in Range(r.selected)

\* TakingAll leaves a selection in order, with all cards presupposed if it could.
LEMMA TakingAllServes ==
  ASSUME NEW take, NEW call \in Calls, call.card \notin call.visiting,
         \A x \in Calls : <<x, call>> \in Deeper => Serves(take[x], x)
  PROVE  /\ Answers(take, call)
         /\ LET r == TakingAll(take, call, call.selected)
            IN  InOrder(call.selected)
                  => /\ InOrder(r.selected) /\ Range(call.selected) \subseteq Range(r.selected)
                     /\ Range(r.selected) \cap (call.visiting \cup {call.card}) \subseteq Range(call.selected)
                     /\ r.what = "taken" => Range(PrerequisitesOf[call.card]) \subseteq Range(r.selected)
<1> DEFINE list == PrerequisitesOf[call.card]
           n == Len(list)
           with == call.visiting \cup {call.card}
           s0 == call.selected
<1>0. list \in Seq(Cards) /\ n \in Nat /\ DOMAIN list = 1 .. n /\ \A i \in 1 .. n : list[i] \in Cards
  BY OutlineAssumption DEF Calls
<1>1. s0 \in Seq(Cards)
  BY DEF Calls
<1>2. ASSUME NEW p \in Cards, NEW s \in Seq(Cards) PROVE Serves(take[Call(p, with, s)], Call(p, with, s))
  <2> DEFINE next == Call(p, with, s)
  <2>1. next \in Calls /\ <<next, call>> \in Deeper 
    BY CallsGoDeeper
  <2> HIDE DEF next
  <2>2. Serves(take[next], next)
    BY <2>1
  <2> QED
    BY <2>2 DEF next
<1>3. Answers(take, call)
  BY <1>2 DEF Answers, Serves
<1>4. PICK f \in [0 .. n -> Outcomes] :
        TakesInTurn(f, take, call, s0) /\ TakingAll(take, call, s0) = f[n]
  BY <1>1, <1>3, TakingAllRuns
<1> DEFINE Fine(i) == /\ InOrder(f[i].selected) /\ Range(s0) \subseteq Range(f[i].selected)
                      /\ Range(f[i].selected) \cap with \subseteq Range(s0)
                      /\ f[i].what = "taken" => \A j \in 1 .. i : list[j] \in Range(f[i].selected)
           S == {i \in Nat : i <= n => Fine(i)}
<1> SUFFICES ASSUME InOrder(s0) PROVE Fine(n)
  <2>1. Range(list) = {list[j] : j \in 1 .. n}
    BY <1>0 DEF Range
  <2> HIDE DEF list, n, s0, with
  <2> QED
    BY <1>3, <1>4, <2>1 DEF list, s0, with
<1>5. 0 \in S
  <2>1. f[0] = Outcome("taken", s0)
    BY <1>4 DEF TakesInTurn
  <2>2. f[0].selected = s0
    BY <2>1 DEF Outcome
  <2> QED
    BY <2>2
<1>6. ASSUME NEW i \in Nat, i \in S PROVE i + 1 \in S
  <2> SUFFICES ASSUME i + 1 <= n PROVE Fine(i + 1)
    OBVIOUS
  <2>1. i + 1 \in 1 .. n /\ i \in 0 .. n /\ i + 1 - 1 = i /\ Fine(i)
    BY <1>0, <1>6
  <2>2. f[i] \in Outcomes /\ f[i].selected \in Seq(Cards) /\ list[i + 1] \in Cards
    BY <1>0, <2>1 DEF Outcomes
  <2>3. f[i + 1] = IF f[i].what # "taken" THEN f[i] ELSE take[Call(list[i + 1], with, f[i].selected)]
    <3>1. \A j \in 1 .. n : f[j] = IF f[j - 1].what # "taken" THEN f[j - 1]
                                   ELSE take[Call(list[j], with, f[j - 1].selected)]
      BY <1>4 DEF TakesInTurn
    <3> HIDE DEF n, list, with
    <3> QED
      BY <2>1, <3>1
  <2>4. CASE f[i].what # "taken"
    <3>1. f[i + 1] = f[i]
      BY <2>3, <2>4
    <3> HIDE DEF list, n, s0
    <3> QED
      BY <2>1, <2>4, <3>1
  <2>5. CASE f[i].what = "taken"
    <3>1. f[i + 1] = take[Call(list[i + 1], with, f[i].selected)]
      BY <2>3, <2>5
    <3> DEFINE next == Call(list[i + 1], with, f[i].selected)
    <3>2. /\ Serves(f[i + 1], next)
          /\ next.card = list[i + 1] /\ next.visiting = with /\ next.selected = f[i].selected
      BY <1>2, <2>2, <3>1 DEF Call
    <3> HIDE DEF next, with
    <3>3. /\ InOrder(f[i + 1].selected) /\ Range(f[i].selected) \subseteq Range(f[i + 1].selected)
          /\ Range(f[i + 1].selected) \cap with \subseteq Range(f[i].selected)
          /\ f[i + 1].what = "taken" => list[i + 1] \in Range(f[i + 1].selected)
      BY <2>1, <3>2 DEF Serves
    <3>4. 1 .. i + 1 = (1 .. i) \cup {i + 1}
      BY <2>1
    <3> HIDE DEF list, n, s0
    <3> QED
      BY <2>1, <2>5, <3>3, <3>4
  <2> QED
    BY <2>4, <2>5
<1> HIDE DEF S
<1>7. n \in S
  BY <1>0, <1>5, <1>6, EveryNumber
<1> QED
  BY <1>0, <1>7 DEF S

\* What Taking makes of a selection in order is one, with the card if it could be had.
LEMMA TakingServes ==
  ASSUME NEW available
  PROVE  \A call \in Calls : Serves(Taking(available)[call], call)
<1> DEFINE take == Taking(available)
           Bad == {call \in Calls : ~Serves(take[call], call)}
<1> SUFFICES ASSUME Bad # {} PROVE FALSE
  OBVIOUS
<1>1. IsWellFoundedOn(Deeper, Calls) /\ Bad \subseteq Calls
  BY CallsAreWellFounded
<1>2. PICK call \in Bad : \A x \in Bad : ~ (<<x, call>> \in Deeper)
  <2> HIDE DEF Bad
  <2> QED
    BY <1>1, WFMin, SMT
<1>3. call \in Calls /\ ~Serves(take[call], call)
  OBVIOUS
<1>4. \A x \in Calls : <<x, call>> \in Deeper => Serves(take[x], x)
  BY <1>2
<1>5. take[call] = Taken(take, available, call)
  BY <1>3, TakingEquation
<1> HIDE DEF Bad, take
<1> DEFINE before == TakingAll(take, call, call.selected)
           c == call.card
           s == call.selected
<1>6. c \in Cards /\ s \in Seq(Cards)
  BY <1>3 DEF Calls
<1>7. take[call] \in Outcomes
  BY <1>3, <1>4, <1>5, TakingAllServes, TakenIsOutcome
<1>8. \A w : Outcome(w, s).what = w /\ Outcome(w, s).selected = s
  BY DEF Outcome
<1>9. ASSUME InOrder(s)
      PROVE  /\ InOrder(take[call].selected) /\ Range(s) \subseteq Range(take[call].selected)
             /\ Range(take[call].selected) \cap call.visiting \subseteq Range(s)
             /\ take[call].what = "taken" => c \in Range(take[call].selected)
  <2>1. CASE c \in Range(s)
    <3>1. take[call] = Outcome("taken", s)
      BY <1>5, <2>1 DEF Taken
    <3> QED
      BY <1>8, <1>9, <2>1, <3>1
  <2>2. CASE c \notin Range(s) /\ (c \in call.visiting \/ c \notin available)
    <3>1. take[call] = Outcome("cycle", s) \/ take[call] = Outcome("missing", s)
      BY <1>5, <2>2 DEF Taken
    <3> QED
      BY <1>8, <1>9, <3>1
  <2>3. CASE c \notin Range(s) /\ c \notin call.visiting /\ c \in available
    <3>1. /\ InOrder(before.selected) /\ Range(s) \subseteq Range(before.selected)
          /\ Range(before.selected) \cap (call.visiting \cup {c}) \subseteq Range(s)
          /\ before.what = "taken" => Range(PrerequisitesOf[c]) \subseteq Range(before.selected)
      BY <1>3, <1>4, <1>9, <2>3, TakingAllServes
    <3>2. take[call] = IF before.what # "taken" THEN before
                       ELSE IF Len(before.selected) >= Slots THEN Outcome("missing", before.selected)
                       ELSE Outcome("taken", Append(before.selected, c))
      BY <1>5, <2>3 DEF Taken
    <3> HIDE DEF before, c, s
    <3>3. CASE before.what # "taken"
      BY <3>1, <3>2, <3>3
    <3>4. CASE before.what = "taken" /\ Len(before.selected) >= Slots
      BY <3>1, <3>2, <3>4 DEF Outcome
    <3>5. CASE before.what = "taken" /\ ~(Len(before.selected) >= Slots)
      <4>1. take[call].selected = Append(before.selected, c)
        BY <3>2, <3>5 DEF Outcome
      <4>2. before.selected \in Seq(Cards) /\ Len(before.selected) \in Nat
        BY <3>1 DEF InOrder
      <4>3. Len(before.selected) < Slots
        BY <3>5, <4>2, OutlineAssumption
      <4>4. c \notin Range(before.selected)
        BY <2>3, <3>1 DEF c, s
      <4>5. /\ InOrder(take[call].selected)
            /\ Range(take[call].selected) = Range(before.selected) \cup {c}
        BY <1>6, <3>1, <3>5, <4>1, <4>3, <4>4, OneMoreInOrder
      <4> QED
        BY <2>3, <3>1, <4>5 DEF c, s
    <3> QED
      BY <3>3, <3>4, <3>5
  <2> QED
    BY <2>1, <2>2, <2>3
<1> QED
  BY <1>3, <1>7, <1>9 DEF Serves

-----------------------------------------------------------------------------
(* The selection for all goals *)

Selections == [what : {"taken", "cycle", "missing"}, selected : Seq(Cards), uncovered : SUBSET Nat]

\* What the search for a goal adds to a selection.
Chosen(so, g, hits, available) ==
  LET match == MatchFor(g, hits, available)
  IN  IF so.what = "cycle" THEN so
      ELSE IF match = <<>> THEN [so EXCEPT !.uncovered = @ \cup {g}]
      ELSE LET got == Taking(available)[Call(Head(match), {}, so.selected)]
           IN  [what      |-> IF got.what = "cycle" THEN "cycle" ELSE "taken",
                selected  |-> got.selected,
                uncovered |-> IF got.what = "taken" THEN so.uncovered
                              ELSE so.uncovered \cup {g}]

\* And a card that is wanted in any case.
Included(so, c, available) ==
  IF so.what # "taken" THEN so
  ELSE LET got == Taking(available)[Call(c, {}, so.selected)]
       IN  [so EXCEPT !.what = got.what, !.selected = got.selected]

LEMMA FirstCall ==
  ASSUME NEW available, NEW c \in Cards, NEW s \in Seq(Cards)
  PROVE  LET r == Taking(available)[Call(c, {}, s)]
         IN  /\ r \in Outcomes /\ r.what \in {"taken", "cycle", "missing"} /\ r.selected \in Seq(Cards)
             /\ InOrder(s) => /\ InOrder(r.selected) /\ Range(s) \subseteq Range(r.selected)
                              /\ r.what = "taken" => c \in Range(r.selected)
<1> DEFINE call == Call(c, {}, s)
<1>1. call \in Calls /\ call.card = c /\ call.selected = s
  BY DEF Call, Calls
<1> HIDE DEF call
<1>2. Serves(Taking(available)[call], call)
  BY <1>1, TakingServes
<1> QED
  BY <1>1, <1>2 DEF Serves, Outcomes, call

\* The first match of a goal is an available card that covers it.
LEMMA MatchCovers ==
  ASSUME NEW hits \in Seq(Seq(Cards)), NEW g \in 1 .. Len(hits), NEW available,
         MatchFor(g, hits, available) # <<>>
  PROVE  Head(MatchFor(g, hits, available)) \in Cards /\ Covers(Head(MatchFor(g, hits, available)), g)
<1> DEFINE match == MatchFor(g, hits, available)
<1>1. hits[g] \in Seq(Cards)
  OBVIOUS
<1>2. match \in Seq(Cards) /\ Range(match) \subseteq {c \in available : Covers(c, g)}
  BY <1>1, AmongKeeps DEF MatchFor
<1> HIDE DEF match
<1>3. match # <<>>
  BY DEF match
<1>4. Head(match) \in Cards /\ Head(match) \in Range(match)
  BY <1>2, <1>3 DEF Range
<1> QED
  BY <1>2, <1>4 DEF match

\* A selection is continued for a goal.
Adds(then, so, g) ==
  InOrder(so.selected)
    => /\ InOrder(then.selected) /\ Range(so.selected) \subseteq Range(then.selected)
       /\ so.uncovered \subseteq then.uncovered
       /\ then.what # "cycle" /\ g \notin then.uncovered => \E c \in Range(then.selected) : Covers(c, g)
       /\ so.what = "cycle" => then.what = "cycle"

LEMMA ChosenSelects ==
  ASSUME NEW hits \in Seq(Seq(Cards)), NEW g \in 1 .. Len(hits), NEW available, NEW so \in Selections,
         NEW then, then = Chosen(so, g, hits, available)
  PROVE  then \in Selections /\ Adds(then, so, g)
<1> USE DEF Adds
<1> DEFINE match == MatchFor(g, hits, available)
           c == Head(match)
           got == Taking(available)[Call(c, {}, so.selected)]
<1>1. /\ so.what \in {"taken", "cycle", "missing"} /\ so.selected \in Seq(Cards)
      /\ so.uncovered \in SUBSET Nat /\ g \in Nat
      /\ so = [what |-> so.what, selected |-> so.selected, uncovered |-> so.uncovered]
  BY DEF Selections
<1>2. CASE so.what = "cycle"
  <2>1. then = so
    BY <1>2 DEF Chosen
  <2> QED
    BY <1>2, <2>1
<1>3. CASE so.what # "cycle" /\ match = <<>>
  <2>1. then = [so EXCEPT !.uncovered = @ \cup {g}]
    BY <1>3, Zenon DEF Chosen
  <2>2. then = [what |-> so.what, selected |-> so.selected, uncovered |-> so.uncovered \cup {g}]
    BY <1>1, <2>1
  <2>3. so.uncovered \cup {g} \in SUBSET Nat
    BY <1>1
  <2> HIDE DEF match
  <2>4. then \in Selections
    BY <1>1, <2>2, <2>3 DEF Selections
  <2>5. /\ then.selected = so.selected /\ then.uncovered = so.uncovered \cup {g} /\ then.what = so.what
    BY <2>2
  <2> QED
    BY <1>1, <1>3, <2>4, <2>5
<1>4. CASE so.what # "cycle" /\ match # <<>>
  <2>1. c \in Cards /\ Covers(c, g)
    BY <1>4, MatchCovers
  <2>2. /\ got.what \in {"taken", "cycle", "missing"} /\ got.selected \in Seq(Cards)
        /\ InOrder(so.selected) => /\ InOrder(got.selected) /\ Range(so.selected) \subseteq Range(got.selected)
                                   /\ got.what = "taken" => c \in Range(got.selected)
    BY <1>1, <2>1, FirstCall
  <2>3. then = [what      |-> IF got.what = "cycle" THEN "cycle" ELSE "taken",
                selected  |-> got.selected,
                uncovered |-> IF got.what = "taken" THEN so.uncovered ELSE so.uncovered \cup {g}]
    BY <1>4, Zenon DEF Chosen
  <2> HIDE DEF match, got, c
  <2>4. so.uncovered \cup {g} \in SUBSET Nat
    BY <1>1
  <2>5. then \in Selections
    BY <1>1, <2>2, <2>3, <2>4 DEF Selections
  <2>6. /\ then.selected = got.selected
        /\ then.what = IF got.what = "cycle" THEN "cycle" ELSE "taken"
        /\ then.uncovered = IF got.what = "taken" THEN so.uncovered ELSE so.uncovered \cup {g}
    BY <2>3
  <2> QED
    BY <1>1, <1>4, <2>1, <2>2, <2>5, <2>6
<1> QED
  BY <1>2, <1>3, <1>4

LEMMA IncludedSelects ==
  ASSUME NEW c \in Cards, NEW available, NEW so \in Selections,
         NEW then, then = Included(so, c, available)
  PROVE  /\ then \in Selections
         /\ then.uncovered = so.uncovered
         /\ InOrder(so.selected) => InOrder(then.selected) /\ Range(so.selected) \subseteq Range(then.selected)
         /\ so.what = "cycle" => then.what = "cycle"
<1> DEFINE got == Taking(available)[Call(c, {}, so.selected)]
<1>1. /\ so.what \in {"taken", "cycle", "missing"} /\ so.selected \in Seq(Cards)
      /\ so.uncovered \in SUBSET Nat
      /\ so = [what |-> so.what, selected |-> so.selected, uncovered |-> so.uncovered]
  BY DEF Selections
<1>2. CASE so.what # "taken"
  <2>1. then = so
    BY <1>2 DEF Included
  <2> QED
    BY <1>2, <2>1
<1>3. CASE so.what = "taken"
  <2>1. /\ got.what \in {"taken", "cycle", "missing"} /\ got.selected \in Seq(Cards)
        /\ InOrder(so.selected) => InOrder(got.selected) /\ Range(so.selected) \subseteq Range(got.selected)
    BY <1>1, FirstCall
  <2>2. then = [so EXCEPT !.what = got.what, !.selected = got.selected]
    BY <1>3, Zenon DEF Included
  <2> HIDE DEF got
  <2>3. then = [what |-> got.what, selected |-> got.selected, uncovered |-> so.uncovered]
    BY <1>1, <2>2
  <2>4. then \in Selections
    BY <1>1, <2>1, <2>3 DEF Selections
  <2> QED
    BY <1>3, <2>1, <2>3, <2>4
<1> QED
  BY <1>2, <1>3

NothingSelected == [what |-> "taken", selected |-> <<>>, uncovered |-> {}]

\* A run of Selection: what is selected after each goal.
ChoosesInTurn(f, hits, available) ==
  /\ f[0] = NothingSelected
  /\ \A i \in 1 .. Len(Goals) : f[i] = Chosen(f[i - 1], i, hits, available)

LEMMA SelectionRuns ==
  ASSUME NEW hits \in Seq(Seq(Cards)), Len(hits) = Len(Goals), NEW available
  PROVE  \E f \in [0 .. Len(Goals) -> Selections] :
           ChoosesInTurn(f, hits, available) /\ Selection(hits, available) = f[Len(Goals)]
<1> DEFINE n == Len(Goals)
           V == Selections
           b == NothingSelected
           list == [g \in DOMAIN Goals |-> g]
           Step == [x \in V \X (1 .. n) |-> Chosen(x[1], x[2], hits, available)]
           Op(h, s) == Chosen(h[s \ {Max(s)}], list[Max(s)], hits, available)
           P(h) == h = [s \in SUBSET (1 .. n) |-> IF s = {} THEN b ELSE Op(h, s)]
<1>0. n \in Nat /\ DOMAIN Goals = 1 .. n
  BY OutlineAssumption
<1>1. Selection(hits, available) = (CHOOSE h : P(h))[1 .. n]
  <2>1. Selection(hits, available)
          = (CHOOSE h : h = [s \in SUBSET (DOMAIN list) |-> IF s = {} THEN b ELSE Op(h, s)])[DOMAIN list]
    BY DEF Selection, FoldLeft, MapThenFoldSet, Chosen, NothingSelected
  <2>2. DOMAIN list = 1 .. n
    BY <1>0
  <2> HIDE DEF n, list
  <2> QED
    BY <2>1, <2>2
<1>2. b \in V
  BY DEF Selections, NothingSelected
<1>3. \A v \in V, i \in 1 .. n : list[i] = i /\ Step[<<v, i>>] = Chosen(v, i, hits, available)
  <2> TAKE v \in V, i \in 1 .. n
  <2>1. list[i] = i
    BY <1>0
  <2>2. Step[<<v, i>>] = Chosen(v, i, hits, available)
    <3> HIDE DEF n, V
    <3> QED
      OBVIOUS
  <2> QED
    BY <2>1, <2>2
<1>4. Step \in [V \X (1 .. n) -> V]
  <2>1. \A v \in V, i \in 1 .. n : Chosen(v, i, hits, available) \in V
    BY ChosenSelects
  <2> HIDE DEF V, n
  <2> QED
    BY <2>1
<1> HIDE DEF n, V, Step, b, list
<1>5. \A h, s : s \in SUBSET (1 .. n) /\ s # {} /\ h[s \ {Max(s)}] \in V
                => Op(h, s) = Step[<<h[s \ {Max(s)}], Max(s)>>]
  <2> TAKE h, s
  <2> HAVE s \in SUBSET (1 .. n) /\ s # {} /\ h[s \ {Max(s)}] \in V
  <2>1. Max(s) \in 1 .. n
    BY <1>0, GreatestPlace
  <2>2. list[Max(s)] = Max(s)
    BY <1>3, <2>1
  <2>3. Step[<<h[s \ {Max(s)}], Max(s)>>] = Chosen(h[s \ {Max(s)}], Max(s), hits, available)
    BY <1>3, <2>1
  <2> QED
    BY <2>2, <2>3
<1>6. PICK e \in [SUBSET (1 .. n) -> V] : IsFold(e, n, b, Step)
  BY <1>0, <1>2, <1>4, FoldExists
<1>7. P(e)
  <2>1. \A s \in SUBSET (1 .. n) : s # {} => e[s \ {Max(s)}] \in V
    BY <1>0, GreatestPlace
  <2>2. \A s \in SUBSET (1 .. n) : s # {} => Op(e, s) = Step[<<e[s \ {Max(s)}], Max(s)>>]
    BY <1>5, <2>1
  <2> HIDE DEF Op
  <2> QED
    BY <1>6, <2>2 DEF IsFold
<1>8. PICK h : P(h) /\ Selection(hits, available) = h[1 .. n]
  <2> HIDE DEF P
  <2> QED
    BY <1>1, <1>7
<1>9. FoldsIn(h, n, V, b, Step)
  <2>1. \A s \in SUBSET (1 .. n) : h[s] = IF s = {} THEN b ELSE Op(h, s)
    <3> HIDE DEF Op
    <3> QED
      BY <1>8
  <2> HIDE DEF P, Op
  <2> QED
    BY <1>5, <2>1 DEF FoldsIn
<1>10. PICK f \in [0 .. n -> V] : Takes(f, n, b, Step) /\ EndsAs(f, n, h)
  BY <1>0, <1>2, <1>4, <1>9, FoldSteps
<1>11. \A i \in 1 .. n : f[i] = Chosen(f[i - 1], i, hits, available)
  <2> TAKE i \in 1 .. n
  <2>1. f[i - 1] \in V
    BY <1>0
  <2> QED
    BY <1>3, <1>10, <2>1 DEF Takes
<1>12. ChoosesInTurn(f, hits, available)
  BY <1>10, <1>11 DEF ChoosesInTurn, n, Takes, b
<1> QED
  BY <1>8, <1>10, <1>12 DEF n, V, EndsAs

\* A run of WithIncluded: what is selected after each of the cards wanted in any case.
IncludesInTurn(f, selection, included, available) ==
  /\ f[0] = selection
  /\ \A i \in 1 .. Len(included) : f[i] = Included(f[i - 1], included[i], available)

LEMMA WithIncludedRuns ==
  ASSUME NEW selection \in Selections, NEW included \in Seq(Cards), NEW available
  PROVE  \E f \in [0 .. Len(included) -> Selections] :
           /\ IncludesInTurn(f, selection, included, available)
           /\ WithIncluded(selection, included, available) = f[Len(included)]
<1> DEFINE n == Len(included)
           V == Selections
           Step == [x \in V \X (1 .. n) |-> Included(x[1], included[x[2]], available)]
           Op(h, s) == Included(h[s \ {Max(s)}], included[Max(s)], available)
           P(h) == h = [s \in SUBSET (1 .. n) |-> IF s = {} THEN selection ELSE Op(h, s)]
<1>0. n \in Nat /\ DOMAIN included = 1 .. n /\ \A i \in 1 .. n : included[i] \in Cards
  OBVIOUS
<1>1. WithIncluded(selection, included, available) = (CHOOSE h : P(h))[1 .. n]
  <2>1. WithIncluded(selection, included, available)
          = (CHOOSE h : h = [s \in SUBSET (DOMAIN included) |->
                               IF s = {} THEN selection ELSE Op(h, s)])[DOMAIN included]
    BY DEF WithIncluded, FoldLeft, MapThenFoldSet, Included
  <2> HIDE DEF n
  <2> QED
    BY <1>0, <2>1
<1>3. \A v \in V, i \in 1 .. n : Step[<<v, i>>] = Included(v, included[i], available)
  OBVIOUS
<1>4. Step \in [V \X (1 .. n) -> V]
  <2>1. \A v \in V, i \in 1 .. n : Included(v, included[i], available) \in V
    BY <1>0, IncludedSelects
  <2> HIDE DEF V, n
  <2> QED
    BY <2>1
<1> HIDE DEF n, V, Step
<1>5. \A h, s : s \in SUBSET (1 .. n) /\ s # {} /\ h[s \ {Max(s)}] \in V
                => Op(h, s) = Step[<<h[s \ {Max(s)}], Max(s)>>]
  BY <1>0, <1>3, GreatestPlace
<1>2. selection \in V
  BY DEF V
<1>6. PICK e \in [SUBSET (1 .. n) -> V] : IsFold(e, n, selection, Step)
  BY <1>0, <1>2, <1>4, FoldExists
<1>7. P(e)
  <2>1. \A s \in SUBSET (1 .. n) : s # {} => e[s \ {Max(s)}] \in V
    BY <1>0, GreatestPlace
  <2>2. \A s \in SUBSET (1 .. n) : s # {} => Op(e, s) = Step[<<e[s \ {Max(s)}], Max(s)>>]
    BY <1>5, <2>1
  <2> HIDE DEF Op
  <2> QED
    BY <1>6, <2>2 DEF IsFold
<1>8. PICK h : P(h) /\ WithIncluded(selection, included, available) = h[1 .. n]
  <2> HIDE DEF P
  <2> QED
    BY <1>1, <1>7
<1>9. FoldsIn(h, n, V, selection, Step)
  <2>1. \A s \in SUBSET (1 .. n) : h[s] = IF s = {} THEN selection ELSE Op(h, s)
    <3> HIDE DEF Op
    <3> QED
      BY <1>8
  <2> HIDE DEF P, Op
  <2> QED
    BY <1>5, <2>1 DEF FoldsIn
<1>10. PICK f \in [0 .. n -> V] : Takes(f, n, selection, Step) /\ EndsAs(f, n, h)
  BY <1>0, <1>2, <1>4, <1>9, FoldSteps
<1>11. \A i \in 1 .. n : f[i] = Included(f[i - 1], included[i], available)
  <2> TAKE i \in 1 .. n
  <2>1. f[i - 1] \in V
    BY <1>0
  <2> QED
    BY <1>3, <1>10, <2>1 DEF Takes
<1>12. IncludesInTurn(f, selection, included, available)
  BY <1>10, <1>11 DEF IncludesInTurn, n, Takes
<1> QED
  BY <1>8, <1>10, <1>12 DEF n, V, EndsAs

LEMMA NothingIsInOrder == InOrder(<<>>)
<1>1. <<>> \in Seq(Cards) /\ Len(<<>>) = 0
  OBVIOUS
<1>2. IsInjective(<<>>)
  BY DEF IsInjective
<1>3. Len(<<>>) <= Slots
  BY <1>1, OutlineAssumption
<1>4. PrerequisitesFirst(<<>>)
  BY <1>1 DEF PrerequisitesFirst
<1> QED
  BY <1>1, <1>2, <1>3, <1>4 DEF InOrder

\* A goal is covered by a selection, or counted among those that are not.
Accounted(so, g) == g \in so.uncovered \/ \E c \in Range(so.selected) : Covers(c, g)

LEMMA SelectionSelects ==
  ASSUME NEW hits \in Seq(Seq(Cards)), Len(hits) = Len(Goals), NEW available,
         NEW so, so = Selection(hits, available)
  PROVE  /\ so \in Selections /\ InOrder(so.selected)
         /\ so.what # "cycle" => \A g \in DOMAIN Goals : Accounted(so, g)
<1> DEFINE n == Len(Goals)
<1>0. n \in Nat /\ DOMAIN Goals = 1 .. n
  BY OutlineAssumption
<1>1. PICK f \in [0 .. n -> Selections] : ChoosesInTurn(f, hits, available) /\ so = f[n]
  BY SelectionRuns
<1> DEFINE Fine(i) == /\ InOrder(f[i].selected)
                      /\ f[i].what # "cycle" => \A g \in 1 .. i : Accounted(f[i], g)
           S == {i \in Nat : i <= n => Fine(i)}
<1>2. 0 \in S
  <2>1. f[0].selected = <<>>
    BY <1>1 DEF ChoosesInTurn, NothingSelected
  <2> QED
    BY <2>1, NothingIsInOrder
<1>3. ASSUME NEW i \in Nat, i \in S PROVE i + 1 \in S
  <2> SUFFICES ASSUME i + 1 <= n PROVE Fine(i + 1)
    OBVIOUS
  <2>1. i + 1 \in 1 .. n /\ i \in 0 .. n /\ i + 1 - 1 = i /\ Fine(i)
    BY <1>0, <1>3
  <2>2. f[i + 1] = Chosen(f[i], i + 1, hits, available)
    BY <1>1, <2>1 DEF ChoosesInTurn
  <2>3. f[i] \in Selections /\ i + 1 \in 1 .. Len(hits)
    BY <1>1, <2>1
  <2>4. /\ InOrder(f[i + 1].selected) /\ Range(f[i].selected) \subseteq Range(f[i + 1].selected)
        /\ f[i].uncovered \subseteq f[i + 1].uncovered
        /\ f[i + 1].what # "cycle" => Accounted(f[i + 1], i + 1)
        /\ f[i].what = "cycle" => f[i + 1].what = "cycle"
    <3> DEFINE then == f[i + 1]
               g == i + 1
    <3>1. then = Chosen(f[i], g, hits, available) /\ g \in 1 .. Len(hits)
      BY <2>2, <2>3
    <3> DEFINE so0 == f[i]
    <3>11. so0 \in Selections /\ then = Chosen(so0, g, hits, available)
      BY <2>3, <3>1
    <3> HIDE DEF then, g, so0
    <3>12. Adds(then, so0, g)
      BY <3>1, <3>11, ChosenSelects
    <3>2. /\ InOrder(then.selected) /\ Range(f[i].selected) \subseteq Range(then.selected)
          /\ f[i].uncovered \subseteq then.uncovered
          /\ then.what # "cycle" /\ g \notin then.uncovered => \E c \in Range(then.selected) : Covers(c, g)
          /\ f[i].what = "cycle" => then.what = "cycle"
      BY <2>1, <3>12 DEF so0, Adds
    <3>3. then.what # "cycle" => Accounted(then, g)
      BY <3>2 DEF Accounted
    <3> QED
      BY <3>2, <3>3 DEF then, g
  <2>5. \A g : Accounted(f[i], g) => Accounted(f[i + 1], g)
    BY <2>4 DEF Accounted
  <2>6. 1 .. i + 1 = (1 .. i) \cup {i + 1}
    BY <2>1
  <2> QED
    BY <2>1, <2>4, <2>5, <2>6
<1> HIDE DEF S
<1>4. n \in S
  BY <1>0, <1>2, <1>3, EveryNumber
<1>5. Fine(n) /\ f[n] \in Selections
  BY <1>0, <1>4 DEF S
<1> QED
  BY <1>0, <1>1, <1>5

LEMMA WithIncludedSelects ==
  ASSUME NEW selection \in Selections, InOrder(selection.selected), NEW included \in Seq(Cards),
         NEW available, NEW so, so = WithIncluded(selection, included, available)
  PROVE  /\ so \in Selections /\ InOrder(so.selected)
         /\ Range(selection.selected) \subseteq Range(so.selected) /\ so.uncovered = selection.uncovered
         /\ selection.what = "cycle" => so.what = "cycle"
<1> DEFINE n == Len(included)
<1>0. n \in Nat /\ \A i \in 1 .. n : included[i] \in Cards
  OBVIOUS
<1>1. PICK f \in [0 .. n -> Selections] :
        IncludesInTurn(f, selection, included, available) /\ so = f[n]
  BY WithIncludedRuns
<1> DEFINE Fine(i) == /\ InOrder(f[i].selected)
                      /\ Range(selection.selected) \subseteq Range(f[i].selected)
                      /\ f[i].uncovered = selection.uncovered
                      /\ selection.what = "cycle" => f[i].what = "cycle"
           S == {i \in Nat : i <= n => Fine(i)}
<1>2. 0 \in S
  BY <1>1 DEF IncludesInTurn
<1>3. ASSUME NEW i \in Nat, i \in S PROVE i + 1 \in S
  <2> SUFFICES ASSUME i + 1 <= n PROVE Fine(i + 1)
    OBVIOUS
  <2>1. i + 1 \in 1 .. n /\ i \in 0 .. n /\ i + 1 - 1 = i /\ Fine(i)
    BY <1>0, <1>3
  <2>2. f[i + 1] = Included(f[i], included[i + 1], available)
    BY <1>1, <2>1 DEF IncludesInTurn
  <2>3. f[i] \in Selections /\ included[i + 1] \in Cards
    BY <1>0, <1>1, <2>1
  <2>4. /\ InOrder(f[i + 1].selected) /\ Range(f[i].selected) \subseteq Range(f[i + 1].selected)
        /\ f[i + 1].uncovered = f[i].uncovered
        /\ f[i].what = "cycle" => f[i + 1].what = "cycle"
    BY <2>1, <2>2, <2>3, IncludedSelects
  <2> QED
    BY <2>1, <2>4
<1> HIDE DEF S
<1>4. n \in S
  BY <1>0, <1>2, <1>3, EveryNumber
<1>5. Fine(n) /\ f[n] \in Selections
  BY <1>0, <1>4 DEF S
<1> QED
  BY <1>1, <1>5

LEMMA JoinedOnce ==
  ASSUME NEW T, NEW s \in Seq(T), NEW t \in Seq(T)
  PROVE  /\ Range(s \o t) = Range(s) \cup Range(t)
         /\ IsInjective(s) /\ IsInjective(t) /\ Range(s) \cap Range(t) = {} => IsInjective(s \o t)
<1> DEFINE u == s \o t
           m == Len(s)
           n == Len(t)
<1>1. /\ m \in Nat /\ n \in Nat /\ DOMAIN s = 1 .. m /\ DOMAIN t = 1 .. n /\ DOMAIN u = 1 .. m + n
      /\ \A i \in 1 .. m + n : u[i] = IF i <= m THEN s[i] ELSE t[i - m]
  OBVIOUS
<1> HIDE DEF u, m, n
<1>2. \A j \in 1 .. n : j + m \in 1 .. m + n /\ u[j + m] = t[j]
  BY <1>1
<1>3. Range(u) = Range(s) \cup Range(t)
  <2>1. ASSUME NEW x \in Range(u) PROVE x \in Range(s) \cup Range(t)
    <3>1. PICK i \in 1 .. m + n : x = u[i]
      BY <1>1, <2>1 DEF Range
    <3>2. CASE i <= m
      <4>1. i \in 1 .. m /\ x = s[i]
        BY <1>1, <3>1, <3>2
      <4> QED
        BY <1>1, <4>1 DEF Range
    <3>3. CASE ~(i <= m)
      <4>1. i - m \in 1 .. n /\ x = t[i - m]
        BY <1>1, <3>1, <3>3
      <4> QED
        BY <1>1, <4>1 DEF Range
    <3> QED
      BY <3>2, <3>3
  <2>2. ASSUME NEW x \in Range(s) PROVE x \in Range(u)
    <3>1. PICK i \in 1 .. m : x = s[i]
      BY <1>1, <2>2 DEF Range
    <3>2. i \in 1 .. m + n /\ u[i] = x
      BY <1>1, <3>1
    <3> QED
      BY <1>1, <3>2 DEF Range
  <2>3. ASSUME NEW x \in Range(t) PROVE x \in Range(u)
    <3>1. PICK i \in 1 .. n : x = t[i]
      BY <1>1, <2>3 DEF Range
    <3> QED
      BY <1>1, <1>2, <3>1 DEF Range
  <2> QED
    BY <2>1, <2>2, <2>3
<1>4. ASSUME IsInjective(s), IsInjective(t), Range(s) \cap Range(t) = {},
             NEW i \in 1 .. m + n, NEW j \in 1 .. m + n, u[i] = u[j]
      PROVE  i = j
  <2>1. \A k \in 1 .. m + n : IF k <= m THEN u[k] \in Range(s) ELSE u[k] \in Range(t)
    <3> TAKE k \in 1 .. m + n
    <3>1. CASE k <= m
      <4>1. k \in DOMAIN s /\ u[k] = s[k]
        BY <1>1, <3>1
      <4> QED
        BY <3>1, <4>1 DEF Range
    <3>2. CASE ~(k <= m)
      <4>1. k - m \in DOMAIN t /\ u[k] = t[k - m]
        BY <1>1, <3>2
      <4> QED
        BY <3>2, <4>1 DEF Range
    <3> QED
      BY <3>1, <3>2
  <2>2. CASE i <= m /\ j <= m
    BY <1>1, <1>4, <2>2 DEF IsInjective
  <2>3. CASE ~(i <= m) /\ ~(j <= m)
    <3>1. i - m \in 1 .. n /\ j - m \in 1 .. n /\ t[i - m] = t[j - m]
      BY <1>1, <1>4, <2>3
    <3>2. i - m = j - m
      BY <1>1, <1>4, <3>1 DEF IsInjective
    <3> QED
      BY <1>1, <3>2
  <2>4. CASE (i <= m) # (j <= m)
    BY <1>4, <2>1, <2>4
  <2> QED
    BY <2>2, <2>3, <2>4
<1>5. IsInjective(s) /\ IsInjective(t) /\ Range(s) \cap Range(t) = {} => IsInjective(u)
  BY <1>1, <1>4 DEF IsInjective
<1> QED
  BY <1>3, <1>5 DEF u

-----------------------------------------------------------------------------
(* The chapters *)

\* A run of FlattenSeq: the chapters up to each place, put together.
Joins(f, lists) ==
  /\ f[1] = lists[1]
  /\ \A i \in 2 .. Len(lists) : f[i] = f[i - 1] \o lists[i]

LEMMA FlattenRuns ==
  ASSUME NEW T, NEW lists \in Seq(Seq(T)), Len(lists) # 0
  PROVE  \E f \in [1 .. Len(lists) -> Seq(T)] : Joins(f, lists) /\ FlattenSeq(lists) = f[Len(lists)]
<1> DEFINE n == Len(lists)
           D == 1 .. n
           V == Seq(T)
           Made(f) == [i \in D |-> IF i = 1 THEN lists[i] ELSE f[i - 1] \o lists[i]]
           P(f) == f = Made(f)
           R == {x \in D \X D : x[1] < x[2]}
           G == [f \in [D -> V] |-> Made(f)]
<1>0. n \in Nat /\ 1 \in D /\ n \in D /\ \A i \in D : lists[i] \in V
  OBVIOUS
<1>1. FlattenSeq(lists) = (CHOOSE f : P(f))[n]
  BY DEF FlattenSeq
<1>2. IsWellFoundedOn(R, D) /\ IsTransitive(R, D)
  <2>1. ASSUME NEW B \in SUBSET D, B # {}
        PROVE  \E x \in B : \A y \in B : ~ (<<y, x>> \in R)
    <3>1. B \in SUBSET Nat
      BY <1>0
    <3>2. PICK x \in B : \A y \in B : x <= y
      BY <2>1, <3>1, LeastNumber
    <3> QED
      BY <1>0, <3>2
  <2>2. IsWellFoundedOn(R, D)
    BY <2>1, MinWF
  <2>3. IsTransitive(R, D)
    BY <1>0 DEF IsTransitive
  <2> QED
    BY <2>2, <2>3
<1>3. V # {}
  <2>1. <<>> \in V
    OBVIOUS
  <2> QED
    BY <2>1
<1>4. \A f \in [D -> V], i \in D : G[f][i] = IF i = 1 THEN lists[i] ELSE f[i - 1] \o lists[i]
  OBVIOUS
<1>5. G \in [[D -> V] -> [D -> V]]
  <2>1. ASSUME NEW f \in [D -> V], NEW i \in D, i # 1 PROVE f[i - 1] \o lists[i] \in V
    <3>1. i - 1 \in D
      BY <1>0, <2>1
    <3>2. f[i - 1] \in V /\ lists[i] \in V
      BY <1>0, <3>1
    <3> QED
      BY <3>2
  <2>2. \A f \in [D -> V] : Made(f) \in [D -> V]
    BY <1>0, <2>1
  <2> HIDE DEF Made, D, V
  <2> QED
    BY <2>2
<1>6. ASSUME NEW f \in [D -> V], NEW g \in [D -> V], NEW x \in D,
             \A y \in D : <<y, x>> \in R => f[y] = g[y]
      PROVE  G[f][x] = G[g][x]
  <2>1. CASE x = 1
    BY <1>4, <2>1
  <2>2. CASE x # 1
    <3>1. x - 1 \in D /\ <<x - 1, x>> \in R
      BY <1>0, <2>2
    <3>2. f[x - 1] = g[x - 1]
      BY <1>6, <3>1
    <3> HIDE DEF D, V, G, R
    <3> QED
      BY <1>4, <2>2, <3>2
  <2> QED
    BY <2>1, <2>2
<1>7. LooksBack(G, D, R, V)
  BY <1>5, <1>6 DEF LooksBack
<1> HIDE DEF G, D, V, R
<1>8. Fixpoints(G, D, V) # {}
  BY <1>2, <1>3, <1>7, RecursionExists
<1>9. PICK e \in [D -> V] : e = G[e]
  BY <1>8 DEF Fixpoints
<1>10. P(e)
  BY <1>9 DEF G
<1>11. PICK f : P(f) /\ FlattenSeq(lists) = f[n]
  <2> HIDE DEF P
  <2> QED
    BY <1>1, <1>10
<1>12. \A i \in D : f[i] = IF i = 1 THEN lists[i] ELSE f[i - 1] \o lists[i]
  BY <1>11
<1> HIDE DEF P
<1> DEFINE S == {i \in Nat : i \in D => f[i] \in V}
<1>13. 0 \in S
  BY DEF D
<1>14. ASSUME NEW i \in Nat, i \in S PROVE i + 1 \in S
  <2> SUFFICES ASSUME i + 1 \in D PROVE f[i + 1] \in V
    OBVIOUS
  <2>1. CASE i = 0
    <3>1. f[1] = lists[1]
      BY <1>0, <1>12
    <3> QED
      BY <1>0, <2>1, <3>1
  <2>2. CASE i # 0
    <3>1. i \in D /\ i + 1 # 1 /\ i + 1 - 1 = i
      BY <1>0, <2>2 DEF D
    <3> DEFINE j == i + 1
    <3>11. j \in D /\ j # 1 /\ j - 1 = i
      BY <3>1
    <3> HIDE DEF j
    <3>12. f[j] = f[i] \o lists[j]
      BY <1>12, <3>11
    <3>2. f[i + 1] = f[i] \o lists[i + 1]
      BY <3>12 DEF j
    <3>3. f[i] \in V /\ lists[i + 1] \in V
      BY <1>0, <1>14, <3>1
    <3> QED
      BY <3>2, <3>3 DEF V
  <2> QED
    BY <2>1, <2>2
<1> HIDE DEF S
<1>15. \A i \in Nat : i \in S
  BY <1>13, <1>14, EveryNumber
<1>16. \A i \in D : f[i] \in V
  <2>1. \A i \in D : i \in Nat
    BY DEF D
  <2> QED
    BY <1>15, <2>1 DEF S
<1>17. f \in [D -> V]
  <2>1. f = [i \in D |-> f[i]]
    BY <1>11 DEF P
  <2> QED
    BY <1>16, <2>1
<1>18. Joins(f, lists)
  <2>1. f[1] = lists[1]
    BY <1>0, <1>12
  <2>2. \A i \in 2 .. n : i \in D /\ i # 1
    BY <1>0 DEF D
  <2>3. \A i \in 2 .. n : f[i] = f[i - 1] \o lists[i]
    BY <1>12, <2>2
  <2> QED
    BY <2>1, <2>3 DEF Joins, n
<1> QED
  BY <1>11, <1>17, <1>18 DEF D, V, n

\* Lists that have each element once and none in common make one that has each once.
LEMMA FlattenKeeps ==
  ASSUME NEW T, NEW lists \in Seq(Seq(T)), Len(lists) # 0
  PROVE  /\ FlattenSeq(lists) \in Seq(T)
         /\ Range(FlattenSeq(lists)) = UNION {Range(lists[i]) : i \in 1 .. Len(lists)}
         /\ (\A i, j \in 1 .. Len(lists) : /\ IsInjective(lists[i])
                                           /\ i # j => Range(lists[i]) \cap Range(lists[j]) = {})
              => IsInjective(FlattenSeq(lists))
<1> DEFINE n == Len(lists)
           Upto(i) == UNION {Range(lists[j]) : j \in 1 .. i}
           Disjoint == \A i, j \in 1 .. n : /\ IsInjective(lists[i])
                                            /\ i # j => Range(lists[i]) \cap Range(lists[j]) = {}
<1>0. n \in Nat /\ 1 \in 1 .. n /\ n \in 1 .. n /\ \A i \in 1 .. n : lists[i] \in Seq(T)
  OBVIOUS
<1>1. PICK f \in [1 .. n -> Seq(T)] : Joins(f, lists) /\ FlattenSeq(lists) = f[n]
  BY FlattenRuns
<1> DEFINE Fine(i) == Range(f[i]) = Upto(i) /\ (Disjoint => IsInjective(f[i]))
           S == {i \in Nat : i \in 1 .. n => Fine(i)}
<1>2. 0 \in S
  OBVIOUS
<1>22. Fine(1)
  <2>1. f[1] = lists[1]
    BY <1>1 DEF Joins
  <2>2. Upto(1) = Range(lists[1])
    <3>1. 1 .. 1 = {1}
      OBVIOUS
    <3> QED
      BY <3>1
  <2>3. Disjoint => IsInjective(lists[1])
    BY <1>0
  <2> HIDE DEF Upto, Disjoint
  <2> QED
    BY <2>1, <2>2, <2>3
<1>3. ASSUME NEW i \in Nat, i \in S PROVE i + 1 \in S
  <2>0. CASE i = 0
    <3>1. i + 1 = 1
      BY <2>0
    <3> HIDE DEF Fine
    <3> QED
      BY <1>22, <3>1
  <2> SUFFICES ASSUME i + 1 \in 1 .. n, i # 0 PROVE Fine(i + 1)
    <3> HIDE DEF Fine, n
    <3> QED
      BY <2>0
  <2>1. i + 1 \in 2 .. n /\ i + 1 \in 1 .. n /\ i \in 1 .. n /\ Fine(i)
    <3> HIDE DEF Fine
    <3> QED
      BY <1>0, <1>3
  <2>2. f[i + 1] = f[i] \o lists[i + 1]
    <3>1. \A j \in 2 .. n : f[j] = f[j - 1] \o lists[j]
      BY <1>1 DEF Joins
    <3> DEFINE j == i + 1
    <3>2. j \in 2 .. n /\ j - 1 = i
      BY <2>1
    <3> HIDE DEF j, n
    <3>3. f[j] = f[i] \o lists[j]
      BY <3>1, <3>2
    <3> QED
      BY <3>3 DEF j
  <2>3. f[i] \in Seq(T) /\ lists[i + 1] \in Seq(T)
    BY <1>0, <2>1
  <2>4. 1 .. i + 1 = (1 .. i) \cup {i + 1} /\ i + 1 \notin 1 .. i /\ 1 .. i \subseteq 1 .. n
    BY <1>0, <2>1
  <2>5. Upto(i + 1) = Upto(i) \cup Range(lists[i + 1])
    <3> HIDE DEF n
    <3> QED
      BY <2>4
  <2>6. Disjoint => Upto(i) \cap Range(lists[i + 1]) = {} /\ IsInjective(lists[i + 1])
    <3> SUFFICES ASSUME Disjoint PROVE Upto(i) \cap Range(lists[i + 1]) = {} /\ IsInjective(lists[i + 1])
      OBVIOUS
    <3>1. \A j \in 1 .. i : Range(lists[j]) \cap Range(lists[i + 1]) = {}
      BY <2>1, <2>4
    <3> QED
      BY <2>1, <3>1
  <2> HIDE DEF Upto, Disjoint
  <2> DEFINE s == f[i]
             t == lists[i + 1]
  <2>7. s \in Seq(T) /\ t \in Seq(T)
    BY <2>3
  <2> HIDE DEF s, t
  <2>8. /\ Range(s \o t) = Range(s) \cup Range(t)
        /\ IsInjective(s) /\ IsInjective(t) /\ Range(s) \cap Range(t) = {} => IsInjective(s \o t)
    BY <2>7, JoinedOnce
  <2> QED
    BY <2>1, <2>2, <2>5, <2>6, <2>8 DEF s, t
<1> HIDE DEF S
<1>4. \A i \in Nat : i \in S
  BY <1>2, <1>3, EveryNumber
<1>5. Fine(n)
  BY <1>0, <1>4 DEF S
<1> QED
  BY <1>0, <1>1, <1>5

\* A card has one chapter.
LEMMA OneChapter ==
  ASSUME NEW c
  PROVE  /\ \E g \in 1 .. Len(Goals) + 1 : TaughtIn(c, g)
         /\ \A g, h \in 1 .. Len(Goals) + 1 : TaughtIn(c, g) /\ TaughtIn(c, h) => g = h
<1> DEFINE n == Len(Goals)
           S == {g \in 1 .. n : Covers(c, g)}
<1>0. n \in Nat
  BY OutlineAssumption
<1> HIDE DEF n
<1>1. \A g \in 1 .. n + 1 :
        TaughtIn(c, g) <=> (g <= n => Covers(c, g)) /\ \A h \in 1 .. g - 1 : ~Covers(c, h)
  BY DEF TaughtIn, n
<1>2. ASSUME S = {}
      PROVE  \E g \in 1 .. n + 1 : TaughtIn(c, g)
  <2> DEFINE last == n + 1
  <2>1. last \in 1 .. n + 1 /\ ~(last <= n) /\ last - 1 = n
    BY <1>0
  <2> HIDE DEF last
  <2>2. \A h \in 1 .. last - 1 : ~Covers(c, h)
    BY <1>2, <2>1
  <2>3. TaughtIn(c, last)
    BY <1>1, <2>1, <2>2
  <2> QED
    BY <2>1, <2>3
<1>3. ASSUME S # {}
      PROVE  \E g \in 1 .. n + 1 : TaughtIn(c, g)
  <2>1. S \in SUBSET Nat
    BY <1>0
  <2>2. PICK g \in S : \A h \in S : g <= h
    <3> HIDE DEF S
    <3> QED
      BY <1>3, <2>1, LeastNumber
  <2>3. g \in 1 .. n + 1 /\ Covers(c, g)
    BY <1>0
  <2>4. \A h \in 1 .. g - 1 : ~Covers(c, h)
    <3> SUFFICES ASSUME NEW h \in 1 .. g - 1, Covers(c, h) PROVE FALSE
      OBVIOUS
    <3>1. h \in S /\ h < g
      BY <1>0, <2>3
    <3> QED
      BY <2>1, <2>2, <3>1
  <2>5. TaughtIn(c, g)
    BY <1>1, <2>3, <2>4
  <2> QED
    BY <2>3, <2>5
<1>4. ASSUME NEW g \in 1 .. n + 1, NEW h \in 1 .. n + 1, TaughtIn(c, g), TaughtIn(c, h), g < h
      PROVE  FALSE
  <2>1. g <= n /\ g \in 1 .. h - 1
    BY <1>0, <1>4
  <2>2. Covers(c, g)
    BY <1>1, <1>4, <2>1
  <2>3. ~Covers(c, g)
    BY <1>1, <1>4, <2>1
  <2> QED
    BY <2>2, <2>3
<1>5. \A g, h \in 1 .. n + 1 : g = h \/ g < h \/ h < g
  BY <1>0
<1>6. \A g, h \in 1 .. n + 1 : TaughtIn(c, g) /\ TaughtIn(c, h) => g = h
  BY <1>4, <1>5
<1>7. \E g \in 1 .. n + 1 : TaughtIn(c, g)
  BY <1>2, <1>3
<1> QED
  BY <1>6, <1>7 DEF n

LEMMA ChaptersTeach ==
  ASSUME NEW selected, InOrder(selected), NEW chapters, chapters = Chapters(selected)
  PROVE  /\ chapters \in Seq(Seq(Cards)) /\ Len(chapters) = Len(Goals) + 1
         /\ IsInjective(FlattenSeq(chapters)) /\ FlattenSeq(chapters) \in Seq(Cards)
         /\ Range(FlattenSeq(chapters)) = Range(selected)
         /\ \A g \in DOMAIN Goals, c \in Range(selected) :
              Covers(c, g) => \E h \in 1 .. g : Goals[h] = Goals[g] /\ chapters[h] # <<>>
<1> DEFINE n == Len(Goals)
           Of(g) == {c \in Range(selected) : TaughtIn(c, g)}
<1>0. n \in Nat /\ n # 0 /\ DOMAIN Goals = 1 .. n
  BY OutlineAssumption
<1>1. selected \in Seq(Cards) /\ IsInjective(selected)
  BY DEF InOrder
<1>2. chapters = [g \in 1 .. n + 1 |-> Among(selected, Of(g))]
  BY DEF Chapters
<1>3. \A g \in 1 .. n + 1 : /\ chapters[g] \in Seq(Cards) /\ IsInjective(chapters[g])
                            /\ Range(chapters[g]) = Of(g)
  <2> TAKE g \in 1 .. n + 1
  <2>1. chapters[g] = Among(selected, Of(g))
    BY <1>2
  <2>2. Range(selected) \cap Of(g) = Of(g)
    OBVIOUS
  <2> DEFINE of == Of(g)
  <2> HIDE DEF Of, of
  <2>3. /\ Among(selected, of) \in Seq(Cards) /\ Range(Among(selected, of)) = Range(selected) \cap of
        /\ IsInjective(Among(selected, of))
    BY <1>1, AmongKeeps
  <2> QED
    BY <2>1, <2>2, <2>3 DEF of
<1>4. chapters \in Seq(Seq(Cards)) /\ Len(chapters) = n + 1
  <2>1. chapters \in [1 .. n + 1 -> Seq(Cards)]
    BY <1>2, <1>3
  <2>2. n + 1 \in Nat
    BY <1>0
  <2> DEFINE last == n + 1
  <2> HIDE DEF last
  <2>3. last \in Nat /\ chapters \in [1 .. last -> Seq(Cards)]
    BY <2>1, <2>2 DEF last
  <2>4. chapters \in Seq(Seq(Cards)) /\ Len(chapters) = last
    BY <2>3
  <2> QED
    BY <2>4 DEF last
<1>5. /\ FlattenSeq(chapters) \in Seq(Cards)
      /\ Range(FlattenSeq(chapters)) = UNION {Range(chapters[i]) : i \in 1 .. n + 1}
      /\ (\A i, j \in 1 .. n + 1 : /\ IsInjective(chapters[i])
                                   /\ i # j => Range(chapters[i]) \cap Range(chapters[j]) = {})
           => IsInjective(FlattenSeq(chapters))
  <2>1. Len(chapters) # 0
    BY <1>0, <1>4
  <2> HIDE DEF n
  <2>2. /\ FlattenSeq(chapters) \in Seq(Cards)
        /\ Range(FlattenSeq(chapters)) = UNION {Range(chapters[i]) : i \in 1 .. Len(chapters)}
        /\ (\A i, j \in 1 .. Len(chapters) : /\ IsInjective(chapters[i])
                                             /\ i # j => Range(chapters[i]) \cap Range(chapters[j]) = {})
             => IsInjective(FlattenSeq(chapters))
    BY <1>4, <2>1, FlattenKeeps
  <2> QED
    BY <1>4, <2>2
<1>6. UNION {Range(chapters[i]) : i \in 1 .. n + 1} = Range(selected)
  <2>1. \A c \in Range(selected) : \E g \in 1 .. n + 1 : c \in Of(g)
    BY OneChapter
  <2>2. \A g \in 1 .. n + 1 : Of(g) \subseteq Range(selected)
    OBVIOUS
  <2> HIDE DEF Of, n
  <2> QED
    BY <1>3, <2>1, <2>2
<1>7. \A i, j \in 1 .. n + 1 : i # j => Range(chapters[i]) \cap Range(chapters[j]) = {}
  <2>1. \A i, j \in 1 .. n + 1 : i # j => Of(i) \cap Of(j) = {}
    BY OneChapter
  <2> HIDE DEF Of, n
  <2> QED
    BY <1>3, <2>1
<1>8. ASSUME NEW g \in 1 .. n, NEW c \in Range(selected), Covers(c, g)
      PROVE  \E h \in 1 .. g : Goals[h] = Goals[g] /\ chapters[h] # <<>>
  <2>1. PICK h \in 1 .. n + 1 : TaughtIn(c, h)
    BY OneChapter
  <2>2. h <= g
    <3>1. ~(g \in 1 .. h - 1)
      BY <1>8, <2>1 DEF TaughtIn
    <3> QED
      BY <1>0, <3>1
  <2>3. h \in 1 .. g /\ h <= n
    BY <1>0, <2>2
  <2>4. Covers(c, h)
    BY <2>1, <2>3 DEF TaughtIn
  <2>5. Goals[h] = Goals[g]
    BY <1>8, <2>4 DEF Covers
  <2>6. c \in Range(chapters[h])
    BY <1>3, <2>1
  <2>7. chapters[h] # <<>>
    BY <2>6 DEF Range
  <2> QED
    BY <2>3, <2>5, <2>7
<1> HIDE DEF n
<1> QED
  BY <1>0, <1>3, <1>4, <1>5, <1>6, <1>7, <1>8 DEF n

-----------------------------------------------------------------------------
(* The slots *)

LEMMA LeftOver ==
  ASSUME NEW n \in Nat \ {0}, NEW m \in Nat
  PROVE  m = n * (m \div n) + (m % n) /\ m % n \in 0 .. n - 1 /\ m \div n \in Nat
<1>1. m = n * (m \div n) + (m % n)
  BY SMT
<1>2. m % n \in 0 .. n - 1
  BY SMT
<1>3. m \div n \in Nat
  BY SMT
<1> QED
  BY <1>1, <1>2, <1>3

LEMMA OnceMore == ASSUME NEW n \in Nat, NEW m \in Nat PROVE (n + 1) * m = n * m + m
BY SMT

Asking == [left : Nat, slots : Seq(Nat)]

\* What a card gets of the slots that are left.
More(so, c) == Least(so.left, IF SuggestedOf[c] > 0 THEN SuggestedOf[c] - 1 ELSE 0)
Asked1(so, c) == [left |-> so.left - More(so, c), slots |-> Append(so.slots, 1 + More(so, c))]

LEMMA AskingGoesOn ==
  ASSUME NEW so \in Asking, NEW c \in Cards
  PROVE  /\ More(so, c) \in Nat /\ More(so, c) <= so.left
         /\ Asked1(so, c) \in Asking
         /\ Asked1(so, c).left = so.left - More(so, c)
         /\ Asked1(so, c).slots = Append(so.slots, 1 + More(so, c))
<1>1. so.left \in Nat /\ so.slots \in Seq(Nat) /\ SuggestedOf[c] \in Nat
  BY OutlineAssumption DEF Asking
<1>2. More(so, c) \in Nat /\ More(so, c) <= so.left
  BY <1>1 DEF More, Least
<1>3. so.left - More(so, c) \in Nat /\ Append(so.slots, 1 + More(so, c)) \in Seq(Nat)
  BY <1>1, <1>2
<1> QED
  BY <1>2, <1>3 DEF Asked1, Asking

\* A run of the first part of _allocate: what each card asks for, while there is some.
AsksInTurn(f, selected) ==
  /\ f[0] = [left |-> Slots - Len(selected), slots |-> <<>>]
  /\ \A i \in 1 .. Len(selected) : f[i] = Asked1(f[i - 1], selected[i])

\* What a card has in the end: what was left over, in turn.
Gets(asked, n, i) == asked.slots[i] + (asked.left \div n + IF i <= asked.left % n THEN 1 ELSE 0)
Place(selected, c) == CHOOSE i \in 1 .. Len(selected) : selected[i] = c

LEMMA AllocationRuns ==
  ASSUME NEW selected \in Seq(Cards), Len(selected) <= Slots
  PROVE  \E f \in [0 .. Len(selected) -> Asking] :
           /\ AsksInTurn(f, selected)
           /\ Allocation(selected) = [c \in Range(selected) |->
                                        Gets(f[Len(selected)], Len(selected), Place(selected, c))]
<1> DEFINE n == Len(selected)
           V == Asking
           b == [left |-> Slots - n, slots |-> <<>>]
           asked == FoldLeft(Asked1, b, selected)
           Step == [x \in V \X (1 .. n) |-> Asked1(x[1], selected[x[2]])]
           Op(h, s) == Asked1(h[s \ {Max(s)}], selected[Max(s)])
           P(h) == h = [s \in SUBSET (1 .. n) |-> IF s = {} THEN b ELSE Op(h, s)]
<1>0. Allocation(selected) = [c \in Range(selected) |-> Gets(asked, n, Place(selected, c))]
  BY DEF Allocation, Gets, Place, Asked1, More
<1>1. asked = (CHOOSE h : P(h))[1 .. n]
  <2>1. DOMAIN selected = 1 .. n
    OBVIOUS
  <2>2. asked = (CHOOSE h : h = [s \in SUBSET (DOMAIN selected) |-> IF s = {} THEN b ELSE Op(h, s)])[DOMAIN selected]
    BY DEF FoldLeft, MapThenFoldSet
  <2> HIDE DEF n, asked, b
  <2> QED
    BY <2>1, <2>2
<1>2. n \in Nat /\ b \in V
  BY OutlineAssumption DEF Asking
<1>3. \A v \in V, i \in 1 .. n : Step[<<v, i>>] = Asked1(v, selected[i]) /\ Step[<<v, i>>] \in V
  <2> TAKE v \in V, i \in 1 .. n
  <2>1. Step[<<v, i>>] = Asked1(v, selected[i])
    OBVIOUS
  <2>2. selected[i] \in Cards
    OBVIOUS
  <2>3. Asked1(v, selected[i]) \in V
    BY <2>2, AskingGoesOn
  <2> QED
    BY <2>1, <2>3
<1>4. Step \in [V \X (1 .. n) -> V]
  <2>1. \A x \in V \X (1 .. n) : x = <<x[1], x[2]>> /\ x[1] \in V /\ x[2] \in 1 .. n
    OBVIOUS
  <2>2. \A x \in V \X (1 .. n) : Step[x] \in V
    <3> HIDE DEF Step, V, n
    <3> QED
      BY <1>3, <2>1
  <2>3. Step = [x \in V \X (1 .. n) |-> Step[x]]
    OBVIOUS
  <2> HIDE DEF Step, V, n
  <2> QED
    BY <2>2, <2>3
<1> HIDE DEF n, V, b, Step, asked
<1>5. \A h, s : s \in SUBSET (1 .. n) /\ s # {} /\ h[s \ {Max(s)}] \in V
                => Op(h, s) = Step[<<h[s \ {Max(s)}], Max(s)>>]
  BY <1>2, <1>3, GreatestPlace
<1>6. PICK e \in [SUBSET (1 .. n) -> V] : IsFold(e, n, b, Step)
  BY <1>2, <1>4, FoldExists
<1>7. P(e)
  <2>1. \A s \in SUBSET (1 .. n) : s # {} => e[s \ {Max(s)}] \in V
    BY <1>2, GreatestPlace
  <2>2. \A s \in SUBSET (1 .. n) : s # {} => Op(e, s) = Step[<<e[s \ {Max(s)}], Max(s)>>]
    BY <1>5, <2>1
  <2> HIDE DEF Op
  <2> QED
    BY <1>6, <2>2 DEF IsFold
<1>8. PICK h : P(h) /\ asked = h[1 .. n]
  <2> HIDE DEF P
  <2> QED
    BY <1>1, <1>7
<1>9. FoldsIn(h, n, V, b, Step)
  <2>1. \A s \in SUBSET (1 .. n) : h[s] = IF s = {} THEN b ELSE Op(h, s)
    <3> HIDE DEF Op
    <3> QED
      BY <1>8
  <2> HIDE DEF P, Op
  <2> QED
    BY <1>5, <2>1 DEF FoldsIn
<1>10. PICK f \in [0 .. n -> V] : Takes(f, n, b, Step) /\ EndsAs(f, n, h)
  BY <1>2, <1>4, <1>9, FoldSteps
<1>11. \A i \in 1 .. n : f[i] = Asked1(f[i - 1], selected[i])
  <2> TAKE i \in 1 .. n
  <2>1. f[i - 1] \in V
    BY <1>2
  <2> QED
    BY <1>3, <1>10, <2>1 DEF Takes
<1>12. f[0] = b
  BY <1>10 DEF Takes
<1>13. AsksInTurn(f, selected)
  BY <1>11, <1>12 DEF AsksInTurn, b, n
<1>14. asked = f[n]
  BY <1>8, <1>10 DEF EndsAs
<1> QED
  BY <1>0, <1>13, <1>14 DEF n, V

\* A run of the sum of the slots.
Sums(g, list, slots) ==
  g[0] = 0 /\ \A i \in 1 .. Len(list) : g[i] = g[i - 1] + slots[list[i]]

LEMMA SumRuns ==
  ASSUME NEW T, NEW list \in Seq(T), NEW slots, \A i \in 1 .. Len(list) : slots[list[i]] \in Nat
  PROVE  \E g \in [0 .. Len(list) -> Nat] :
           Sums(g, list, slots) /\ Allotted(list, slots) = g[Len(list)]
<1> DEFINE n == Len(list)
           V == Nat
           sum == Allotted(list, slots)
           Step == [x \in V \X (1 .. n) |-> x[1] + slots[list[x[2]]]]
           Op(h, s) == h[s \ {Max(s)}] + slots[list[Max(s)]]
           P(h) == h = [s \in SUBSET (1 .. n) |-> IF s = {} THEN 0 ELSE Op(h, s)]
<1>1. sum = (CHOOSE h : P(h))[1 .. n]
  <2>1. DOMAIN list = 1 .. n
    OBVIOUS
  <2>2. sum = (CHOOSE h : h = [s \in SUBSET (DOMAIN list) |-> IF s = {} THEN 0 ELSE Op(h, s)])[DOMAIN list]
    BY DEF Allotted, FoldLeft, MapThenFoldSet
  <2> HIDE DEF n, sum
  <2> QED
    BY <2>1, <2>2
<1>2. n \in Nat /\ 0 \in V
  OBVIOUS
<1>3. \A v \in V, i \in 1 .. n : Step[<<v, i>>] = v + slots[list[i]]
  OBVIOUS
<1>4. Step \in [V \X (1 .. n) -> V]
  OBVIOUS
<1> HIDE DEF n, V, Step, sum
<1>5. \A h, s : s \in SUBSET (1 .. n) /\ s # {} /\ h[s \ {Max(s)}] \in V
                => Op(h, s) = Step[<<h[s \ {Max(s)}], Max(s)>>]
  BY <1>2, <1>3, GreatestPlace
<1>6. PICK e \in [SUBSET (1 .. n) -> V] : IsFold(e, n, 0, Step)
  BY <1>2, <1>4, FoldExists
<1>7. P(e)
  <2>1. \A s \in SUBSET (1 .. n) : s # {} => e[s \ {Max(s)}] \in V
    BY <1>2, GreatestPlace
  <2>2. \A s \in SUBSET (1 .. n) : s # {} => Op(e, s) = Step[<<e[s \ {Max(s)}], Max(s)>>]
    BY <1>5, <2>1
  <2> HIDE DEF Op
  <2> QED
    BY <1>6, <2>2 DEF IsFold
<1>8. PICK h : P(h) /\ sum = h[1 .. n]
  <2> HIDE DEF P
  <2> QED
    BY <1>1, <1>7
<1>9. FoldsIn(h, n, V, 0, Step)
  <2>1. \A s \in SUBSET (1 .. n) : h[s] = IF s = {} THEN 0 ELSE Op(h, s)
    <3> HIDE DEF Op
    <3> QED
      BY <1>8
  <2> HIDE DEF P, Op
  <2> QED
    BY <1>5, <2>1 DEF FoldsIn
<1>10. PICK f \in [0 .. n -> V] : Takes(f, n, 0, Step) /\ EndsAs(f, n, h)
  BY <1>2, <1>4, <1>9, FoldSteps
<1>11. \A i \in 1 .. n : f[i] = f[i - 1] + slots[list[i]]
  <2> TAKE i \in 1 .. n
  <2>1. f[i - 1] \in V
    BY <1>2
  <2> QED
    BY <1>3, <1>10, <2>1 DEF Takes
<1>12. f[0] = 0
  BY <1>10 DEF Takes
<1>13. Sums(f, list, slots)
  BY <1>11, <1>12 DEF Sums, n
<1>14. sum = f[n]
  BY <1>8, <1>10 DEF EndsAs
<1> QED
  BY <1>13, <1>14 DEF n, V, sum

\* What a card was given is what it took away.
LEMMA AskedSlots ==
  ASSUME NEW selected \in Seq(Cards), NEW f \in [0 .. Len(selected) -> Asking], AsksInTurn(f, selected)
  PROVE  \A i \in 1 .. Len(selected) :
           /\ f[Len(selected)].slots[i] = 1 + (f[i - 1].left - f[i].left)
           /\ f[i].left <= f[i - 1].left /\ f[i].left \in Nat /\ f[i - 1].left \in Nat
<1> DEFINE n == Len(selected)
           Fine(i) == /\ Len(f[i].slots) = i
                      /\ \A j \in 1 .. i : f[i].slots[j] = 1 + (f[j - 1].left - f[j].left)
           S == {i \in Nat : i <= n => Fine(i)}
<1>0. n \in Nat /\ \A i \in 1 .. n : selected[i] \in Cards
  OBVIOUS
<1>1. \A i \in 0 .. n : f[i] \in Asking /\ f[i].left \in Nat /\ f[i].slots \in Seq(Nat)
  BY DEF Asking
<1>2. 0 \in S
  <2>1. f[0].slots = <<>>
    BY DEF AsksInTurn
  <2> QED
    BY <2>1
<1>3. \A i \in 1 .. n : /\ f[i - 1].left \in Nat /\ f[i].left \in Nat /\ f[i].left <= f[i - 1].left
                        /\ f[i].slots = Append(f[i - 1].slots, 1 + (f[i - 1].left - f[i].left))
  <2> TAKE i \in 1 .. n
  <2>1. i - 1 \in 0 .. n /\ i \in 0 .. n
    BY <1>0
  <2>2. f[i] = Asked1(f[i - 1], selected[i])
    BY DEF AsksInTurn
  <2>3. /\ f[i].left = f[i - 1].left - More(f[i - 1], selected[i])
        /\ f[i].slots = Append(f[i - 1].slots, 1 + More(f[i - 1], selected[i]))
        /\ More(f[i - 1], selected[i]) \in Nat /\ More(f[i - 1], selected[i]) <= f[i - 1].left
    BY <1>0, <1>1, <2>1, <2>2, AskingGoesOn
  <2> DEFINE was == f[i - 1].left
             so == f[i].left
             more == More(f[i - 1], selected[i])
  <2>4. was \in Nat /\ so \in Nat /\ more \in Nat /\ so = was - more
    BY <1>1, <2>1, <2>3
  <2>5. f[i].slots = Append(f[i - 1].slots, 1 + more)
    BY <2>3
  <2> HIDE DEF was, so, more
  <2>6. more = was - so /\ so <= was
    BY <2>4
  <2> QED
    BY <2>4, <2>5, <2>6 DEF was, so
<1>4. \A i \in S : i + 1 \in S
  <2> SUFFICES ASSUME NEW i \in S, i + 1 <= n PROVE Fine(i + 1)
    OBVIOUS
  <2> DEFINE j == i + 1
  <2>1. j \in 1 .. n /\ j - 1 = i /\ i \in 0 .. n /\ Fine(i) /\ i \in Nat
    BY <1>0
  <2>2. f[j].slots = Append(f[i].slots, 1 + (f[i].left - f[j].left)) /\ f[i].slots \in Seq(Nat)
    BY <1>1, <1>3, <2>1
  <2> HIDE DEF j
  <2>3. Len(f[j].slots) = j
    BY <2>1, <2>2
  <2>4. f[j].slots[j] = 1 + (f[i].left - f[j].left)
    BY <2>1, <2>2
  <2>5. \A k \in 1 .. i : f[j].slots[k] = f[i].slots[k]
    BY <2>1, <2>2
  <2>6. \A k \in 1 .. j : k = j \/ k \in 1 .. i
    BY <2>1
  <2>7. Fine(j)
    BY <2>1, <2>3, <2>4, <2>5, <2>6
  <2> QED
    BY <2>7 DEF j
<1>5. n \in S
  <2> HIDE DEF S
  <2> QED
    BY <1>0, <1>2, <1>4, EveryNumber
<1> HIDE DEF n
<1>6. Fine(n)
  BY <1>0, <1>5
<1> QED
  BY <1>0, <1>3, <1>6 DEF n

LEMMA PlaceIsThere ==
  ASSUME NEW selected \in Seq(Cards), IsInjective(selected), NEW i \in 1 .. Len(selected)
  PROVE  Place(selected, selected[i]) = i
<1>1. \A j \in 1 .. Len(selected) : selected[j] = selected[i] => j = i
  BY DEF IsInjective
<1> QED
  BY <1>1 DEF Place

\* What the first i cards get, when each has one more of the first r turns.
ByNow(i, all, so, q, r) == i + (all - so) + i * q + Least(i, r)
Share(i, was, so, q, r) == (1 + (was - so)) + (q + (IF i <= r THEN 1 ELSE 0))

LEMMA TurnsGoOn ==
  ASSUME NEW i \in Nat \ {0}, NEW q \in Nat, NEW r \in Nat, NEW so \in Nat, NEW was \in Nat,
         NEW all \in Nat, so <= was
  PROVE  ByNow(i - 1, all, was, q, r) + Share(i, was, so, q, r) = ByNow(i, all, so, q, r)
<1> DEFINE before == ByNow(i - 1, all, was, q, r)
<1>1. i * q = (i - 1) * q + q /\ (i - 1) * q \in Nat
  <2> DEFINE h == i - 1
  <2>1. h \in Nat /\ i = h + 1
    OBVIOUS
  <2>2. (h + 1) * q = h * q + q /\ h * q \in Nat
    <3> HIDE DEF h
    <3> QED
      BY <2>1, OnceMore
  <2> QED
    BY <2>1, <2>2
<1>2. Least(i, r) = Least(i - 1, r) + (IF i <= r THEN 1 ELSE 0) /\ Least(i - 1, r) \in Nat
  BY DEF Least
<1> DEFINE a == (i - 1) * q
           b == i * q
           c == Least(i - 1, r)
           d == IF i <= r THEN 1 ELSE 0
<1>3. d \in Nat /\ b = a + q /\ a \in Nat /\ c \in Nat /\ Least(i, r) = c + d
  BY <1>1, <1>2
<1>4. before = (i - 1) + (all - was) + a + c
  BY DEF ByNow
<1> HIDE DEF a, b, c, d, before
<1>5. before + ((1 + (was - so)) + (q + d)) = i + (all - so) + b + (c + d)
  BY <1>3, <1>4
<1> QED
  BY <1>3, <1>5 DEF b, d, before, ByNow, Share

\* All slots are allotted, one to each card at least.
LEMMA SlotsAreAllotted ==
  ASSUME NEW selected, InOrder(selected), selected # <<>>, NEW slots, slots = Allocation(selected)
  PROVE  /\ \A c \in Range(selected) : slots[c] >= 1
         /\ Allotted(selected, slots) = Slots
<1> DEFINE n == Len(selected)
           total == Allotted(selected, slots)
<1>1. selected \in Seq(Cards) /\ IsInjective(selected) /\ n <= Slots
  BY DEF InOrder
<1>2. n \in Nat \ {0} /\ Slots \in Nat /\ \A i \in 1 .. n : selected[i] \in Range(selected)
  BY <1>1, OutlineAssumption DEF Range
<1>3. PICK f \in [0 .. n -> Asking] :
        /\ AsksInTurn(f, selected)
        /\ slots = [c \in Range(selected) |-> Gets(f[n], n, Place(selected, c))]
  BY <1>1, AllocationRuns
<1> DEFINE left == f[n].left
           q == left \div n
           r == left % n
           all == Slots - n
<1>4. left \in Nat
  BY <1>2, <1>3 DEF Asking
<1>5. q \in Nat /\ r \in 0 .. n - 1 /\ left = n * q + r
  <2> HIDE DEF n, left
  <2> QED
    BY <1>2, <1>4, LeftOver
<1>6. \A i \in 1 .. n : /\ slots[selected[i]] = Share(i, f[i - 1].left, f[i].left, q, r)
                        /\ f[i].left <= f[i - 1].left /\ f[i].left \in Nat /\ f[i - 1].left \in Nat
  <2> TAKE i \in 1 .. n
  <2>1. Place(selected, selected[i]) = i
    BY <1>1, PlaceIsThere
  <2>2. slots[selected[i]] = Gets(f[n], n, i)
    BY <1>2, <1>3, <2>1
  <2>3. /\ f[n].slots[i] = 1 + (f[i - 1].left - f[i].left)
        /\ f[i].left <= f[i - 1].left /\ f[i].left \in Nat /\ f[i - 1].left \in Nat
    BY <1>1, <1>3, AskedSlots
  <2> QED
    BY <2>2, <2>3 DEF Gets, Share
<1>7. f[0].left = all /\ all \in Nat
  BY <1>1, <1>2, <1>3 DEF AsksInTurn
<1> HIDE DEF left, q, r, all
<1>8. \A i \in 1 .. n : slots[selected[i]] \in Nat /\ slots[selected[i]] >= 1
  <2> HIDE DEF n
  <2> TAKE i \in 1 .. n
  <2> DEFINE d == IF i <= r THEN 1 ELSE 0
  <2>1. d \in Nat /\ slots[selected[i]] = (1 + (f[i - 1].left - f[i].left)) + (q + d)
    BY <1>6 DEF Share
  <2>2. f[i - 1].left - f[i].left \in Nat
    BY <1>6
  <2> HIDE DEF d
  <2> QED
    BY <1>5, <2>1, <2>2
<1>9. PICK g \in [0 .. n -> Nat] : Sums(g, selected, slots) /\ total = g[n]
  BY <1>1, <1>8, SumRuns
<1> DEFINE Sum(i) == ByNow(i, all, f[i].left, q, r)
           S == {i \in Nat : i <= n => g[i] = Sum(i)}
<1> HIDE DEF total
<1>10. 0 \in S
  <2>1. g[0] = 0
    BY <1>9 DEF Sums
  <2>2. Least(0, r) = 0
    BY <1>5 DEF Least
  <2>3. 0 * q = 0
    BY <1>5
  <2> QED
    BY <1>7, <2>1, <2>2, <2>3 DEF ByNow
<1>11. \A i \in S : i + 1 \in S
  <2> SUFFICES ASSUME NEW i \in S, i + 1 <= n PROVE g[i + 1] = Sum(i + 1)
    OBVIOUS
  <2> DEFINE j == i + 1
             d == IF j <= r THEN 1 ELSE 0
  <2>1. j \in 1 .. n /\ j - 1 = i /\ i \in 0 .. n
    BY <1>2
  <2>2. g[i] = Sum(i)
    BY <1>2
  <2> HIDE DEF n, j
  <2>3. g[j] = g[i] + slots[selected[j]]
    BY <1>9, <2>1 DEF Sums, n
  <2>4. /\ slots[selected[j]] = Share(j, f[i].left, f[j].left, q, r)
        /\ f[j].left <= f[i].left /\ f[j].left \in Nat /\ f[i].left \in Nat
    BY <1>6, <2>1
  <2>5. Sum(i) + Share(j, f[i].left, f[j].left, q, r) = Sum(j)
    <3>1. j \in Nat \ {0} /\ q \in Nat /\ r \in Nat /\ all \in Nat
      BY <1>5, <1>7, <2>1
    <3>2. ByNow(j - 1, all, f[i].left, q, r) + Share(j, f[i].left, f[j].left, q, r)
            = ByNow(j, all, f[j].left, q, r)
      <4> DEFINE was == f[i].left
                 so == f[j].left
      <4>1. was \in Nat /\ so \in Nat /\ so <= was
        BY <2>4
      <4> HIDE DEF was, so
      <4>2. ByNow(j - 1, all, was, q, r) + Share(j, was, so, q, r) = ByNow(j, all, so, q, r)
        BY <3>1, <4>1, TurnsGoOn
      <4> QED
        BY <4>2 DEF was, so
    <3> QED
      BY <2>1, <3>2
  <2>6. g[j] = Sum(j)
    BY <2>2, <2>3, <2>4, <2>5
  <2> QED
    BY <2>6 DEF j
<1>12. g[n] = Sum(n)
  <2>1. n \in S
    <3> HIDE DEF S
    <3> QED
      BY <1>2, <1>10, <1>11, EveryNumber
  <2> QED
    BY <1>2, <2>1
<1>13. Sum(n) = Slots
  <2>1. Least(n, r) = r
    BY <1>2, <1>5 DEF Least
  <2> DEFINE p == n * q
  <2>2. p \in Nat
    BY <1>2, <1>5
  <2>3. f[n].left = p + r /\ all = Slots - n /\ Sum(n) = n + (all - f[n].left) + p + r
    BY <1>5, <2>1 DEF left, all, ByNow
  <2> HIDE DEF p, n, Sum
  <2> QED
    BY <1>2, <1>5, <2>2, <2>3
<1>14. total = Slots
  BY <1>9, <1>12, <1>13
<1>15. \A c \in Range(selected) : \E i \in 1 .. n : c = selected[i]
  BY <1>1 DEF Range
<1>16. \A c \in Range(selected) : slots[c] >= 1
  BY <1>8, <1>15
<1> QED
  BY <1>14, <1>16 DEF total

-----------------------------------------------------------------------------
(* Outlines *)

\* What an outline consists of.
OutlineOf(s, gaps) ==
  [cards |-> s, chapters |-> Chapters(s), slots |-> Allocation(s), gaps |-> gaps]

\* A selection that is in order, and covers every goal.
Covering(s) == /\ InOrder(s) /\ s # <<>>
               /\ \A g \in DOMAIN Goals : \E c \in Range(s) : Covers(c, g)

WellMade(outline) == \E s, gaps : Covering(s) /\ outline = OutlineOf(s, gaps)

\* A chapter has the cards taught in it, and a card what it presupposes before it,
\* unless that covers a later goal or none.
LEMMA ChaptersFollow ==
  ASSUME NEW s, InOrder(s), NEW chapters, chapters = Chapters(s),
         NEW g \in DOMAIN chapters, NEW i \in DOMAIN chapters[g],
         NEW p \in Range(PrerequisitesOf[chapters[g][i]])
  PROVE  p \in Range(s) /\ (TaughtBefore(chapters, p, g, i) \/ BelongsLater(p, g))
<1> DEFINE n == Len(Goals)
           Of(h) == {c \in Range(s) : TaughtIn(c, h)}
<1>0. n \in Nat
  BY OutlineAssumption
<1>1. s \in Seq(Cards) /\ IsInjective(s) /\ PrerequisitesFirst(s)
  BY DEF InOrder
<1>2. DOMAIN chapters = 1 .. n + 1 /\ \A h \in 1 .. n + 1 : chapters[h] = Among(s, Of(h))
  BY DEF Chapters
<1> HIDE DEF n
<1>3. \A h \in 1 .. n + 1 : chapters[h] \in Seq(Cards) /\ Range(chapters[h]) = Of(h)
  <2> TAKE h \in 1 .. n + 1
  <2> DEFINE of == Of(h)
  <2>1. Range(s) \cap of = of
    OBVIOUS
  <2>2. chapters[h] = Among(s, of)
    BY <1>2
  <2> HIDE DEF Of, of
  <2>3. Among(s, of) \in Seq(Cards) /\ Range(Among(s, of)) = Range(s) \cap of
    BY <1>1, AmongKeeps
  <2> QED
    BY <2>1, <2>2, <2>3 DEF of
<1> DEFINE c == chapters[g][i]
<1>4. g \in 1 .. n + 1 /\ c \in Of(g)
  BY <1>2, <1>3 DEF Range
<1>5. PICK x \in DOMAIN s : c = s[x]
  BY <1>4 DEF Range
<1>6. p \in {s[h] : h \in 1 .. x - 1}
  <2>1. x \in 1 .. Len(s) /\ p \in Range(PrerequisitesOf[s[x]])
    BY <1>1, <1>5
  <2> QED
    BY <1>1, <2>1 DEF PrerequisitesFirst
<1>7. PICK y \in 1 .. x - 1 : p = s[y]
  BY <1>6
<1>8. y \in DOMAIN s /\ p \in Range(s)
  BY <1>1, <1>7 DEF Range
<1>9. PICK h \in 1 .. n + 1 : TaughtIn(p, h)
  BY OneChapter DEF n
<1>10. p \in Of(h)
  BY <1>8, <1>9
<1>11. CASE h < g
  <2>1. p \in Range(chapters[h]) /\ h \in 1 .. g - 1
    BY <1>0, <1>3, <1>4, <1>9, <1>10, <1>11
  <2> QED
    BY <1>8, <2>1 DEF TaughtBefore
<1>12. CASE h = g
  <2> DEFINE of == Of(g)
  <2>1. s[y] \in of /\ chapters[g] = Among(s, of) /\ i \in DOMAIN chapters[g]
    BY <1>2, <1>4, <1>7, <1>10, <1>12
  <2>2. i \in DOMAIN Among(s, of) /\ Among(s, of)[i] = s[x]
    BY <1>5, <2>1
  <2> HIDE DEF of, c
  <2>3. \E l \in 1 .. i - 1 : Among(s, of)[l] = s[y]
    BY <1>1, <1>5, <1>7, <2>1, <2>2, AmongInOrder
  <2>4. \E l \in 1 .. i - 1 : chapters[g][l] = p
    BY <1>7, <2>1, <2>3
  <2> QED
    BY <1>8, <2>4 DEF TaughtBefore
<1>13. CASE g < h
  <2>1. \A e \in 1 .. h - 1 : ~Covers(p, e)
    BY <1>9 DEF TaughtIn
  <2>2. \A e \in 1 .. Least(g, Len(Goals)) : e \in 1 .. h - 1
    BY <1>0, <1>4, <1>9, <1>13 DEF Least, n
  <2> QED
    BY <1>8, <2>1, <2>2 DEF BelongsLater
<1> QED
  BY <1>0, <1>4, <1>9, <1>11, <1>12, <1>13

LEMMA CoveringIsTeachable ==
  ASSUME NEW s, Covering(s), NEW gaps
  PROVE  Teachable(OutlineOf(s, gaps))
<1> DEFINE chapters == Chapters(s)
           slots == Allocation(s)
           outline == OutlineOf(s, gaps)
<1>0. /\ InOrder(s) /\ s # <<>>
      /\ \A g \in DOMAIN Goals : \E c \in Range(s) : Covers(c, g)
  BY DEF Covering
<1>1. outline.cards = s /\ outline.chapters = chapters /\ outline.slots = slots
  BY DEF OutlineOf
<1> HIDE DEF chapters, slots, outline
<1>2. /\ chapters \in Seq(Seq(Cards)) /\ Len(chapters) = Len(Goals) + 1
      /\ IsInjective(FlattenSeq(chapters)) /\ Range(FlattenSeq(chapters)) = Range(s)
      /\ \A g \in DOMAIN Goals, c \in Range(s) :
           Covers(c, g) => \E h \in 1 .. g : Goals[h] = Goals[g] /\ chapters[h] # <<>>
  BY <1>0, ChaptersTeach DEF chapters
<1>3. \A g \in DOMAIN Goals : \E h \in 1 .. g : Goals[h] = Goals[g] /\ chapters[h] # <<>>
  BY <1>0, <1>2
<1>4. /\ \A c \in Range(s) : slots[c] >= 1
      /\ Allotted(s, slots) = Slots
  BY <1>0, SlotsAreAllotted DEF slots
<1>5. IsInjective(s)
  BY <1>0 DEF InOrder
<1>6. Teachable(outline)
  <2>1. Taught(outline) = FlattenSeq(chapters)
    BY <1>1 DEF Taught
  <2>2. IsInjective(outline.cards) /\ IsInjective(Taught(outline))
    BY <1>1, <1>2, <1>5, <2>1
  <2>3. Range(Taught(outline)) = Range(outline.cards)
    BY <1>1, <1>2, <2>1
  <2>4. \A g \in DOMAIN outline.chapters : \A i \in DOMAIN outline.chapters[g] :
          \A p \in Range(PrerequisitesOf[outline.chapters[g][i]]) :
            /\ p \in Range(outline.cards)
            /\ TaughtBefore(outline.chapters, p, g, i) \/ BelongsLater(p, g)
    BY <1>0, <1>1, ChaptersFollow DEF chapters
  <2>5. \A g \in DOMAIN Goals : \E h \in 1 .. g : Goals[h] = Goals[g] /\ outline.chapters[h] # <<>>
    BY <1>1, <1>3
  <2>6. \A c \in Range(outline.cards) : outline.slots[c] >= 1
    BY <1>1, <1>4
  <2>7. Allotted(outline.cards, outline.slots) = Slots
    BY <1>1, <1>4
  <2> QED
    BY <2>2, <2>3, <2>4, <2>5, <2>6, <2>7, Zenon DEF Teachable
<1> QED
  BY <1>6 DEF outline

LEMMA ComposedIsWellMade ==
  ASSUME NEW hits \in Seq(Seq(Cards)), Len(hits) = Len(Goals), NEW alive,
         NEW included \in Seq(Cards), NEW excluded,
         NEW outline, outline = Composed(hits, alive, included, excluded),
         outline # NoOutline, ~outline.gaps
  PROVE  WellMade(outline)
<1> DEFINE available == (UNION {Range(hits[g]) : g \in DOMAIN hits}) \ excluded
           first == Selection(hits, available)
           all == WithIncluded(first, included, available)
<1>1. /\ all.what = "taken" /\ all.selected # <<>>
      /\ outline = OutlineOf(all.selected, Gaps(all))
  BY DEF Composed, OutlineOf
<1> HIDE DEF available
<1>2. /\ first \in Selections /\ InOrder(first.selected)
      /\ first.what # "cycle" => \A g \in DOMAIN Goals : Accounted(first, g)
  BY SelectionSelects
<1> HIDE DEF first
<1>3. /\ InOrder(all.selected)
      /\ Range(first.selected) \subseteq Range(all.selected) /\ all.uncovered = first.uncovered
      /\ first.what = "cycle" => all.what = "cycle"
  BY <1>2, WithIncludedSelects
<1> HIDE DEF all
<1>4. all.uncovered = {}
  BY <1>1 DEF OutlineOf, Gaps
<1>5. \A g \in DOMAIN Goals : \E c \in Range(all.selected) : Covers(c, g)
  BY <1>1, <1>2, <1>3, <1>4 DEF Accounted
<1>6. Covering(all.selected)
  BY <1>1, <1>3, <1>5 DEF Covering
<1> QED
  BY <1>1, <1>6 DEF WellMade

-----------------------------------------------------------------------------
(* Composing *)

\* What a compose job has: hits that are lists of cards, and then an outline that is
\* well made, unless it has gaps.
Composes(job) ==
  /\ job.at = "retrieving" => job.hits \in Seq(Seq(Cards))
  /\ job.at = "prepared" => job.outline.gaps \/ WellMade(job.outline)

Teaches == /\ DOMAIN composing = Composers /\ \A c \in Composers : Composes(composing[c])
           /\ \A o \in DOMAIN outlines : WellMade(outlines[o])

\* One job is changed, and it still composes.
LEMMA JobChanges ==
  ASSUME Teaches, NEW c \in Composers, NEW job, Composes(job),
         composing' = [composing EXCEPT ![c] = job], outlines' = outlines
  PROVE  Teaches'
<1>1. DOMAIN composing' = Composers
  BY DEF Teaches
<1>2. \A d \in Composers : composing'[d] = IF d = c THEN job ELSE composing[d]
  BY DEF Teaches
<1>3. \A d \in Composers : Composes(composing'[d])
  BY <1>2 DEF Teaches
<1>4. \A o \in DOMAIN outlines' : WellMade(outlines'[o])
  BY DEF Teaches
<1> QED
  BY <1>1, <1>3, <1>4 DEF Teaches, Composes, WellMade

LEMMA IdleComposes == Composes(Idle)
<1>1. Idle.at = "idle"
  BY DEF Idle
<1> QED
  BY <1>1 DEF Composes

LEMMA RetrieveTeaches == ASSUME Teaches, NEW c \in Composers, RetrieveFor(c) PROVE Teaches'
<1> DEFINE hits == IF composing[c].at = "retrieving" THEN composing[c].hits ELSE <<>>
           found == Search(Len(hits) + 1, live)
           job == [at |-> "retrieving", hits |-> Append(hits, found)]
<1>1. /\ Len(hits) < Len(Goals) /\ composing' = [composing EXCEPT ![c] = job]
      /\ outlines' = outlines
  BY DEF RetrieveFor
<1>2. hits \in Seq(Seq(Cards))
  BY DEF Teaches, Composes
<1>3. found \in Seq(Cards)
  <2> DEFINE g == Len(hits) + 1
  <2>1. g \in DOMAIN RankOf
    BY <1>1, <1>2, OutlineAssumption
  <2> HIDE DEF g
  <2>2. RankOf[g] \in Seq(Cards)
    BY <2>1, OutlineAssumption
  <2>3. Search(g, live) \in Seq(Cards)
    BY <2>2, AmongKeeps DEF Search
  <2> QED
    BY <2>3 DEF g
<1> HIDE DEF hits, found
<1>4. Composes(job)
  BY <1>2, <1>3 DEF Composes
<1> HIDE DEF job
<1> QED
  BY <1>1, <1>4, JobChanges

LEMMA PrepareTeaches == ASSUME Teaches, NEW c \in Composers, PrepareFor(c) PROVE Teaches'
<1> DEFINE hits == composing[c].hits
           outline == Composed(hits, live, IncludedBy[c], ExcludedBy[c])
           job == IF outline = NoOutline THEN Idle ELSE [at |-> "prepared", outline |-> outline]
<1>1. /\ composing[c].at = "retrieving" /\ Len(hits) = Len(Goals)
      /\ composing' = [composing EXCEPT ![c] = job] /\ outlines' = outlines
  BY DEF PrepareFor
<1>2. hits \in Seq(Seq(Cards)) /\ IncludedBy[c] \in Seq(Cards)
  BY <1>1, PublicationAssumption DEF Teaches, Composes
<1> HIDE DEF hits
<1>3. outline # NoOutline => outline.gaps \/ WellMade(outline)
  BY <1>1, <1>2, ComposedIsWellMade
<1> HIDE DEF outline
<1>4. Composes(job)
  <2>1. CASE outline = NoOutline
    BY <2>1, IdleComposes
  <2>2. CASE outline # NoOutline
    <3>1. job.at = "prepared" /\ job.outline = outline
      BY <2>2
    <3> HIDE DEF job
    <3> QED
      BY <1>3, <2>2, <3>1 DEF Composes
  <2> QED
    BY <2>1, <2>2
<1> HIDE DEF job
<1> QED
  BY <1>1, <1>4, JobChanges

LEMMA RegisterTeaches == ASSUME Teaches, NEW c \in Composers, RegisterFor(c) PROVE Teaches'
<1> DEFINE o == VersionOf[c]
           outline == composing[c].outline
           done == [at |-> "committed"]
<1>1. Composes(done)
  BY DEF Composes
<1>2. CASE ~MayRegister(o, outline)
  BY <1>2, IdleComposes, JobChanges DEF RegisterFor
<1>3. CASE MayRegister(o, outline)
  <2>1. /\ composing[c].at = "prepared"
        /\ composing' = [composing EXCEPT ![c] = done]
        /\ outlines' = Plus([x \in {o} |-> outline], outlines)
    BY <1>3 DEF RegisterFor
  <2>2. WellMade(outline)
    BY <1>3, <2>1 DEF MayRegister, Teaches, Composes
  <2> HIDE DEF o, outline
  <2>3. /\ DOMAIN outlines' = {o} \cup DOMAIN outlines /\ outlines'[o] = outline
        /\ \A p \in DOMAIN outlines : p # o => outlines'[p] = outlines[p]
    BY <2>1 DEF Plus
  <2>4. \A p \in DOMAIN outlines' : WellMade(outlines'[p])
    BY <2>2, <2>3 DEF Teaches
  <2> HIDE DEF done
  <2>5. DOMAIN composing' = Composers
    BY <2>1 DEF Teaches
  <2>6. \A d \in Composers : composing'[d] = IF d = c THEN done ELSE composing[d]
    BY <2>1 DEF Teaches
  <2>7. \A d \in Composers : Composes(composing'[d])
    BY <1>1, <2>6 DEF Teaches
  <2> QED
    BY <2>4, <2>5, <2>7 DEF Teaches, Composes, WellMade
<1> QED
  BY <1>2, <1>3

LEMMA InitTeaches == Init => Teaches
<1> SUFFICES ASSUME Init PROVE Teaches
  OBVIOUS
<1>1. DOMAIN composing = Composers /\ \A c \in Composers : composing[c] = Idle
  BY DEF Init
<1>2. DOMAIN outlines = {}
  BY DEF Init, Empty
<1> QED
  BY <1>1, <1>2, IdleComposes DEF Teaches

LEMMA StepTeaches == ASSUME Teaches, [Next]_vars PROVE Teaches'
<1>1. CASE \E c \in Composers : RunCompose(c)
  BY <1>1, RetrieveTeaches, PrepareTeaches, RegisterTeaches DEF RunCompose
<1>2. CASE UNCHANGED <<composing, outlines>>
  BY <1>2 DEF Teaches, Composes, WellMade
<1>3. CASE UNCHANGED courseVars
  BY <1>2, <1>3 DEF courseVars
<1>4. CASE CourseNext /\ ~\E c \in Composers : RunCompose(c)
  BY <1>2, <1>4 DEF CourseNext, Withdraw, Return, OpenReview, CloseReview, Change, RunConfirm,
                    RunAttach, RunPublishCourse
<1>5. CASE Next /\ ~CourseNext
  BY <1>3, <1>5 DEF Next, RunSearchJob, RunAcquireJob, RunRevalidateJob
<1>6. CASE UNCHANGED vars
  BY <1>3, <1>6 DEF vars
<1> QED
  BY <1>1, <1>4, <1>5, <1>6

\* OutlineIsTeachable: every outline that is ever registered can be taught, whatever
\* cards were withdrawn while it was composed (_compose_from_retrievals,
\* register_course_outline).
THEOREM OutlinesAreTeachable == Spec => []OutlineIsTeachable
<1>1. Teaches /\ [Next]_vars => Teaches'
  BY StepTeaches
<1>2. Teaches => OutlineIsTeachable
  BY CoveringIsTeachable DEF Teaches, WellMade, OutlineIsTeachable
<1> QED
  BY <1>1, <1>2, InitTeaches, PTL DEF Spec

-----------------------------------------------------------------------------
(* What a deck shows *)

LEMMA NothingInSeq == SetToSeq({}) = <<>>
<1>1. Cardinality({}) = 0
  BY FS_EmptySet
<1>2. 1 .. Cardinality({}) = {}
  BY <1>1
<1>3. \A f \in [{} -> {}] : f = <<>>
  OBVIOUS
<1>4. <<>> \in [{} -> {}] /\ IsInjective(<<>>)
  BY DEF IsInjective
<1> QED
  BY <1>2, <1>3, <1>4 DEF SetToSeq

LEMMA OneInSeq == ASSUME NEW p PROVE SetToSeq({p}) = <<p>>
<1>1. Cardinality({p}) = 1
  BY FS_Singleton
<1>2. 1 .. Cardinality({p}) = {1}
  BY <1>1
<1>3. \A f \in [{1} -> {p}] : f = <<p>>
  OBVIOUS
<1>4. <<p>> \in [{1} -> {p}] /\ IsInjective(<<p>>)
  BY DEF IsInjective
<1> QED
  BY <1>2, <1>3, <1>4 DEF SetToSeq

\* A run of _walk_nodes: what is shown up to each card.
Walks(f, taught, deck) ==
  f[0] = <<>> /\ \A i \in 1 .. Len(taught) : f[i] = f[i - 1] \o SetToSeq(deck[taught[i]])

AreLists(deck, taught, U) == \A i \in 1 .. Len(taught) : SetToSeq(deck[taught[i]]) \in Seq(U)

LEMMA ShownRuns ==
  ASSUME NEW T, NEW taught \in Seq(T), NEW U, NEW deck, AreLists(deck, taught, U)
  PROVE  \E f \in [0 .. Len(taught) -> Seq(U)] :
           Walks(f, taught, deck) /\ ShownIn(taught, deck) = f[Len(taught)]
<1> DEFINE n == Len(taught)
           V == Seq(U)
           at(i) == SetToSeq(deck[taught[i]])
           Step == [x \in V \X (1 .. n) |-> x[1] \o at(x[2])]
           Op(h, s) == h[s \ {Max(s)}] \o at(Max(s))
           P(h) == h = [s \in SUBSET (1 .. n) |-> IF s = {} THEN <<>> ELSE Op(h, s)]
<1>1. ShownIn(taught, deck) = (CHOOSE h : P(h))[1 .. n]
  <2>1. DOMAIN taught = 1 .. n
    OBVIOUS
  <2>2. ShownIn(taught, deck)
          = (CHOOSE h : h = [s \in SUBSET (DOMAIN taught) |-> IF s = {} THEN <<>> ELSE Op(h, s)])[DOMAIN taught]
    BY DEF ShownIn, FoldLeft, MapThenFoldSet
  <2> HIDE DEF n
  <2> QED
    BY <2>1, <2>2
<1>2. n \in Nat /\ <<>> \in V /\ \A i \in 1 .. n : at(i) \in V
  BY DEF AreLists
<1> HIDE DEF n, at
<1>3. \A v \in V, i \in 1 .. n : Step[<<v, i>>] = v \o at(i)
  OBVIOUS
<1>4. Step \in [V \X (1 .. n) -> V]
  <2>1. \A x \in V \X (1 .. n) : x[1] \o at(x[2]) \in V
    BY <1>2
  <2> QED
    BY <2>1
<1> HIDE DEF V, Step
<1>5. \A h, s : s \in SUBSET (1 .. n) /\ s # {} /\ h[s \ {Max(s)}] \in V
                => Op(h, s) = Step[<<h[s \ {Max(s)}], Max(s)>>]
  BY <1>2, <1>3, GreatestPlace
<1>6. PICK e \in [SUBSET (1 .. n) -> V] : IsFold(e, n, <<>>, Step)
  BY <1>2, <1>4, FoldExists
<1>7. P(e)
  <2>1. \A s \in SUBSET (1 .. n) : s # {} => e[s \ {Max(s)}] \in V
    BY <1>2, GreatestPlace
  <2>2. \A s \in SUBSET (1 .. n) : s # {} => Op(e, s) = Step[<<e[s \ {Max(s)}], Max(s)>>]
    BY <1>5, <2>1
  <2> HIDE DEF Op
  <2> QED
    BY <1>6, <2>2 DEF IsFold
<1>8. PICK h : P(h) /\ ShownIn(taught, deck) = h[1 .. n]
  <2> HIDE DEF P
  <2> QED
    BY <1>1, <1>7
<1>9. FoldsIn(h, n, V, <<>>, Step)
  <2>1. \A s \in SUBSET (1 .. n) : h[s] = IF s = {} THEN <<>> ELSE Op(h, s)
    <3> HIDE DEF Op
    <3> QED
      BY <1>8
  <2> HIDE DEF P, Op
  <2> QED
    BY <1>5, <2>1 DEF FoldsIn
<1>10. PICK f \in [0 .. n -> V] : Takes(f, n, <<>>, Step) /\ EndsAs(f, n, h)
  BY <1>2, <1>4, <1>9, FoldSteps
<1>11. \A i \in 1 .. n : f[i] = f[i - 1] \o at(i)
  <2> TAKE i \in 1 .. n
  <2>1. f[i - 1] \in V
    BY <1>2
  <2> QED
    BY <1>3, <1>10, <2>1 DEF Takes
<1>12. f[0] = <<>>
  BY <1>10 DEF Takes
<1>13. Walks(f, taught, deck)
  BY <1>11, <1>12 DEF Walks, n, at
<1>14. ShownIn(taught, deck) = f[n]
  BY <1>8, <1>10 DEF EndsAs
<1> QED
  BY <1>13, <1>14 DEF n, V

-----------------------------------------------------------------------------
(* The order of the slides *)

\* One is on an earlier card than the other.
Before(x, y, on, taught) ==
  \E m, n \in DOMAIN taught : m < n /\ taught[m] = on[x] /\ taught[n] = on[y]

InOrderOf(list, on, taught) ==
  \A i, j \in DOMAIN list : i < j => Before(list[i], list[j], on, taught)

LEMMA OneIsBefore ==
  ASSUME NEW T, NEW taught \in Seq(T), IsInjective(taught), NEW on, NEW x, NEW y,
         Before(x, y, on, taught), Before(y, x, on, taught)
  PROVE  FALSE
<1>1. PICK m, n \in DOMAIN taught : m < n /\ taught[m] = on[x] /\ taught[n] = on[y]
  BY DEF Before
<1>2. PICK k, l \in DOMAIN taught : k < l /\ taught[k] = on[y] /\ taught[l] = on[x]
  BY DEF Before
<1>3. m = l /\ n = k
  BY <1>1, <1>2 DEF IsInjective
<1>4. DOMAIN taught = 1 .. Len(taught)
  OBVIOUS
<1> QED
  BY <1>1, <1>2, <1>3, <1>4

\* Two lists of the same in the same order agree as far as both go.
LEMMA OrdersAgree ==
  ASSUME NEW T, NEW taught \in Seq(T), IsInjective(taught), NEW on,
         NEW W, NEW a \in Seq(W), NEW b \in Seq(W), IsInjective(a), IsInjective(b), Range(a) = Range(b),
         InOrderOf(a, on, taught), InOrderOf(b, on, taught)
  PROVE  \A i \in Nat : i <= Len(a) /\ i <= Len(b) => \A j \in 1 .. i : a[j] = b[j]
<1> DEFINE Same(i) == \A j \in 1 .. i : a[j] = b[j]
           S == {i \in Nat : i <= Len(a) /\ i <= Len(b) => Same(i)}
<1>0. /\ DOMAIN a = 1 .. Len(a) /\ DOMAIN b = 1 .. Len(b)
      /\ Len(a) \in Nat /\ Len(b) \in Nat
  OBVIOUS
<1>1. 0 \in S
  OBVIOUS
<1>2. \A i \in Nat : i \in S => i + 1 \in S
  <2> SUFFICES ASSUME NEW i \in Nat, i \in S, i + 1 <= Len(a), i + 1 <= Len(b) PROVE Same(i + 1)
    <3> HIDE DEF Same
    <3> QED
      OBVIOUS
  <2> DEFINE k == i + 1
  <2>1. k \in Nat /\ k \in DOMAIN a /\ k \in DOMAIN b /\ i \in Nat /\ Same(i)
    BY <1>0
  <2>2. \A j \in 1 .. k : j = k \/ j \in 1 .. i
    BY <2>1
  <2>3. \A j \in Nat : j < k /\ j # 0 => j \in 1 .. i
    BY <2>1
  <2> HIDE DEF k
  <2>4. ASSUME a[k] # b[k] PROVE FALSE
    <3>1. PICK m \in DOMAIN b : b[m] = a[k]
      BY <2>1 DEF Range
    <3>2. PICK l \in DOMAIN a : a[l] = b[k]
      BY <2>1 DEF Range
    <3>3. ~(m < k)
      <4> SUFFICES ASSUME m < k PROVE FALSE
        OBVIOUS
      <4>1. m \in 1 .. i
        BY <1>0, <2>3
      <4>2. a[m] = a[k] /\ m \in DOMAIN a
        BY <1>0, <2>1, <3>1, <4>1
      <4>3. m = k
        BY <2>1, <4>2 DEF IsInjective
      <4> QED
        BY <1>0, <2>1, <4>3
    <3>4. ~(l < k)
      <4> SUFFICES ASSUME l < k PROVE FALSE
        OBVIOUS
      <4>1. l \in 1 .. i
        BY <1>0, <2>3
      <4>2. b[l] = b[k] /\ l \in DOMAIN b
        BY <1>0, <2>1, <3>2, <4>1
      <4>3. l = k
        BY <2>1, <4>2 DEF IsInjective
      <4> QED
        BY <1>0, <2>1, <4>3
    <3>5. k < m /\ k < l
      BY <1>0, <2>1, <2>4, <3>1, <3>2, <3>3, <3>4
    <3>6. Before(b[k], b[m], on, taught) /\ Before(a[k], a[l], on, taught)
      BY <2>1, <3>5 DEF InOrderOf
    <3> QED
      BY <3>1, <3>2, <3>6, OneIsBefore
  <2>5. Same(k)
    BY <2>1, <2>2, <2>4
  <2> QED
    BY <2>5 DEF k
<1>3. \A i \in Nat : i \in S
  <2> HIDE DEF S
  <2> QED
    BY <1>1, <1>2, EveryNumber
<1> QED
  BY <1>3

\* A list does not go on after all of its members.
LEMMA NoneIsLonger ==
  ASSUME NEW W, NEW a \in Seq(W), NEW b \in Seq(W), IsInjective(b), Range(b) \subseteq Range(a),
         \A i \in Nat : i <= Len(a) /\ i <= Len(b) => \A j \in 1 .. i : a[j] = b[j]
  PROVE  Len(b) <= Len(a)
<1> DEFINE n == Len(a)
<1> SUFFICES ASSUME n < Len(b) PROVE FALSE
  OBVIOUS
<1>1. n \in Nat /\ n + 1 \in DOMAIN b /\ DOMAIN a = 1 .. n /\ n <= Len(b) /\ DOMAIN b = 1 .. Len(b)
  OBVIOUS
<1>2. PICK j \in 1 .. n : a[j] = b[n + 1]
  BY <1>1 DEF Range
<1>3. b[j] = b[n + 1] /\ j \in DOMAIN b
  BY <1>1, <1>2
<1>4. j = n + 1
  BY <1>1, <1>3 DEF IsInjective
<1> QED
  BY <1>1, <1>4

LEMMA OrderIsOne ==
  ASSUME NEW T, NEW taught \in Seq(T), IsInjective(taught), NEW on,
         NEW W, NEW a \in Seq(W), NEW b \in Seq(W), IsInjective(a), IsInjective(b), Range(a) = Range(b),
         InOrderOf(a, on, taught), InOrderOf(b, on, taught)
  PROVE  a = b
<1>1. \A i \in Nat : i <= Len(a) /\ i <= Len(b) => \A j \in 1 .. i : a[j] = b[j]
  BY OrdersAgree
<1>2. Len(b) <= Len(a)
  BY <1>1, NoneIsLonger
<1>3. \A i \in Nat : i <= Len(b) /\ i <= Len(a) => \A j \in 1 .. i : b[j] = a[j]
  BY <1>1
<1>4. Len(a) <= Len(b)
  BY <1>3, NoneIsLonger
<1>5. Len(a) = Len(b) /\ Len(a) \in Nat
  BY <1>2, <1>4
<1>6. \A j \in 1 .. Len(a) : a[j] = b[j]
  BY <1>1, <1>5
<1> QED
  BY <1>5, <1>6

\* What is shown, when each placement has a card of its own.
LEMMA ShownAreInOrder ==
  ASSUME NEW T, NEW taught \in Seq(T), IsInjective(taught), NEW W, NEW on,
         \A p, q \in W : on[p] = on[q] => p = q, \A p \in W : on[p] \in Range(taught),
         NEW deck, \A c \in Range(taught) : deck[c] = {p \in W : on[p] = c},
         NEW shown, shown = ShownIn(taught, deck)
  PROVE  /\ shown \in Seq(W) /\ IsInjective(shown) /\ Range(shown) = W
         /\ InOrderOf(shown, on, taught)
<1> DEFINE n == Len(taught)
<1>0. n \in Nat /\ DOMAIN taught = 1 .. n /\ \A i \in 1 .. n : taught[i] \in Range(taught)
  BY DEF Range
<1> HIDE DEF n
<1>1. \A i \in 1 .. n : \/ SetToSeq(deck[taught[i]]) = <<>> /\ \A p \in W : on[p] # taught[i]
                        \/ \E p \in W : on[p] = taught[i] /\ SetToSeq(deck[taught[i]]) = <<p>>
  <2> TAKE i \in 1 .. n
  <2>1. deck[taught[i]] = {p \in W : on[p] = taught[i]}
    BY <1>0
  <2>2. CASE \A p \in W : on[p] # taught[i]
    <3>1. deck[taught[i]] = {}
      BY <2>1, <2>2
    <3> QED
      BY <2>2, <3>1, NothingInSeq
  <2>3. ASSUME NEW p \in W, on[p] = taught[i]
        PROVE  SetToSeq(deck[taught[i]]) = <<p>>
    <3>1. deck[taught[i]] = {p}
      BY <2>1, <2>3
    <3> QED
      BY <3>1, OneInSeq
  <2> QED
    BY <2>2, <2>3
<1>2. AreLists(deck, taught, W)
  <2>1. <<>> \in Seq(W) /\ \A p \in W : <<p>> \in Seq(W)
    OBVIOUS
  <2>2. \A i \in 1 .. n : SetToSeq(deck[taught[i]]) \in Seq(W)
    <3> TAKE i \in 1 .. n
    <3> DEFINE list == SetToSeq(deck[taught[i]])
    <3>1. list = <<>> \/ \E p \in W : list = <<p>>
      BY <1>1
    <3> HIDE DEF list
    <3>2. list \in Seq(W)
      BY <2>1, <3>1
    <3> QED
      BY <3>2 DEF list
  <2> QED
    BY <2>2 DEF AreLists, n
<1>3. PICK f \in [0 .. n -> Seq(W)] : Walks(f, taught, deck) /\ shown = f[n]
  BY <1>2, ShownRuns DEF n
<1> DEFINE Upto(i) == {p \in W : \E m \in 1 .. i : on[p] = taught[m]}
           Fine(i) == /\ IsInjective(f[i]) /\ Range(f[i]) = Upto(i)
                      /\ InOrderOf(f[i], on, taught)
           S == {i \in Nat : i <= n => Fine(i)}
<1>4. 0 \in S
  <2>1. f[0] = <<>>
    BY <1>3 DEF Walks
  <2>2. Upto(0) = {}
    OBVIOUS
  <2>3. IsInjective(<<>>) /\ Range(<<>>) = {} /\ InOrderOf(<<>>, on, taught)
    BY DEF IsInjective, Range, InOrderOf
  <2> HIDE DEF Upto
  <2> QED
    BY <2>1, <2>2, <2>3
<1>5. \A i \in Nat : i \in S => i + 1 \in S
  <2> SUFFICES ASSUME NEW i \in Nat, i \in S, i + 1 <= n PROVE Fine(i + 1)
    <3> HIDE DEF Fine
    <3> QED
      OBVIOUS
  <2> DEFINE k == i + 1
  <2>1. k \in 1 .. n /\ k - 1 = i /\ i \in 0 .. n /\ Fine(i)
    <3> HIDE DEF Fine
    <3> QED
      BY <1>0
  <2>2. \A m \in 1 .. k : m = k \/ m \in 1 .. i
    BY <2>1
  <2>3. \A m \in 1 .. i : m \in 1 .. k /\ m < k /\ m \in 1 .. n
    BY <1>0, <2>1
  <2> HIDE DEF k, Upto
  <2>4. k \in 1 .. k
    BY <1>0, <2>1
  <2>5. f[i] \in Seq(W) /\ f[k] = f[i] \o SetToSeq(deck[taught[k]])
    BY <1>3, <2>1 DEF Walks, n
  <2>6. CASE SetToSeq(deck[taught[k]]) = <<>> /\ \A p \in W : on[p] # taught[k]
    <3>1. f[k] = f[i]
      BY <2>5, <2>6
    <3>2. Upto(k) = Upto(i)
      BY <2>2, <2>3, <2>6 DEF Upto
    <3> QED
      BY <2>1, <3>1, <3>2 DEF k
  <2>7. ASSUME NEW p \in W, on[p] = taught[k], SetToSeq(deck[taught[k]]) = <<p>>
        PROVE  Fine(k)
    <3>1. f[k] = Append(f[i], p)
      BY <2>5, <2>7
    <3>2. p \notin Upto(i)
      <4> SUFFICES ASSUME NEW m \in 1 .. i, on[p] = taught[m] PROVE FALSE
        BY DEF Upto
      <4>1. m = k
        BY <1>0, <2>1, <2>3, <2>7 DEF IsInjective
      <4> QED
        BY <2>3, <4>1
    <3>3. Upto(k) = Upto(i) \cup {p}
      <4>1. \A q \in W : on[q] = taught[k] => q = p
        BY <2>7
      <4>2. ASSUME NEW q \in Upto(k) PROVE q \in Upto(i) \cup {p}
        <5>1. PICK m \in 1 .. k : on[q] = taught[m] /\ q \in W
          BY DEF Upto
        <5>2. CASE m = k
          BY <4>1, <5>1, <5>2
        <5>3. CASE m \in 1 .. i
          BY <5>1, <5>3 DEF Upto
        <5> QED
          BY <2>2, <5>1, <5>2, <5>3
      <4>3. Upto(i) \subseteq Upto(k)
        BY <2>3 DEF Upto
      <4>4. p \in Upto(k)
        BY <2>4, <2>7 DEF Upto
      <4> QED
        BY <4>2, <4>3, <4>4
    <3>4. IsInjective(f[k]) /\ Range(f[k]) = Range(f[i]) \cup {p}
      BY <2>1, <2>5, <3>1, <3>2, OneMore
    <3> DEFINE l == Len(f[i])
    <3>5. /\ DOMAIN f[k] = 1 .. l + 1 /\ f[k][l + 1] = p /\ l \in Nat
          /\ \A m \in 1 .. l : f[k][m] = f[i][m] /\ m \in DOMAIN f[i] /\ f[i][m] \in Range(f[i])
      BY <2>5, <3>1 DEF Range
    <3>6. InOrderOf(f[k], on, taught)
      <4> SUFFICES ASSUME NEW a \in DOMAIN f[k], NEW b \in DOMAIN f[k], a < b
                   PROVE  Before(f[k][a], f[k][b], on, taught)
        BY DEF InOrderOf
      <4>1. a \in 1 .. l /\ (b \in 1 .. l \/ b = l + 1)
        BY <3>5
      <4> HIDE DEF l
      <4>2. CASE b \in 1 .. l
        BY <2>1, <3>5, <4>1, <4>2 DEF InOrderOf
      <4>3. CASE b = l + 1
        <5>1. f[k][b] = p /\ f[k][a] \in Upto(i)
          BY <2>1, <3>5, <4>1, <4>3
        <5>2. PICK m \in 1 .. i : on[f[k][a]] = taught[m]
          BY <5>1 DEF Upto
        <5> QED
          BY <1>0, <2>1, <2>3, <2>7, <5>1, <5>2 DEF Before
      <4> QED
        BY <4>1, <4>2, <4>3
    <3> QED
      BY <2>1, <3>3, <3>4, <3>6
  <2>8. Fine(k)
    BY <1>1, <2>1, <2>6, <2>7 DEF k
  <2> QED
    BY <2>8 DEF k
<1>6. Fine(n)
  <2>1. n \in S
    <3> HIDE DEF S
    <3> QED
      BY <1>0, <1>4, <1>5, EveryNumber
  <2> QED
    BY <1>0, <2>1
<1>7. Upto(n) = W
  <2>1. ASSUME NEW p \in W PROVE \E m \in 1 .. n : on[p] = taught[m]
    <3>1. on[p] \in Range(taught)
      OBVIOUS
    <3> QED
      BY <1>0, <3>1 DEF Range
  <2> QED
    BY <2>1
<1> QED
  BY <1>0, <1>3, <1>6, <1>7

\* The same, of slides that show each of W on its card.
Slides(taught, W, on, deck) ==
  /\ \A p, q \in W : on[p] = on[q] => p = q
  /\ \A p \in W : on[p] \in Range(taught)
  /\ \A c \in Range(taught) : deck[c] = {p \in W : on[p] = c}

ShowsAll(shown, taught, W, on) ==
  /\ shown \in Seq(W) /\ IsInjective(shown) /\ Range(shown) = W
  /\ InOrderOf(shown, on, taught)

LEMMA SlidesShow ==
  ASSUME NEW T, NEW taught \in Seq(T), IsInjective(taught), NEW W, NEW on, NEW deck,
         Slides(taught, W, on, deck)
  PROVE  ShowsAll(ShownIn(taught, deck), taught, W, on)
<1> DEFINE shown == ShownIn(taught, deck)
<1>1. /\ \A p, q \in W : on[p] = on[q] => p = q
      /\ \A p \in W : on[p] \in Range(taught)
      /\ \A c \in Range(taught) : deck[c] = {p \in W : on[p] = c}
  BY DEF Slides
<1>2. ShowsAll(shown, taught, W, on)
  <2>1. shown = ShownIn(taught, deck)
    OBVIOUS
  <2> HIDE DEF shown
  <2> QED
    BY <1>1, <2>1, ShownAreInOrder DEF ShowsAll
<1> QED
  BY <1>2


-----------------------------------------------------------------------------
(* A list without repetitions *)

\* A run of Once: what is kept up to each place.
KeepsOnce(f, list) ==
  /\ f[0] = <<>>
  /\ \A i \in 1 .. Len(list) :
       f[i] = IF Contains(f[i - 1], list[i]) THEN f[i - 1] ELSE Append(f[i - 1], list[i])

LEMMA OnceRuns ==
  ASSUME NEW T, NEW list \in Seq(T)
  PROVE  \E f \in [0 .. Len(list) -> Seq(T)] : KeepsOnce(f, list) /\ Once(list) = f[Len(list)]
<1> DEFINE n == Len(list)
           V == Seq(T)
           Kept(v, a) == IF Contains(v, a) THEN v ELSE Append(v, a)
           Step == [x \in V \X (1 .. n) |-> Kept(x[1], list[x[2]])]
           Op(h, s) == Kept(h[s \ {Max(s)}], list[Max(s)])
           P(h) == h = [s \in SUBSET (1 .. n) |-> IF s = {} THEN <<>> ELSE Op(h, s)]
<1>1. Once(list) = (CHOOSE h : P(h))[1 .. n]
  <2>1. DOMAIN list = 1 .. n
    OBVIOUS
  <2>2. Once(list) = (CHOOSE h : h = [s \in SUBSET (DOMAIN list) |-> IF s = {} THEN <<>> ELSE Op(h, s)])[DOMAIN list]
    BY DEF Once, FoldLeft, MapThenFoldSet
  <2> HIDE DEF n
  <2> QED
    BY <2>1, <2>2
<1>2. n \in Nat /\ <<>> \in V /\ \A v \in V, i \in 1 .. n : Kept(v, list[i]) \in V
  OBVIOUS
<1> HIDE DEF Kept
<1>3. \A v \in V, i \in 1 .. n : Step[<<v, i>>] = Kept(v, list[i])
  OBVIOUS
<1>4. Step \in [V \X (1 .. n) -> V]
  <2> HIDE DEF V, n
  <2>1. \A x \in V \X (1 .. n) : Kept(x[1], list[x[2]]) \in V
    BY <1>2
  <2> QED
    BY <2>1
<1> HIDE DEF n, V, Step
<1>5. \A h, s : s \in SUBSET (1 .. n) /\ s # {} /\ h[s \ {Max(s)}] \in V
                => Op(h, s) = Step[<<h[s \ {Max(s)}], Max(s)>>]
  BY <1>2, <1>3, GreatestPlace
<1>6. PICK e \in [SUBSET (1 .. n) -> V] : IsFold(e, n, <<>>, Step)
  BY <1>2, <1>4, FoldExists
<1>7. P(e)
  <2>1. \A s \in SUBSET (1 .. n) : s # {} => e[s \ {Max(s)}] \in V
    BY <1>2, GreatestPlace
  <2>2. \A s \in SUBSET (1 .. n) : s # {} => Op(e, s) = Step[<<e[s \ {Max(s)}], Max(s)>>]
    BY <1>5, <2>1
  <2> HIDE DEF Op
  <2> QED
    BY <1>6, <2>2 DEF IsFold
<1>8. PICK h : P(h) /\ Once(list) = h[1 .. n]
  <2> HIDE DEF P
  <2> QED
    BY <1>1, <1>7
<1>9. FoldsIn(h, n, V, <<>>, Step)
  <2>1. \A s \in SUBSET (1 .. n) : h[s] = IF s = {} THEN <<>> ELSE Op(h, s)
    <3> HIDE DEF Op
    <3> QED
      BY <1>8
  <2> HIDE DEF P, Op
  <2> QED
    BY <1>5, <2>1 DEF FoldsIn
<1>10. PICK f \in [0 .. n -> V] : Takes(f, n, <<>>, Step) /\ EndsAs(f, n, h)
  BY <1>2, <1>4, <1>9, FoldSteps
<1>11. \A i \in 1 .. n : f[i] = Kept(f[i - 1], list[i])
  <2> TAKE i \in 1 .. n
  <2>1. f[i - 1] \in V
    BY <1>2
  <2> QED
    BY <1>3, <1>10, <2>1 DEF Takes
<1>12. f[0] = <<>>
  BY <1>10 DEF Takes
<1>13. KeepsOnce(f, list)
  BY <1>11, <1>12 DEF KeepsOnce, n, Kept
<1>14. Once(list) = f[n]
  BY <1>8, <1>10 DEF EndsAs
<1> QED
  BY <1>13, <1>14 DEF n, V

LEMMA OnceKeepsAll ==
  ASSUME NEW T, NEW list \in Seq(T)
  PROVE  IsInjective(Once(list)) /\ Range(Once(list)) = Range(list)
<1>1. PICK f \in [0 .. Len(list) -> Seq(T)] : KeepsOnce(f, list) /\ Once(list) = f[Len(list)]
  BY OnceRuns
<1> DEFINE n == Len(list)
           Upto(i) == {list[j] : j \in 1 .. i}
           Fine(i) == Range(f[i]) = Upto(i) /\ IsInjective(f[i])
           S == {i \in Nat : i <= n => Fine(i)}
<1>0. n \in Nat /\ DOMAIN list = 1 .. n /\ \A i \in 1 .. n : list[i] \in T
  OBVIOUS
<1>2. 0 \in S
  <2>1. f[0] = <<>>
    BY <1>1 DEF KeepsOnce
  <2>2. Upto(0) = {}
    OBVIOUS
  <2>3. Range(<<>>) = {} /\ IsInjective(<<>>)
    BY DEF Range, IsInjective
  <2> HIDE DEF Upto
  <2> QED
    BY <2>1, <2>2, <2>3
<1>3. \A i \in Nat : i \in S => i + 1 \in S
  <2> SUFFICES ASSUME NEW i \in Nat, i \in S, i + 1 <= n PROVE Fine(i + 1)
    <3> HIDE DEF Fine
    <3> QED
      OBVIOUS
  <2> DEFINE k == i + 1
  <2>1. k \in 1 .. n /\ k - 1 = i /\ i \in 0 .. n /\ Fine(i) /\ list[k] \in T
    BY <1>0
  <2>2. Upto(k) = Upto(i) \cup {list[k]}
    <3>1. 1 .. k = (1 .. i) \cup {k}
      BY <2>1
    <3> HIDE DEF k
    <3> QED
      BY <3>1
  <2> HIDE DEF k, n, Upto
  <2>3. f[k] = IF Contains(f[i], list[k]) THEN f[i] ELSE Append(f[i], list[k])
    BY <1>1, <2>1 DEF KeepsOnce, n
  <2>4. f[i] \in Seq(T)
    BY <1>1, <2>1 DEF n
  <2>5. Contains(f[i], list[k]) <=> list[k] \in Range(f[i])
    <3> DEFINE v == f[i]
    <3>1. v \in Seq(T)
      BY <2>4
    <3> HIDE DEF v
    <3>2. DOMAIN v = 1 .. Len(v)
      BY <3>1
    <3>3. Contains(v, list[k]) <=> list[k] \in Range(v)
      BY <3>2 DEF Contains, Range
    <3> QED
      BY <3>3 DEF v
  <2>6. CASE list[k] \in Range(f[i])
    <3>1. f[k] = f[i]
      BY <2>3, <2>5, <2>6
    <3> QED
      BY <2>1, <2>2, <2>6, <3>1 DEF k
  <2>7. CASE list[k] \notin Range(f[i])
    <3>1. f[k] = Append(f[i], list[k])
      BY <2>3, <2>5, <2>7
    <3>2. IsInjective(f[k]) /\ Range(f[k]) = Range(f[i]) \cup {list[k]}
      BY <2>1, <2>4, <2>7, <3>1, OneMore
    <3> QED
      BY <2>1, <2>2, <3>2 DEF k
  <2>8. Fine(k)
    BY <2>6, <2>7 DEF k
  <2> QED
    BY <2>8 DEF k
<1>4. Fine(n)
  <2>1. n \in S
    <3> HIDE DEF S
    <3> QED
      BY <1>0, <1>2, <1>3, EveryNumber
  <2> QED
    BY <1>0, <2>1
<1>5. Upto(n) = Range(list)
  BY <1>0 DEF Range
<1> QED
  BY <1>1, <1>4, <1>5

-----------------------------------------------------------------------------
(* Where a course goes back to *)

LEMMA RootOfPath ==
  ASSUME Chained, NEW k \in DOMAIN courses
  PROVE  Root(k) = <<k[1]>>
<1> DEFINE D == DOMAIN courses
           Up(up) == [x \in D |-> IF courses[x].parent = <<>> THEN x ELSE up[courses[x].parent]]
           Leads(up) == up = Up(up)
           first == [x \in D |-> <<x[1]>>]
<1>1. Root(k) = (CHOOSE up : Leads(up))[k]
  BY DEF Root
<1>2. \A x \in D : x \in Seq(Steps) /\ x # <<>> /\ Len(x) \in Nat /\ Len(x) # 0
  BY DEF Chained, CourseTyped
<1>3. \A x \in D : courses[x].parent = <<>> => x = <<x[1]>>
  BY DEF Chained, PathsLead
<1>4. ASSUME NEW x \in D, courses[x].parent # <<>>
      PROVE  LET up == courses[x].parent IN up \in D /\ up[1] = x[1] /\ Len(up) < Len(x)
  <2> DEFINE up == courses[x].parent
  <2>1. up \in D /\ \E asked \in Asked : x = Append(up, asked)
    BY <1>4 DEF Chained, PathsLead
  <2> HIDE DEF up
  <2>2. PICK asked \in Asked : x = Append(up, asked)
    BY <2>1
  <2>3. up \in Seq(Steps) /\ Len(up) \in Nat /\ Len(up) # 0
    BY <1>2, <2>1
  <2>4. up[1] = x[1] /\ Len(up) < Len(x)
    BY <2>2, <2>3
  <2> QED
    BY <2>1, <2>4 DEF up
<1>5. Leads(first)
  <2>1. \A x \in D : first[x] = Up(first)[x]
    BY <1>3, <1>4
  <2>2. first = [x \in D |-> first[x]] /\ Up(first) = [x \in D |-> Up(first)[x]]
    OBVIOUS
  <2> HIDE DEF first, Up
  <2> QED
    BY <2>1, <2>2
<1>6. PICK up : Leads(up) /\ Root(k) = up[k]
  <2> HIDE DEF Leads
  <2> QED
    BY <1>1, <1>5
<1>7. \A x \in D : up[x] = IF courses[x].parent = <<>> THEN x ELSE up[courses[x].parent]
  BY <1>6
<1> HIDE DEF D
<1> DEFINE S == {i \in Nat : \A x \in D : Len(x) <= i => up[x] = <<x[1]>>}
<1>8. 0 \in S
  BY <1>2
<1>9. \A i \in Nat : i \in S => i + 1 \in S
  <2> SUFFICES ASSUME NEW i \in Nat, i \in S, NEW x \in D, Len(x) <= i + 1 PROVE up[x] = <<x[1]>>
    OBVIOUS
  <2>1. CASE courses[x].parent = <<>>
    BY <1>3, <1>7, <2>1
  <2>2. CASE courses[x].parent # <<>>
    <3> DEFINE above == courses[x].parent
    <3>1. above \in D /\ above[1] = x[1] /\ Len(above) < Len(x)
      BY <1>4, <2>2
    <3>2. up[x] = up[above]
      BY <1>7, <2>2
    <3> HIDE DEF above
    <3>3. Len(above) <= i
      BY <1>2, <3>1
    <3> QED
      BY <3>1, <3>2, <3>3
  <2> QED
    BY <2>1, <2>2
<1>10. Len(k) \in S
  <2>1. k \in D /\ Len(k) \in Nat
    BY <1>2 DEF D
  <2> HIDE DEF S
  <2> QED
    BY <1>8, <1>9, <2>1, EveryNumber
<1> QED
  BY <1>2, <1>6, <1>10 DEF D

-----------------------------------------------------------------------------
(* Editions *)

\* An edition of an outline, with what is placed: its deck shows its visuals, each on
\* the slide of its card, and its manifest lists their artifacts.
Carries(shown, place) == [i \in DOMAIN shown |-> ArtifactOf(place[shown[i]].visual)]

EditionFits(course, outline, place) ==
  LET W == Range(course.visuals)
  IN  /\ course.visuals \in Seq(DOMAIN place) /\ IsInjective(course.visuals)
      /\ \A p \in W : place[p].card \in Range(outline.cards)
      /\ \A p, q \in W : place[p].card = place[q].card => p = q
      /\ course.deck = [c \in Range(outline.cards) |-> {p \in W : place[p].card = c}]
      /\ course.manifest = Once(Carries(ShownIn(Taught(outline), course.deck), place))

\* The order of the slides of a well-made outline.
LEMMA WellMadeTeaches ==
  ASSUME NEW outline, WellMade(outline)
  PROVE  /\ Taught(outline) \in Seq(Cards) /\ IsInjective(Taught(outline))
         /\ Range(Taught(outline)) = Range(outline.cards)
         /\ outline.chapters \in Seq(Seq(Cards))
         /\ \E h \in DOMAIN outline.chapters : outline.chapters[h] # <<>>
<1>1. PICK s, gaps : Covering(s) /\ outline = OutlineOf(s, gaps)
  BY DEF WellMade
<1> DEFINE chapters == Chapters(s)
<1>2. outline.cards = s /\ outline.chapters = chapters
  BY <1>1 DEF OutlineOf
<1>3. /\ InOrder(s)
      /\ \A g \in DOMAIN Goals : \E c \in Range(s) : Covers(c, g)
  BY <1>1 DEF Covering
<1> HIDE DEF chapters
<1>4. /\ chapters \in Seq(Seq(Cards)) /\ Len(chapters) = Len(Goals) + 1
      /\ IsInjective(FlattenSeq(chapters)) /\ FlattenSeq(chapters) \in Seq(Cards)
      /\ Range(FlattenSeq(chapters)) = Range(s)
      /\ \A g \in DOMAIN Goals, c \in Range(s) :
           Covers(c, g) => \E h \in 1 .. g : Goals[h] = Goals[g] /\ chapters[h] # <<>>
  BY <1>3, ChaptersTeach DEF chapters
<1>5. 1 \in DOMAIN Goals /\ 1 \in DOMAIN chapters
  <2>1. Len(Goals) \in Nat /\ Len(Goals) # 0 /\ DOMAIN Goals = 1 .. Len(Goals)
    BY OutlineAssumption
  <2>2. DOMAIN chapters = 1 .. Len(Goals) + 1
    BY <1>4
  <2> QED
    BY <2>1, <2>2
<1>6. \E h \in 1 .. 1 : chapters[h] # <<>>
  BY <1>3, <1>4, <1>5
<1>7. chapters[1] # <<>>
  BY <1>6
<1> QED
  BY <1>2, <1>4, <1>5, <1>7 DEF Taught

LEMMA EditionShows ==
  ASSUME NEW course, NEW outline, NEW place, WellMade(outline), EditionFits(course, outline, place),
         NEW on, on = [p \in DOMAIN place |-> place[p].card],
         NEW shown, shown = ShownIn(Taught(outline), course.deck)
  PROVE  LET W == Range(course.visuals)
         IN  /\ W \subseteq DOMAIN place
             /\ shown \in Seq(W) /\ IsInjective(shown) /\ Range(shown) = W
             /\ InOrderOf(shown, on, Taught(outline))
<1> DEFINE W == Range(course.visuals)
           deck == course.deck
           taught == Taught(outline)
<1>1. taught \in Seq(Cards) /\ IsInjective(taught) /\ Range(taught) = Range(outline.cards)
  BY WellMadeTeaches
<1>2. W \subseteq DOMAIN place
  BY DEF EditionFits, Range
<1>3. /\ \A p \in W : on[p] = place[p].card
      /\ \A p \in W : on[p] \in Range(taught)
      /\ \A p, q \in W : on[p] = on[q] => p = q
  BY <1>1, <1>2 DEF EditionFits
<1>4. deck = [c \in Range(taught) |-> {p \in W : place[p].card = c}]
  BY <1>1 DEF EditionFits
<1> HIDE DEF W, deck, taught
<1>5. \A c \in Range(taught) : deck[c] = {p \in W : on[p] = c}
  BY <1>3, <1>4
<1>6. shown = ShownIn(taught, deck)
  BY DEF taught, deck
<1>7. shown \in Seq(W) /\ IsInjective(shown) /\ Range(shown) = W /\ InOrderOf(shown, on, taught)
  <2>1. Slides(taught, W, on, deck)
    BY <1>3, <1>5 DEF Slides
  <2>2. ShowsAll(ShownIn(taught, deck), taught, W, on)
    BY <1>1, <2>1, SlidesShow
  <2> QED
    BY <1>6, <2>2 DEF ShowsAll
<1> QED
  BY <1>2, <1>7 DEF W, taught

\* What was placed before stays so.
LEMMA FitsStill ==
  ASSUME NEW course, NEW outline, NEW place, WellMade(outline), EditionFits(course, outline, place),
         NEW then, \A p \in DOMAIN place : p \in DOMAIN then /\ then[p] = place[p]
  PROVE  EditionFits(course, outline, then)
<1> DEFINE W == Range(course.visuals)
           on == [p \in DOMAIN place |-> place[p].card]
           shown == ShownIn(Taught(outline), course.deck)
<1>1. W \subseteq DOMAIN place /\ Range(shown) = W
  <2> HIDE DEF on, shown
  <2> QED
    BY EditionShows DEF on, shown
<1>2. \A p \in W : then[p] = place[p]
  BY <1>1
<1>3. course.visuals \in Seq(DOMAIN then)
  <2>1. course.visuals \in Seq(DOMAIN place)
    BY DEF EditionFits
  <2>2. DOMAIN place \subseteq DOMAIN then
    OBVIOUS
  <2> QED
    BY <2>1, <2>2
<1>4. Carries(shown, then) = Carries(shown, place)
  <2>1. \A i \in DOMAIN shown : shown[i] \in W
    BY <1>1 DEF Range
  <2> HIDE DEF shown, W
  <2> QED
    BY <1>2, <2>1 DEF Carries
<1>5. [c \in Range(outline.cards) |-> {p \in W : place[p].card = c}]
        = [c \in Range(outline.cards) |-> {p \in W : then[p].card = c}]
  <2>1. \A c : {p \in W : place[p].card = c} = {p \in W : then[p].card = c}
    BY <1>2
  <2> HIDE DEF W
  <2> QED
    BY <2>1
<1>6. /\ IsInjective(course.visuals)
      /\ \A p \in W : place[p].card \in Range(outline.cards)
      /\ \A p, q \in W : place[p].card = place[q].card => p = q
      /\ course.deck = [c \in Range(outline.cards) |-> {p \in W : place[p].card = c}]
      /\ course.manifest = Once(Carries(shown, place))
  BY DEF EditionFits
<1>7. /\ \A p \in W : then[p].card \in Range(outline.cards)
      /\ \A p, q \in W : then[p].card = then[q].card => p = q
  BY <1>2, <1>6
<1>8. /\ course.deck = [c \in Range(outline.cards) |-> {p \in W : then[p].card = c}]
      /\ course.manifest = Once(Carries(shown, then))
  BY <1>4, <1>5, <1>6
<1> QED
  BY <1>3, <1>6, <1>7, <1>8 DEF EditionFits

-----------------------------------------------------------------------------
(* What was built stands *)

\* A course has the outline of the confirmed course it goes back to.
GoesBack(k) ==
  /\ <<k[1]>> \in DOMAIN courses /\ courses[k].outline = courses[<<k[1]>>].outline
  /\ courses[k].outline \in DOMAIN outlines

\* A placement is on a slide of a confirmed course, and of a visual that was acquired.
Stands(p) ==
  /\ placed[p].root \in DOMAIN courses
  /\ placed[p].card \in Range(outlines[courses[placed[p].root].outline].cards)
  /\ placed[p].visual \in DOMAIN acquired

Fits(k) == Published(k) => EditionFits(courses[k], outlines[courses[k].outline], placed)

ArtifactsAreStored == \A v \in DOMAIN acquired : ArtifactOf(v) \in DOMAIN artifacts

Standing ==
  /\ \A k \in DOMAIN courses : GoesBack(k) /\ Fits(k)
  /\ \A p \in DOMAIN placed : Stands(p)
  /\ IsFiniteSet(DOMAIN placed)
  /\ ArtifactsAreStored

\* A step takes nothing back.
Extends(was, then) == \A x \in DOMAIN was : x \in DOMAIN then /\ then[x] = was[x]

Grows ==
  /\ Extends(outlines, outlines') /\ Extends(courses, courses') /\ Extends(placed, placed')
  /\ DOMAIN acquired \subseteq DOMAIN acquired'

\* After such a step, only what is new is to be looked at.
LEMMA OnlyTheNew ==
  ASSUME Teaches, Standing, Grows,
         \A k \in DOMAIN courses' \ DOMAIN courses : GoesBack(k)' /\ Fits(k)',
         \A p \in DOMAIN placed' \ DOMAIN placed : Stands(p)',
         IsFiniteSet(DOMAIN placed'), ArtifactsAreStored'
  PROVE  Standing'
<1>1. ASSUME NEW k \in DOMAIN courses PROVE GoesBack(k)' /\ Fits(k)'
  <2> DEFINE o == courses[k].outline
  <2>1. /\ <<k[1]>> \in DOMAIN courses /\ o = courses[<<k[1]>>].outline /\ o \in DOMAIN outlines
        /\ Published(k) => EditionFits(courses[k], outlines[o], placed)
    BY DEF Standing, GoesBack, Fits
  <2>2. courses'[k] = courses[k]
    BY DEF Grows, Extends
  <2>3. /\ <<k[1]>> \in DOMAIN courses' /\ courses'[<<k[1]>>] = courses[<<k[1]>>]
        /\ o \in DOMAIN outlines' /\ outlines'[o] = outlines[o]
    BY <2>1 DEF Grows, Extends
  <2>4. GoesBack(k)'
    BY <2>1, <2>2, <2>3 DEF GoesBack
  <2>5. WellMade(outlines[o])
    BY <2>1 DEF Teaches
  <2>6. \A p \in DOMAIN placed : p \in DOMAIN placed' /\ placed'[p] = placed[p]
    BY DEF Grows, Extends
  <2>7. ASSUME Published(k) PROVE EditionFits(courses[k], outlines[o], placed')
    <3> HIDE DEF o
    <3>1. EditionFits(courses[k], outlines[o], placed)
      BY <2>1, <2>7
    <3> DEFINE outline == outlines[o]
               course == courses[k]
               place == placed
               then == placed'
    <3>2. WellMade(outline) /\ EditionFits(course, outline, place)
      BY <2>5, <3>1
    <3>3. \A p \in DOMAIN place : p \in DOMAIN then /\ then[p] = place[p]
      BY <2>6
    <3> HIDE DEF outline, course, place, then
    <3>4. EditionFits(course, outline, then)
      BY <3>2, <3>3, FitsStill
    <3> QED
      BY <3>4 DEF outline, course, then
  <2>8. Fits(k)'
    BY <2>2, <2>3, <2>7 DEF Fits, Published, EditionFits
  <2> QED
    BY <2>4, <2>8
<1>2. ASSUME NEW p \in DOMAIN placed PROVE Stands(p)'
  <2> DEFINE root == placed[p].root
             o == courses[root].outline
  <2>1. /\ root \in DOMAIN courses /\ placed[p].card \in Range(outlines[o].cards)
        /\ placed[p].visual \in DOMAIN acquired
    BY DEF Standing, Stands
  <2>2. o \in DOMAIN outlines
    BY <2>1 DEF Standing, GoesBack
  <2>3. /\ placed'[p] = placed[p]
        /\ root \in DOMAIN courses' /\ courses'[root] = courses[root]
        /\ outlines'[o] = outlines[o] /\ placed[p].visual \in DOMAIN acquired'
    BY <2>1, <2>2 DEF Grows, Extends
  <2> QED
    BY <2>1, <2>3 DEF Stands
<1> QED
  BY <1>1, <1>2 DEF Standing

-----------------------------------------------------------------------------
(* The steps *)

LEMMA NothingNew ==
  ASSUME UNCHANGED <<outlines, courses, placed>>, DOMAIN acquired \subseteq DOMAIN acquired'
  PROVE  Grows
BY DEF Grows, Extends

\* A step of the courses leaves the artifacts alone.
LEMMA ArtifactsStay ==
  ASSUME ArtifactsAreStored, UNCHANGED visualVars
  PROVE  ArtifactsAreStored' /\ DOMAIN acquired \subseteq DOMAIN acquired'
BY DEF ArtifactsAreStored, visualVars

LEMMA VisualsGrow ==
  ASSUME ArtifactsAreStored, Next, ~CourseNext
  PROVE  ArtifactsAreStored' /\ DOMAIN acquired \subseteq DOMAIN acquired'
<1>1. CASE UNCHANGED <<artifacts, acquired>>
  BY <1>1 DEF ArtifactsAreStored
<1>2. ASSUME NEW now, NEW valid, Keep(now, valid)
      PROVE  ArtifactsAreStored' /\ DOMAIN acquired \subseteq DOMAIN acquired'
  <2> DEFINE had == {VisualOf(c) : c \in valid} \ DOMAIN acquired
             stored == Plus(artifacts, [a \in {ArtifactOf(v) : v \in had} |-> now])
             from == [v \in had |-> CHOOSE c \in valid : VisualOf(c) = v]
  <2>1. artifacts' = stored /\ acquired' = Plus(acquired, from)
    BY <1>2 DEF Keep
  <2>2. DOMAIN stored = DOMAIN artifacts \cup {ArtifactOf(v) : v \in had}
    BY DEF Plus
  <2>3. DOMAIN acquired' = DOMAIN acquired \cup had
    BY <2>1 DEF Plus
  <2> HIDE DEF had, stored
  <2> QED
    BY <2>1, <2>2, <2>3 DEF ArtifactsAreStored
<1>3. CASE \/ Tick \/ (\E p \in Pages, s \in States : Turn(p, s)) \/ (\E now \in Now : Discover(now))
           \/ \E now \in Now, v \in Visuals : Revalidate(now, v)
  <2>1. UNCHANGED <<artifacts, acquired>>
    BY <1>3 DEF Tick, Turn, Discover, Revalidate
  <2> QED
    BY <1>1, <2>1
<1>4. ASSUME NEW now \in Now, NEW batch, Acquire(now, batch)
      PROVE  ArtifactsAreStored' /\ DOMAIN acquired \subseteq DOMAIN acquired'
  BY <1>1, <1>2, <1>4 DEF Acquire
<1> QED
  BY <1>3, <1>4 DEF Next, RunSearchJob, RunAcquireJob, RunRevalidateJob

LEMMA ComposeStands ==
  ASSUME Teaches, Standing, NEW c \in Composers, RunCompose(c)
  PROVE  Standing'
<1>1. UNCHANGED <<visualVars, courses, placed>>
  BY ComposeIsSound
<1>2. Extends(outlines, outlines')
  <2>1. CASE UNCHANGED outlines
    BY <2>1 DEF Extends
  <2>2. CASE RegisterFor(c)
    <3> DEFINE o == VersionOf[c]
               outline == composing[c].outline
    <3>1. CASE ~MayRegister(o, outline)
      BY <2>1, <2>2, <3>1 DEF RegisterFor
    <3>2. CASE MayRegister(o, outline)
      <4>1. outlines' = Plus([x \in {o} |-> outline], outlines)
        BY <2>2, <3>2 DEF RegisterFor
      <4>2. o \in DOMAIN outlines => outlines[o] = outline
        BY <3>2 DEF MayRegister
      <4> HIDE DEF o, outline
      <4> QED
        BY <4>1, <4>2 DEF Extends, Plus
    <3> QED
      BY <3>1, <3>2
  <2> QED
    BY <2>1, <2>2 DEF RunCompose, RetrieveFor, PrepareFor
<1>3. ArtifactsAreStored' /\ DOMAIN acquired \subseteq DOMAIN acquired'
  BY <1>1, ArtifactsStay DEF Standing
<1>4. Grows
  BY <1>1, <1>2, <1>3 DEF Grows, Extends
<1>5. IsFiniteSet(DOMAIN placed')
  BY <1>1 DEF Standing
<1> QED
  BY <1>1, <1>3, <1>4, <1>5, OnlyTheNew

LEMMA ConfirmStands ==
  ASSUME Chained, Teaches, Standing, NEW j \in Confirmers, RunConfirm(j)
  PROVE  Standing'
<1> DEFINE o == ConfirmedBy[j]
           course == [logical |-> CourseOf[j], revision |-> EditionOf[j], outline |-> o,
                      parent |-> <<>>, deck |-> Draft(o), visuals |-> <<>>, manifest |-> <<>>]
<1>1. /\ o \in DOMAIN outlines
      /\ courses' = WithCourse(<<j>>, course)
      /\ UNCHANGED <<visualVars, outlines, placed>>
  BY DEF RunConfirm, Confirmable
<1>2. course.outline = o /\ course.parent = <<>>
  OBVIOUS
<1> HIDE DEF course, o
<1>3. <<j>> \notin DOMAIN courses
  BY ConfirmKeeps
<1>4. /\ DOMAIN courses' = DOMAIN courses \cup {<<j>>}
      /\ courses'[<<j>>] = course
      /\ \A l \in DOMAIN courses : courses'[l] = courses[l]
  BY <1>1, <1>3, CourseAdded
<1>5. ArtifactsAreStored' /\ DOMAIN acquired \subseteq DOMAIN acquired'
  BY <1>1, ArtifactsStay DEF Standing
<1>6. Grows
  BY <1>1, <1>4, <1>5 DEF Grows, Extends
<1>7. ASSUME NEW k \in DOMAIN courses' \ DOMAIN courses PROVE GoesBack(k)' /\ Fits(k)'
  <2>1. k = <<j>> /\ k[1] = j
    BY <1>4
  <2>2. courses'[k].outline = o /\ courses'[k].parent = <<>> /\ o \in DOMAIN outlines'
    BY <1>1, <1>2, <1>4, <2>1
  <2>3. <<k[1]>> = k /\ k \in DOMAIN courses'
    BY <2>1
  <2> QED
    BY <2>2, <2>3 DEF GoesBack, Fits, Published
<1>8. IsFiniteSet(DOMAIN placed')
  BY <1>1 DEF Standing
<1> QED
  BY <1>1, <1>5, <1>6, <1>7, <1>8, OnlyTheNew

LEMMA AttachStands ==
  ASSUME Chained, Teaches, Standing, NEW p \in Placements, NEW k \in DOMAIN courses, NEW c, NEW v,
         RunAttach(p, k, c, v)
  PROVE  Standing'
<1> DEFINE o == courses[k].outline
           placement == [root |-> Root(k), card |-> c, visual |-> v, evidence |-> Evidence(v)]
<1>1. /\ p \notin DOMAIN placed
      /\ c \in Range(outlines[o].cards) /\ v \in DOMAIN acquired
      /\ placed' = Plus([x \in {p} |-> placement], placed)
      /\ UNCHANGED <<visualVars, outlines, courses>>
  BY DEF RunAttach, WithPlacement
<1>2. placement.root = Root(k) /\ placement.card = c /\ placement.visual = v
  OBVIOUS
<1>3. Root(k) = <<k[1]>>
  BY RootOfPath
<1>4. <<k[1]>> \in DOMAIN courses /\ o = courses[<<k[1]>>].outline
  BY DEF Standing, GoesBack
<1> HIDE DEF placement
<1>5. /\ DOMAIN placed' = DOMAIN placed \cup {p} /\ placed'[p] = placement
      /\ \A q \in DOMAIN placed : placed'[q] = placed[q]
  BY <1>1 DEF Plus
<1>6. ArtifactsAreStored' /\ DOMAIN acquired \subseteq DOMAIN acquired'
  BY <1>1, ArtifactsStay DEF Standing
<1>7. Grows
  BY <1>1, <1>5, <1>6 DEF Grows, Extends
<1>8. ASSUME NEW q \in DOMAIN placed' \ DOMAIN placed PROVE Stands(q)'
  <2>1. q = p
    BY <1>5
  <2>2. /\ placed'[q].root = <<k[1]>> /\ placed'[q].card = c /\ placed'[q].visual = v
    BY <1>2, <1>3, <1>5, <2>1
  <2>3. /\ <<k[1]>> \in DOMAIN courses' /\ v \in DOMAIN acquired'
        /\ c \in Range(outlines'[courses'[<<k[1]>>].outline].cards)
    BY <1>1, <1>4, <1>6
  <2> QED
    BY <2>2, <2>3 DEF Stands
<1>9. IsFiniteSet(DOMAIN placed')
  <2>1. IsFiniteSet(DOMAIN placed \cup {p})
    BY FS_AddElement DEF Standing
  <2> QED
    BY <1>5, <2>1
<1> QED
  BY <1>1, <1>6, <1>7, <1>8, <1>9, OnlyTheNew

\* An edition shows what was asked for.
LEMMA NewEditionFits ==
  ASSUME Chained, Standing, NEW D \in SUBSET DOMAIN placed, NEW asked \in SetToSeqs(D),
         NEW k \in DOMAIN courses, NEW now, MayPublish(k, Range(asked), now)
  PROVE  EditionFits(Edition(k, asked), outlines[courses[k].outline], placed)
<1> DEFINE edition == Edition(k, asked)
           o == courses[k].outline
           outline == outlines[o]
           W == Range(asked)
<1>1. /\ edition.visuals = asked
      /\ edition.deck = Bound(Draft(o), W)
      /\ edition.manifest = Manifest(Shown(o, edition.deck))
  <2>1. Shape(courses[k])
    BY DEF Chained, CourseTyped
  <2> QED
    BY <2>1, EditionFollows
<1>2. asked \in Seq(DOMAIN placed) /\ IsInjective(asked)
  <2>1. IsFiniteSet(D)
    BY FS_Subset DEF Standing
  <2>2. Cardinality(D) \in Nat
    BY <2>1, FS_CardinalityType
  <2>3. asked \in [1 .. Cardinality(D) -> D] /\ IsInjective(asked)
    BY DEF SetToSeqs, IsInjective
  <2> QED
    BY <2>2, <2>3
<1>3. W \subseteq DOMAIN placed
  BY <1>2 DEF Range
<1>4. \A p \in W : placed[p].card \in Range(outline.cards)
  <2> TAKE p \in W
  <2>1. placed[p].root = Root(k)
    BY DEF MayPublish
  <2>2. Root(k) = <<k[1]>>
    BY RootOfPath
  <2>3. courses[<<k[1]>>].outline = o
    BY DEF Standing, GoesBack
  <2>4. placed[p].card \in Range(outlines[courses[placed[p].root].outline].cards)
    BY <1>3 DEF Standing, Stands
  <2> QED
    BY <2>1, <2>2, <2>3, <2>4
<1>5. \A p, q \in W : placed[p].card = placed[q].card => p = q
  BY DEF MayPublish, SlotsAreFree
<1>6. Bound(Draft(o), W) = [c \in Range(outline.cards) |-> {p \in W : placed[p].card = c}]
  BY DEF Bound, Draft
<1>7. Manifest(Shown(o, edition.deck)) = Once(Carries(ShownIn(Taught(outline), edition.deck), placed))
  BY DEF Manifest, Shown, Carries
<1> HIDE DEF edition, outline
<1> QED
  BY <1>1, <1>2, <1>4, <1>5, <1>6, <1>7 DEF EditionFits, edition, outline

LEMMA PublishStands ==
  ASSUME Chained, PlacementsTyped, Teaches, Standing, NEW k \in DOMAIN courses, NEW now,
         NEW asked \in SetToAllKPermutations(DOMAIN placed), RunPublishCourse(k, asked, now)
  PROVE  Standing'
<1> DEFINE edition == Edition(k, asked)
           path == Append(k, asked)
           o == courses[k].outline
<1>1. PICK D \in SUBSET DOMAIN placed : asked \in SetToSeqs(D)
  BY DEF SetToAllKPermutations
<1>2. asked \in Asked
  BY DEF Asked, PlacementsTyped
<1>3. /\ MayPublish(k, Range(asked), now)
      /\ courses' = WithCourse(path, edition)
      /\ UNCHANGED <<visualVars, outlines, placed>>
  BY DEF RunPublishCourse
<1>4. path \notin DOMAIN courses
  BY <1>2, PublishKeeps
<1>5. EditionFits(edition, outlines[o], placed)
  BY <1>1, <1>3, NewEditionFits
<1>6. edition.outline = o
  <2>1. Shape(courses[k])
    BY DEF Chained, CourseTyped
  <2> QED
    BY <2>1, EditionFollows
<1>7. path[1] = k[1]
  <2>1. k \in Seq(Steps) /\ k # <<>>
    BY DEF Chained, CourseTyped
  <2> QED
    BY <2>1
<1>8. <<k[1]>> \in DOMAIN courses /\ o = courses[<<k[1]>>].outline /\ o \in DOMAIN outlines
  BY DEF Standing, GoesBack
<1> HIDE DEF edition, path, o
<1>9. /\ DOMAIN courses' = DOMAIN courses \cup {path}
      /\ courses'[path] = edition
      /\ \A l \in DOMAIN courses : courses'[l] = courses[l]
  BY <1>3, <1>4, CourseAdded
<1>10. ArtifactsAreStored' /\ DOMAIN acquired \subseteq DOMAIN acquired'
  BY <1>3, ArtifactsStay DEF Standing
<1>11. Grows
  BY <1>3, <1>9, <1>10 DEF Grows, Extends
<1>12. ASSUME NEW l \in DOMAIN courses' \ DOMAIN courses PROVE GoesBack(l)' /\ Fits(l)'
  <2>1. l = path
    BY <1>9
  <2>2. courses'[l] = edition /\ courses'[<<l[1]>>] = courses[<<k[1]>>] /\ <<l[1]>> \in DOMAIN courses'
    BY <1>7, <1>8, <1>9, <2>1
  <2>3. o \in DOMAIN outlines' /\ outlines' = outlines /\ placed' = placed
    BY <1>3, <1>8
  <2>4. GoesBack(l)'
    BY <1>6, <1>8, <2>2, <2>3 DEF GoesBack
  <2>5. EditionFits(courses'[l], outlines'[courses'[l].outline], placed')
    BY <1>5, <1>6, <2>2, <2>3
  <2> QED
    BY <2>4, <2>5 DEF Fits, EditionFits
<1>13. IsFiniteSet(DOMAIN placed')
  BY <1>3 DEF Standing
<1> QED
  BY <1>3, <1>10, <1>11, <1>12, <1>13, OnlyTheNew

\* A visual step adds visuals and artifacts.
LEMMA VisualsStanding ==
  ASSUME Teaches, Standing, Next, ~CourseNext
  PROVE  Standing'
<1>1. UNCHANGED courseVars
  BY DEF Next, RunSearchJob, RunAcquireJob, RunRevalidateJob
<1>2. UNCHANGED <<outlines, courses, placed>>
  BY <1>1 DEF courseVars
<1>3. ArtifactsAreStored' /\ DOMAIN acquired \subseteq DOMAIN acquired'
  BY VisualsGrow DEF Standing
<1>4. Grows
  BY <1>2, <1>3, NothingNew
<1>5. IsFiniteSet(DOMAIN placed')
  BY <1>2 DEF Standing
<1> QED
  BY <1>2, <1>3, <1>4, <1>5, OnlyTheNew

LEMMA NothingStands ==
  ASSUME Teaches, Standing, UNCHANGED <<visualVars, outlines, courses, placed>>
  PROVE  Standing'
<1>1. ArtifactsAreStored' /\ DOMAIN acquired \subseteq DOMAIN acquired'
  BY ArtifactsStay DEF Standing
<1>2. Grows
  BY <1>1, NothingNew
<1>3. IsFiniteSet(DOMAIN placed')
  BY DEF Standing
<1> QED
  BY <1>1, <1>2, <1>3, OnlyTheNew

LEMMA InitStands == Init => Standing
<1> SUFFICES ASSUME Init PROVE Standing
  OBVIOUS
<1>1. DOMAIN courses = {} /\ DOMAIN placed = {} /\ DOMAIN acquired = {}
  BY DEF Init, Empty, VisualsInit
<1>2. IsFiniteSet(DOMAIN placed)
  BY <1>1, FS_EmptySet
<1> QED
  BY <1>1, <1>2 DEF Standing, ArtifactsAreStored

LEMMA StepStands ==
  ASSUME IInv, Teaches, Standing, [Next]_vars
  PROVE  Standing'
<1>1. Chained /\ PlacementsTyped
  BY DEF IInv
<1>2. CASE \E c \in Composers : RunCompose(c)
  BY <1>2, ComposeStands
<1>3. CASE \E j \in Confirmers : RunConfirm(j)
  BY <1>1, <1>3, ConfirmStands
<1>4. CASE \E p \in Placements, k \in DOMAIN courses, v \in Visuals : RunAttach(p, k, Illustrates[p], v)
  BY <1>1, <1>4, AttachStands
<1>5. CASE \E asked \in SetToAllKPermutations(DOMAIN placed) :
             \E k \in DOMAIN courses, now \in Now : RunPublishCourse(k, asked, now)
  BY <1>1, <1>5, PublishStands
<1>6. CASE \/ \E c \in Withdrawable : Withdraw(c) \/ Return(c)
           \/ \E s \in Reviewable : OpenReview(s) \/ CloseReview(s)
  <2>1. UNCHANGED <<visualVars, outlines, courses, placed>>
    BY <1>6 DEF Withdraw, Return, OpenReview, CloseReview, Change
  <2> QED
    BY <2>1, NothingStands
<1>7. CASE Next /\ ~CourseNext
  BY <1>7, VisualsStanding
<1>8. CASE UNCHANGED vars
  <2>1. UNCHANGED <<visualVars, outlines, courses, placed>>
    BY <1>8 DEF vars, courseVars
  <2> QED
    BY <2>1, NothingStands
<1>9. CASE CourseNext
  BY <1>2, <1>3, <1>4, <1>5, <1>6, <1>9 DEF CourseNext
<1> QED
  BY <1>7, <1>8, <1>9

-----------------------------------------------------------------------------
(* Opening an edition *)

\* The artifacts an edition lists are those of what it shows.
LEMMA ManifestIsTransferable ==
  ASSUME NEW W, W \subseteq DOMAIN placed, NEW shown \in Seq(W), ArtifactsAreStored,
         \A p \in DOMAIN placed : placed[p].visual \in DOMAIN acquired
  PROVE  Transferable(Manifest(shown), shown)
<1> DEFINE list == [i \in DOMAIN shown |-> ArtifactOf(placed[shown[i]].visual)]
           T == {ArtifactOf(placed[p].visual) : p \in W}
<1>1. list \in Seq(T)
  <2>1. shown \in [1 .. Len(shown) -> W] /\ Len(shown) \in Nat
    OBVIOUS
  <2>2. list \in [1 .. Len(shown) -> T]
    BY <2>1
  <2> HIDE DEF list, T
  <2> QED
    BY <2>1, <2>2
<1>2. Range(list) = {ArtifactOf(placed[p].visual) : p \in Range(shown)}
  BY DEF Range
<1>3. Range(list) \subseteq DOMAIN artifacts
  <2>1. \A p \in Range(shown) : ArtifactOf(placed[p].visual) \in DOMAIN artifacts
    BY DEF Range, ArtifactsAreStored
  <2> HIDE DEF list
  <2> QED
    BY <1>2, <2>1
<1>4. Manifest(shown) = Once(list)
  BY DEF Manifest
<1> HIDE DEF list, T
<1>5. IsInjective(Once(list)) /\ Range(Once(list)) = Range(list)
  BY <1>1, OnceKeepsAll
<1> QED
  BY <1>2, <1>3, <1>4, <1>5 DEF Transferable

LEMMA LessonsAreThere ==
  ASSUME NEW o, WellMade(outlines[o])
  PROVE  Lessons(o) # <<>>
<1> DEFINE chapters == outlines[o].chapters
           some == Range(chapters) \ {<<>>}
<1>1. chapters \in Seq(Seq(Cards)) /\ \E h \in DOMAIN chapters : chapters[h] # <<>>
  BY WellMadeTeaches
<1>2. PICK h \in DOMAIN chapters : chapters[h] # <<>>
  BY <1>1
<1>3. chapters[h] \in some
  BY <1>2 DEF Range
<1>4. Lessons(o) = Among(chapters, some)
  BY DEF Lessons
<1> HIDE DEF chapters, some
<1>5. Range(Among(chapters, some)) = Range(chapters) \cap some
  BY <1>1, AmongKeeps
<1>6. chapters[h] \in Range(Among(chapters, some))
  BY <1>2, <1>3, <1>5 DEF Range
<1> QED
  BY <1>4, <1>6 DEF Range

LEMMA SlideOrderIsInOrder ==
  ASSUME NEW k \in DOMAIN courses, NEW on, on = [p \in DOMAIN placed |-> placed[p].card],
         courses[k].visuals \in Seq(DOMAIN placed)
  PROVE  InSlideOrder(k) <=> InOrderOf(courses[k].visuals, on, Taught(outlines[courses[k].outline]))
<1> DEFINE visuals == courses[k].visuals
           taught == Taught(outlines[courses[k].outline])
<1>1. \A i \in DOMAIN visuals : on[visuals[i]] = placed[visuals[i]].card
  <2>1. \A i \in DOMAIN visuals : visuals[i] \in DOMAIN placed
    OBVIOUS
  <2> HIDE DEF visuals
  <2> QED
    BY <2>1
<1>2. InSlideOrder(k) <=>
        \A i, j \in DOMAIN visuals :
          i < j => \E m, n \in DOMAIN taught :
                     m < n /\ taught[m] = placed[visuals[i]].card /\ taught[n] = placed[visuals[j]].card
  BY DEF InSlideOrder
<1> HIDE DEF visuals, taught
<1> DEFINE Comes(i, j) == \E m, n \in DOMAIN taught :
                            m < n /\ taught[m] = placed[visuals[i]].card
                                  /\ taught[n] = placed[visuals[j]].card
<1>3. \A i, j \in DOMAIN visuals : Comes(i, j) <=> Before(visuals[i], visuals[j], on, taught)
  <2> TAKE i, j \in DOMAIN visuals
  <2>1. on[visuals[i]] = placed[visuals[i]].card /\ on[visuals[j]] = placed[visuals[j]].card
    BY <1>1
  <2> QED
    BY <2>1 DEF Before
<1>4. InSlideOrder(k) <=> \A i, j \in DOMAIN visuals : i < j => Comes(i, j)
  BY <1>2
<1> HIDE DEF Comes
<1>5. InSlideOrder(k) <=> InOrderOf(visuals, on, taught)
  BY <1>3, <1>4 DEF InOrderOf
<1> QED
  BY <1>5 DEF visuals, taught

LEMMA EditionOpens ==
  ASSUME Teaches, Standing, NEW k \in DOMAIN courses, Published(k)
  PROVE  Opens(k) <=> InSlideOrder(k) /\ SmallEnough(k)
<1> DEFINE course == courses[k]
           outline == outlines[course.outline]
           taught == Taught(outline)
           shown == ShownIn(taught, course.deck)
           on == [p \in DOMAIN placed |-> placed[p].card]
           visuals == course.visuals
           W == Range(visuals)
<1>1. WellMade(outline) /\ EditionFits(course, outline, placed)
  BY DEF Standing, GoesBack, Fits, Teaches
<1>2. /\ visuals \in Seq(DOMAIN placed) /\ IsInjective(visuals)
      /\ course.manifest = Once(Carries(shown, placed))
  BY <1>1 DEF EditionFits
<1>3. /\ W \subseteq DOMAIN placed
      /\ shown \in Seq(W) /\ IsInjective(shown) /\ Range(shown) = W
      /\ InOrderOf(shown, on, taught)
  <2> HIDE DEF course, outline, shown, on
  <2>1. shown = ShownIn(Taught(outline), course.deck)
    BY DEF shown
  <2>2. on = [p \in DOMAIN placed |-> placed[p].card]
    BY DEF on
  <2> QED
    BY <1>1, <2>1, <2>2, EditionShows
<1>4. InSlideOrder(k) <=> InOrderOf(visuals, on, taught)
  BY <1>2, SlideOrderIsInOrder
<1>5. taught \in Seq(Cards) /\ IsInjective(taught)
  BY <1>1, WellMadeTeaches
<1>6. Shown(course.outline, course.deck) = shown
  BY DEF Shown
<1>7. course.manifest = Manifest(shown)
  BY <1>2 DEF Manifest, Carries
<1>8. \A p \in DOMAIN placed : placed[p].visual \in DOMAIN acquired
  BY DEF Standing, Stands
<1>9. Lessons(course.outline) # <<>>
  BY <1>1, LessonsAreThere
<1>10. Opens(k) <=> /\ visuals = Shown(course.outline, course.deck)
                    /\ course.manifest = Manifest(Shown(course.outline, course.deck))
                    /\ Transferable(course.manifest, Shown(course.outline, course.deck))
                    /\ Lessons(course.outline) # <<>> /\ SmallEnough(k)
  BY DEF Opens
<1> HIDE DEF course, outline, taught, shown, on, visuals
<1>11. visuals \in Seq(W)
  <2>1. visuals \in [1 .. Len(visuals) -> DOMAIN placed] /\ Len(visuals) \in Nat
    BY <1>2
  <2>2. visuals \in [1 .. Len(visuals) -> W]
    BY <2>1 DEF Range
  <2> HIDE DEF W
  <2> QED
    BY <2>1, <2>2
<1> HIDE DEF W
<1>12. Range(visuals) = W
  BY DEF W
<1>13. Transferable(Manifest(shown), shown)
  BY <1>3, <1>8, ManifestIsTransferable DEF Standing
<1>14. Opens(k) <=> visuals = shown /\ SmallEnough(k)
  BY <1>6, <1>7, <1>9, <1>10, <1>13
<1>15. InOrderOf(visuals, on, taught) <=> visuals = shown
  BY <1>2, <1>3, <1>5, <1>11, <1>12, OrderIsOne
<1> QED
  BY <1>4, <1>14, <1>15

\* EditionsOpenInOrder: whatever was placed, withdrawn, revalidated or published
\* since, an edition can be opened for projection exactly when its placements were
\* asked for in the order of its slides and there is room for all that is on them
\* (_publication_validation, PublishedProjectionBundleResolver).
THEOREM EditionsOpenIfInOrder == Spec => []EditionsOpenInOrder
<1>1. IInv /\ Teaches /\ Standing /\ [Next]_vars => Standing'
  BY StepStands
<1>2. Teaches /\ [Next]_vars => Teaches'
  BY StepTeaches
<1>3. IInv /\ [Next]_vars => IInv'
  BY StepKeeps
<1>4. Teaches /\ Standing => EditionsOpenInOrder
  BY EditionOpens DEF EditionsOpenInOrder
<1> QED
  BY <1>1, <1>2, <1>3, <1>4, InitEstablishes, InitTeaches, InitStands, PTL DEF Spec
=============================================================================
