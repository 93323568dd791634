---------------------------- MODULE ClientProofs -----------------------------
(***************************************************************************)
(* Theorems about Clients: a walk through the pages is complete, for any   *)
(* mail and any page size, whatever the other clients do meanwhile.        *)
(***************************************************************************)
EXTENDS Clients, FiniteSetTheorems, WellFoundedInduction, TLAPS

USE ViewsAssumption

-----------------------------------------------------------------------------
(* Pages.                                                                  *)


\* A finite set of numbers has a least element and a greatest one.
LEMMA Least ==
  ASSUME NEW T, T \subseteq Nat, IsFiniteSet(T), T # {}
  PROVE  \E m \in T : \A x \in T : m <= x
<1> DEFINE Below(m) == {x \in T : x < m}
<1> DEFINE B == {Below(m) : m \in T}
<1>1. B \in SUBSET (SUBSET T) /\ B # {}
  <2>1. \A m : Below(m) \in SUBSET T
    OBVIOUS
  <2> HIDE DEF Below
  <2>2. PICK m \in T : TRUE
    OBVIOUS
  <2>3. Below(m) \in B
    OBVIOUS
  <2> QED  BY <2>1, <2>3
<1>2. PICK s \in B : \A t \in B : <<t, s>> \notin StrictSubsetOrdering(T)
  <2>1. IsWellFoundedOn(StrictSubsetOrdering(T), SUBSET T)
    BY FS_FiniteSubsetsOfFinite, FS_StrictSubsetOrderingWellFounded
  <2> HIDE DEF B
  <2> QED  BY <1>1, <2>1, WFMin
<1>3. PICK m \in T : s = Below(m)
  OBVIOUS
<1>4. ASSUME NEW x \in T, x < m
      PROVE  FALSE
  <2>0. x \in Nat /\ m \in Nat
    OBVIOUS
  <2>1. Below(x) \subseteq Below(m) /\ x \in Below(m) /\ x \notin Below(x)
    <3>1. ASSUME NEW y \in T, y < x
          PROVE  y < m
      <4>1. y \in Nat
        OBVIOUS
      <4> QED  BY <4>1, <2>0, <1>4, <3>1
    <3>2. Below(x) \subseteq Below(m)
      BY <3>1
    <3>3. x \in Below(m)
      BY <1>4
    <3>4. x \notin Below(x)
      BY <2>0
    <3> QED  BY <3>2, <3>3, <3>4
  <2>2. Below(x) \in SUBSET T /\ Below(m) \in SUBSET T /\ Below(x) # Below(m)
    BY <2>1
  <2>3. <<Below(x), Below(m)>> \in StrictSubsetOrdering(T)
    BY <2>1, <2>2 DEF StrictSubsetOrdering
  <2> QED  BY <2>3, <1>2, <1>3
<1> QED  BY <1>4

LEMMA Greatest ==
  ASSUME NEW T, T \subseteq Nat, IsFiniteSet(T), T # {}
  PROVE  \E m \in T : \A x \in T : x <= m
<1> DEFINE Above(m) == {x \in T : x > m}
<1> DEFINE B == {Above(m) : m \in T}
<1>1. B \in SUBSET (SUBSET T) /\ B # {}
  <2>1. \A m : Above(m) \in SUBSET T
    OBVIOUS
  <2> HIDE DEF Above
  <2>2. PICK m \in T : TRUE
    OBVIOUS
  <2>3. Above(m) \in B
    OBVIOUS
  <2> QED  BY <2>1, <2>3
<1>2. PICK s \in B : \A t \in B : <<t, s>> \notin StrictSubsetOrdering(T)
  <2>1. IsWellFoundedOn(StrictSubsetOrdering(T), SUBSET T)
    BY FS_FiniteSubsetsOfFinite, FS_StrictSubsetOrderingWellFounded
  <2> HIDE DEF B
  <2> QED  BY <1>1, <2>1, WFMin
<1>3. PICK m \in T : s = Above(m)
  OBVIOUS
<1>4. ASSUME NEW x \in T, x > m
      PROVE  FALSE
  <2>0. x \in Nat /\ m \in Nat
    OBVIOUS
  <2>1. Above(x) \subseteq Above(m) /\ x \in Above(m) /\ x \notin Above(x)
    <3>1. ASSUME NEW y \in T, y > x
          PROVE  y > m
      <4>1. y \in Nat
        OBVIOUS
      <4> QED  BY <4>1, <2>0, <1>4, <3>1
    <3>2. Above(x) \subseteq Above(m)
      BY <3>1
    <3>3. x \in Above(m)
      BY <1>4
    <3>4. x \notin Above(x)
      BY <2>0
    <3> QED  BY <3>2, <3>3, <3>4
  <2>2. Above(x) \in SUBSET T /\ Above(m) \in SUBSET T /\ Above(x) # Above(m)
    BY <2>1
  <2>3. <<Above(x), Above(m)>> \in StrictSubsetOrdering(T)
    BY <2>1, <2>2 DEF StrictSubsetOrdering
  <2> QED  BY <2>3, <1>2, <1>3
<1> QED  BY <1>4

\* What a page holds, and what it leaves for the next one.
LEMMA PageLeaves ==
  ASSUME NEW b, NEW before \in Id \cup {None}, There \subseteq Id
  PROVE  LET page == Page(b, before)
             next == NextBefore(page)
         IN /\ page \subseteq Box(b) /\ page \subseteq Id
            /\ \A m \in page : Older(m, before)
            /\ next = None => \A m \in Box(b) : Older(m, before) => m \in page
            /\ next # None => /\ next \in page
                              /\ \A m \in page : next <= m
                              /\ \A m \in Box(b) :
                                   Older(m, before) => m \in page \/ m < next
<1> DEFINE rest == {m \in Box(b) : Older(m, before)}
           page == Page(b, before)
           next == NextBefore(page)
           Above(m) == {x \in rest : x > m}
<1>1. Box(b) \subseteq Id
  BY DEF Box
<1>2. page = {m \in rest : Cardinality(Above(m)) < Limit}
  BY DEF Page
<1>3. IsFiniteSet(rest) /\ IsFiniteSet(page) /\ rest \subseteq Nat /\ page \subseteq Nat
  BY <1>1, <1>2, FS_Subset
<1> HIDE DEF page, rest
<1>4. \A m \in rest : IsFiniteSet(Above(m)) /\ Cardinality(Above(m)) \in Nat
  BY <1>3, FS_Subset, FS_CardinalityType
<1>5. page \subseteq Box(b) /\ page \subseteq Id /\ \A m \in page : Older(m, before)
  BY <1>1, <1>2 DEF rest
<1>6. Cardinality(page) \in Nat /\ IsFiniteSet(page)
  BY <1>3, FS_CardinalityType
<1>7. ASSUME Cardinality(page) # Limit
      PROVE  rest \subseteq page
  <2> SUFFICES ASSUME rest \ page # {} PROVE FALSE
    OBVIOUS
  <2>1. PICK m \in rest \ page : \A x \in rest \ page : x <= m
    BY <1>3, Greatest, FS_Subset
  <2>2. Above(m) \subseteq page
    <3>1. ASSUME NEW x \in rest, x > m
          PROVE  x \in page
      <4>1. x \in Nat /\ m \in Nat
        BY <1>3
      <4> QED  BY <4>1, <3>1, <2>1
    <3> QED  BY <3>1
  <2>3. Cardinality(Above(m)) <= Cardinality(page)
    BY <2>2, <1>6, FS_Subset
  <2>4. Cardinality(page) >= Limit
    <3>1. ~ (Cardinality(Above(m)) < Limit)
      BY <1>2
    <3>2. Cardinality(Above(m)) \in Nat
      BY <1>4
    <3> HIDE DEF Above
    <3> QED  BY <3>1, <3>2, <2>3, <1>6
  <2>5. page # {}
    BY <2>4, FS_EmptySet
  <2>6. PICK b0 \in page : \A x \in page : b0 <= x
    BY <2>5, <1>3, Least
  <2>7. page \subseteq Above(b0) \cup {b0} /\ Above(b0) \subseteq rest
    <3>1. page \subseteq rest
      BY <1>2
    <3>2. ASSUME NEW x \in page, x # b0 PROVE x > b0
      <4>1. x \in Nat /\ b0 \in Nat /\ b0 <= x
        BY <2>6, <1>3
      <4> QED BY <4>1, <3>2
    <3> QED BY <3>1, <3>2
  <2>8. Cardinality(Above(b0)) \in Nat /\ Cardinality(Above(b0)) < Limit /\ IsFiniteSet(Above(b0))
    BY <1>2, <1>4, <2>6
  <2>9. /\ IsFiniteSet(Above(b0) \cup {b0})
        /\ Cardinality(Above(b0) \cup {b0}) = Cardinality(Above(b0)) + 1
    <3>1. b0 \notin Above(b0)
      BY <1>3, <2>6
    <3> HIDE DEF Above
    <3> QED  BY <2>8, <3>1, FS_AddElement
  <2>10. Cardinality(page) <= Cardinality(Above(b0) \cup {b0})
    BY <2>7, <2>9, FS_Subset
  <2> QED  BY <2>4, <2>8, <2>9, <2>10, <1>6, <1>7
<1>8. ASSUME Cardinality(page) = Limit
      PROVE  /\ next \in page /\ next # None
             /\ \A m \in page : next <= m
             /\ \A m \in rest : m \in page \/ m < next
  <2>1. page # {}
    BY <1>8, FS_EmptySet
  <2>2. \E b0 \in page : \A m \in page : b0 <= m
    BY <2>1, <1>3, Least
  <2>3. next \in page /\ \A m \in page : next <= m
    BY <2>2, <1>8 DEF NextBefore
  <2>4. next # None
    BY <2>3, <1>5
  <2>5. ASSUME NEW m \in rest, ~(m < next)
        PROVE  m \in page
    <3>1. Above(m) \subseteq Above(next) /\ next \in rest
      <4>1. next \in rest
        BY <2>3, <1>2
      <4>2. ASSUME NEW x \in rest, x > m
            PROVE  x > next
        <5>1. x \in Nat /\ m \in Nat /\ next \in Nat
          BY <4>1, <1>3
        <5> HIDE DEF next
        <5> QED  BY <5>1, <4>2, <2>5
      <4> QED  BY <4>1, <4>2
    <3>2. Cardinality(Above(m)) <= Cardinality(Above(next))
      BY <3>1, <1>4, FS_Subset
    <3>3. Cardinality(Above(next)) < Limit
      BY <2>3, <1>2
    <3>4. Cardinality(Above(m)) \in Nat /\ Cardinality(Above(next)) \in Nat
      BY <3>1, <1>4
    <3>5. Cardinality(Above(m)) < Limit
      BY <3>2, <3>3, <3>4
    <3> QED  BY <3>5, <1>2
  <2> QED  BY <2>3, <2>4, <2>5
<1>9. next = None <=> Cardinality(page) # Limit
  BY <1>8 DEF NextBefore
<1> QED  BY <1>5, <1>7, <1>8, <1>9 DEF rest, page

-----------------------------------------------------------------------------
(* Types.                                                                  *)

LEMMA InitType == Init => TypeOK
BY DEF Init, ViewsInit, TypeOK, There, Letter, NoCall, List, Started

\* A letter that is read or archived is still one.
LEMMA ReadItType ==
  ASSUME TypeOK, NEW m \in Id, ReadIt(m)
  PROVE  mail' \in [There' -> Letter] /\ There' = There
<1>1. CASE Readable(m) /\ m \in ToMe
  <2>1. m \in There /\ mail' = [mail EXCEPT ![m].read = TRUE]
    BY <1>1 DEF ReadIt, Readable
  <2>2. [mail[m] EXCEPT !.read = TRUE] \in Letter
    <3>1. mail[m] \in Letter
      BY <2>1 DEF TypeOK
    <3> QED  BY <3>1 DEF Letter
  <2> QED  BY <2>1, <2>2 DEF TypeOK, There
<1>2. CASE ~(Readable(m) /\ m \in ToMe)
  BY <1>2 DEF ReadIt, TypeOK, There
<1> QED  BY <1>1, <1>2

LEMMA ArchiveItType ==
  ASSUME TypeOK, NEW m \in Id, ArchiveIt(m)
  PROVE  mail' \in [There' -> Letter] /\ There' = There
<1>1. CASE m \in There \cap ToMe
  <2>1. m \in There /\ mail' = [mail EXCEPT ![m].archived = TRUE]
    BY <1>1 DEF ArchiveIt
  <2>2. [mail[m] EXCEPT !.archived = TRUE] \in Letter
    <3>1. mail[m] \in Letter
      BY <2>1 DEF TypeOK
    <3> QED  BY <3>1 DEF Letter
  <2> QED  BY <2>1, <2>2 DEF TypeOK, There
<1>2. CASE m \notin There \cap ToMe
  BY <1>2 DEF ArchiveIt, TypeOK, There
<1> QED  BY <1>1, <1>2

LEMMA PageIds ==
  ASSUME TypeOK, NEW b, NEW before \in Id \cup {None}
  PROVE  Page(b, before) \subseteq Id
BY PageLeaves DEF TypeOK

LEMMA StayType ==
  ASSUME TypeOK, KeepStay, There' \subseteq Id
  PROVE  stay' \subseteq Id
BY DEF TypeOK, KeepStay, Covered, Box

LEMMA DeliverType ==
  ASSUME TypeOK, NEW m \in Id, Deliver(m), Rest, UNCHANGED <<walker, assistant, watcher>>
  PROVE  TypeOK'
<1>1. mail' \in [There' -> Letter] /\ There' = There \cup {m}
  BY DEF TypeOK, Deliver, There, Letter
<1>2. /\ events' \in [DOMAIN events' -> Id] /\ DOMAIN events' \subseteq 1 .. lastSeq'
      /\ lastSeq' \in Nat
  <2>1. CASE m \in ToMe
    <3>1. /\ lastSeq' = lastSeq + 1
          /\ events' = [i \in DOMAIN events \cup {lastSeq + 1} |->
                          IF i = lastSeq + 1 THEN m ELSE events[i]]
      BY <2>1 DEF Deliver
    <3> QED  BY <3>1 DEF TypeOK
  <2>2. CASE m \notin ToMe
    BY <2>2 DEF Deliver, TypeOK
  <2> QED  BY <2>1, <2>2
<1>3. There' \subseteq Id /\ dropped' \subseteq Id /\ stay' \subseteq Id
  BY <1>1, StayType DEF TypeOK, Deliver, Rest
<1> QED  BY <1>1, <1>2, <1>3 DEF TypeOK, Rest, walker, assistant, watcher

LEMMA ForgetType ==
  ASSUME TypeOK, NEW m \in Id, Forget(m), Rest, UNCHANGED <<walker, assistant, watcher>>
  PROVE  TypeOK'
<1>1. mail' \in [There' -> Letter] /\ There' = There \ {m}
  BY DEF TypeOK, Forget, There, Restrict
<1>2. /\ events' \in [DOMAIN events' -> Id] /\ DOMAIN events' \subseteq 1 .. lastSeq'
      /\ lastSeq' \in Nat
  BY DEF TypeOK, Forget, Restrict
<1>3. There' \subseteq Id /\ dropped' \subseteq Id /\ stay' \subseteq Id
  BY <1>1, StayType DEF TypeOK, Forget, Rest
<1> QED  BY <1>1, <1>2, <1>3 DEF TypeOK, Rest, walker, assistant, watcher

LEMMA OtherType == TypeOK /\ Other /\ Rest => TypeOK'
<1> SUFFICES ASSUME TypeOK, Other, Rest PROVE TypeOK'
  OBVIOUS
<1>1. PICK m \in Id : Deliver(m) \/ Recall(m) \/ Forget(m)
  BY DEF Other
<1>2. UNCHANGED <<walker, assistant, watcher>>
  BY DEF Other
<1>3. CASE Recall(m)
  <2>1. mail' \in [There' -> Letter] /\ There' = There
    <3>1. m \in There /\ mail' = [mail EXCEPT ![m].recalled = TRUE]
      BY <1>3 DEF Recall
    <3>2. [mail[m] EXCEPT !.recalled = TRUE] \in Letter
      <4>1. mail[m] \in Letter
        BY <3>1 DEF TypeOK
      <4> QED  BY <4>1 DEF Letter
    <3> QED  BY <3>1, <3>2 DEF TypeOK, There
  <2>2. stay' \subseteq Id
    BY <2>1, StayType DEF TypeOK, Rest
  <2> QED  BY <1>2, <1>3, <2>1, <2>2 DEF TypeOK, Recall, Rest, walker, assistant, watcher
<1> QED  BY <1>1, <1>2, <1>3, DeliverType, ForgetType

LEMMA WalkType == TypeOK /\ Walk /\ Rest => TypeOK'
<1> SUFFICES ASSUME TypeOK, Walk, Rest PROVE TypeOK'
  OBVIOUS
<1>1. UNCHANGED <<views, assistant, watcher>>
  BY DEF Walk
<1>2. stay' \subseteq Id
  BY <1>1, StayType DEF TypeOK, Rest, views, There
<1>3. CASE WalkBegin
  BY <1>1, <1>2, <1>3 DEF TypeOK, WalkBegin, Rest, views, assistant, watcher, There
<1>4. CASE WalkPage
  <2> DEFINE page == Page(walk.box, walk.before)
             next == NextBefore(page)
  <2>1. page \subseteq Id /\ next \in Id \cup {None}
    BY PageLeaves DEF TypeOK
  <2>2. /\ listed' = listed \cup ({walk.box} \X page)
        /\ twice' = twice \cup {m \in page : <<walk.box, m>> \in listed}
        /\ walk' = IF next # None THEN [walk EXCEPT !.before = next]
                   ELSE [walk EXCEPT !.box = BoxAfter(@), !.before = None]
        /\ walk.box # "end"
    BY <1>4 DEF WalkPage
  <2> HIDE DEF page, next
  <2>3. walk.box \in {"inbox", "archive", "sent"}
    BY <2>2 DEF TypeOK
  <2>4. walk' \in [kind: {"none", "mail", "sent"}, box: {"inbox", "archive", "sent", "end"},
                   before: Id \cup {None}]
    BY <2>1, <2>2 DEF TypeOK, BoxAfter
  <2>5. listed' \subseteq {"inbox", "archive", "sent"} \X Id /\ twice' \subseteq Id
    BY <2>1, <2>2, <2>3 DEF TypeOK
  <2> QED  BY <1>1, <1>2, <2>4, <2>5 DEF TypeOK, Rest, views, assistant, watcher, There
<1> QED  BY <1>3, <1>4 DEF Walk

LEMMA HandleType == TypeOK /\ Handle /\ Rest => TypeOK'
<1> SUFFICES ASSUME TypeOK, Handle, Rest PROVE TypeOK'
  OBVIOUS
<1>1. PICK m \in Id : ReadIt(m) \/ ArchiveIt(m)
  BY DEF Handle
<1>2. mail' \in [There' -> Letter] /\ There' = There
  BY <1>1, ReadItType, ArchiveItType
<1>3. stay' \subseteq Id
  BY <1>2, StayType DEF TypeOK, Rest
<1> QED  BY <1>2, <1>3 DEF TypeOK, Handle, Rest, walker, assistant, watcher

LEMMA AssistType == TypeOK /\ Assist(Calling \/ GiveUp \/ Arrive) /\ Rest => TypeOK'
<1> SUFFICES ASSUME TypeOK, Assist(Calling \/ GiveUp \/ Arrive), Rest PROVE TypeOK'
  OBVIOUS
<1> USE DEF NoCall, List, Call
<1>1. /\ UNCHANGED <<events, lastSeq, dropped, walker, watcher>>
      /\ Ask \/ ServeList \/ ServeRead \/ ServeArchive \/ GiveUp \/ Arrive
  BY DEF Assist, Calling
<1>2. call.tool \in {"message_read", "archive"} => call.msg \in Id
  BY DEF TypeOK
<1>3. /\ mail' \in [There' -> Letter] /\ There' = There
      /\ call' \in {NoCall, List} \cup Call /\ todo' \subseteq Id /\ shown' \subseteq Id
      /\ late' \subseteq Call /\ lost' \in Nat
  <2>1. CASE Ask
    BY <2>1 DEF TypeOK, Ask, There
  <2>2. CASE ServeList
    BY <2>2, PageIds DEF TypeOK, ServeList, There
  <2>3. CASE ServeRead
    <3>1. mail' \in [There' -> Letter] /\ There' = There
      BY <1>2, <2>3, ReadItType DEF ServeRead
    <3>2. /\ call' \in {NoCall, List} \cup Call /\ todo' \subseteq Id
          /\ shown' \subseteq Id
      BY <1>2, <2>3 DEF TypeOK, ServeRead
    <3> QED  BY <2>3, <3>1, <3>2 DEF TypeOK, ServeRead
  <2>4. CASE ServeArchive
    <3>1. mail' \in [There' -> Letter] /\ There' = There
      BY <1>2, <2>4, ArchiveItType DEF ServeArchive
    <3> QED  BY <2>4, <3>1 DEF TypeOK, ServeArchive
  <2>5. CASE GiveUp
    BY <2>5 DEF TypeOK, GiveUp, There
  <2>6. CASE Arrive
    <3>1. PICK q \in late : /\ late' = late \ {q}
                            /\ ArchiveIt(q.msg) \/ ReadIt(q.msg)
      BY <2>6 DEF Arrive
    <3>2. q.msg \in Id
      BY DEF TypeOK
    <3>3. mail' \in [There' -> Letter] /\ There' = There
      BY <3>1, <3>2, ReadItType, ArchiveItType
    <3> QED  BY <2>6, <3>1, <3>3 DEF TypeOK, Arrive
  <2> QED  BY <1>1, <2>1, <2>2, <2>3, <2>4, <2>5, <2>6
<1>4. stay' \subseteq Id
  BY <1>3, StayType DEF TypeOK, Rest
<1> QED  BY <1>1, <1>3, <1>4 DEF TypeOK, Rest, walker, watcher

LEMMA WatchType == TypeOK /\ Watch(Following \/ WatchDies) /\ Rest => TypeOK'
<1> SUFFICES ASSUME TypeOK, Watch(Following \/ WatchDies), Rest PROVE TypeOK'
  OBVIOUS
<1>1. /\ UNCHANGED <<events, lastSeq, dropped, walker, assistant>>
      /\ WatchPoll \/ WatchRead \/ WatchDies \/ WatchStart
  BY DEF Watch, Following
<1>2. /\ mail' \in [There' -> Letter] /\ There' = There
      /\ watch' \in [alive: BOOLEAN, cursor: Nat, page: SUBSET (Nat \X Id)]
      /\ logged' \subseteq Id /\ died' \in Nat
  <2>1. CASE WatchPoll
    <3> DEFINE new == {i \in DOMAIN events : i > watch.cursor}
               page == {i \in new : Cardinality({k \in new : k <= i}) <= PageSize}
    <3>1. PICK last \in page :
            watch' = [watch EXCEPT !.cursor = last,
                                   !.page = {<<i, events[i]>> : i \in page}]
      BY <2>1 DEF WatchPoll
    <3>2. page \subseteq DOMAIN events
      OBVIOUS
    <3> HIDE DEF page
    <3>3. page \subseteq Nat /\ \A i \in page : events[i] \in Id
      BY <3>2 DEF TypeOK
    <3>4. {<<i, events[i]>> : i \in page} \in SUBSET (Nat \X Id)
      BY <3>3
    <3>5. last \in Nat /\ watch \in [alive: BOOLEAN, cursor: Nat, page: SUBSET (Nat \X Id)]
      BY <3>3 DEF TypeOK
    <3>6. watch' \in [alive: BOOLEAN, cursor: Nat, page: SUBSET (Nat \X Id)]
      BY <3>1, <3>4, <3>5
    <3> QED  BY <2>1, <3>6 DEF TypeOK, WatchPoll, There
  <2>2. CASE WatchRead
    <3>1. PICK e \in watch.page :
            /\ ReadIt(e[2])
            /\ \/ /\ logged' = logged \cup {e[2]}
                  /\ watch' = [watch EXCEPT !.page = @ \ {e}]
               \/ watch' = [watch EXCEPT !.alive = FALSE] /\ UNCHANGED logged
      BY <2>2 DEF WatchRead
    <3>2. e[2] \in Id
      BY DEF TypeOK
    <3>3. mail' \in [There' -> Letter] /\ There' = There
      BY <3>1, <3>2, ReadItType
    <3>4. watch' \in [alive: BOOLEAN, cursor: Nat, page: SUBSET (Nat \X Id)]
      <4>1. watch \in [alive: BOOLEAN, cursor: Nat, page: SUBSET (Nat \X Id)]
        BY DEF TypeOK
      <4>2. watch.page \ {e} \in SUBSET (Nat \X Id)
        BY <4>1
      <4> QED  BY <3>1, <4>1, <4>2
    <3>5. logged' \subseteq Id /\ died' \in Nat
      BY <2>2, <3>1, <3>2 DEF TypeOK, WatchRead
    <3> QED  BY <3>3, <3>4, <3>5
  <2>3. CASE WatchDies
    <3>1. watch \in [alive: BOOLEAN, cursor: Nat, page: SUBSET (Nat \X Id)]
      BY DEF TypeOK
    <3>2. watch' = [watch EXCEPT !.alive = FALSE] /\ died' = died + 1
      BY <2>3 DEF WatchDies
    <3>3. watch' \in [alive: BOOLEAN, cursor: Nat, page: SUBSET (Nat \X Id)]
      BY <3>1, <3>2
    <3> QED  BY <2>3, <3>2, <3>3 DEF TypeOK, WatchDies, There
  <2>4. CASE WatchStart
    BY <2>4 DEF TypeOK, WatchStart, There, Started
  <2> QED  BY <1>1, <2>1, <2>2, <2>3, <2>4
<1>3. stay' \subseteq Id
  BY <1>2, StayType DEF TypeOK, Rest
<1> QED  BY <1>1, <1>2, <1>3 DEF TypeOK, Rest, walker, assistant

LEMMA NextType == TypeOK /\ [Next]_vars => TypeOK'
<1>1. TypeOK /\ UNCHANGED vars => TypeOK'
  BY DEF TypeOK, vars, views, walker, assistant, watcher, There
<1> QED  BY <1>1, OtherType, WalkType, HandleType, AssistType, WatchType DEF Next

-----------------------------------------------------------------------------
(* A walk.                                                                 *)

\* Where a message that was there all along is found: listed already, or
\* still ahead of the walk, in its box or in the archive it comes to last.
Reached(m) ==
  \/ \E b \in {"inbox", "archive", "sent"} : <<b, m>> \in listed
  \/ walk.box = "inbox" /\ m \in Box("archive")
  \/ walk.box # "end" /\ m \in Box(walk.box) /\ Older(m, walk.before)

\* The walk is in a box of its kind, and has listed what its cursor is past.
OnItsWay ==
  /\ walk.kind = "none" => walk.box = "inbox" /\ walk.before = None /\ listed = {} /\ stay = {}
  /\ walk.kind = "mail" => walk.box \in {"inbox", "archive", "end"}
  /\ walk.kind = "sent" => walk.box \in {"sent", "end"}
  /\ walk.box = "inbox" => \A m \in Id : <<"archive", m>> \notin listed
  /\ \A m \in Id : <<walk.box, m>> \in listed => ~Older(m, walk.before)
  /\ walk.kind # "none" => stay \subseteq Covered(walk.kind)

WalkInv == OnItsWay /\ twice = {} /\ \A m \in stay : Reached(m)

Inv == TypeOK /\ WalkInv

\* Nothing takes a message out of the archive.
ArchivedStays ==
  \A m \in There \cap There' : mail[m].archived => mail'[m].archived

\* What goes on around a walk does not disturb it.
LEMMA WalkUndisturbed ==
  ASSUME Inv, TypeOK', KeepStay, UNCHANGED walker, ArchivedStays
  PROVE  WalkInv'
<1>1. walk' = walk /\ listed' = listed /\ twice' = twice
  BY DEF walker
<1>2. CASE walk.kind = "none"
  BY <1>1, <1>2 DEF Inv, WalkInv, OnItsWay, KeepStay, Older
<1>3. CASE walk.kind # "none"
  <2>1. stay' = stay \cap Covered(walk.kind)'
    BY <1>1, <1>3 DEF KeepStay
  <2>2. OnItsWay'
    BY <1>1, <1>3, <2>1 DEF Inv, WalkInv, OnItsWay, Older
  <2>3. ASSUME NEW m \in stay'
        PROVE  Reached(m)'
    <3>1. m \in stay /\ m \in Covered(walk.kind)' /\ m \in Covered(walk.kind) /\ Reached(m)
      BY <2>1, <1>3 DEF Inv, WalkInv, OnItsWay
    <3>2. m \in There /\ m \in There'
      BY <3>1 DEF Covered, Box
    <3>3. CASE \E b \in {"inbox", "archive", "sent"} : <<b, m>> \in listed
      BY <1>1, <3>3 DEF Reached
    <3>4. ASSUME m \in Box("archive"), walk.kind = "mail"
          PROVE  m \in Box("archive")'
      <4>1. mail[m].archived /\ m \in ToMe
        BY <3>4 DEF Box
      <4>2. mail'[m].archived
        BY <4>1, <3>2 DEF ArchivedStays
      <4>3. ~mail'[m].recalled
        BY <1>1, <3>1, <3>4 DEF Covered, Box
      <4>4. mail'[m].archived \in BOOLEAN
        BY <3>2 DEF TypeOK, Letter
      <4> QED  BY <3>2, <4>1, <4>2, <4>3, <4>4 DEF Box
    <3>5. CASE walk.box = "inbox" /\ m \in Box("archive")
      <4>1. walk.kind = "mail"
        BY <1>3, <3>5 DEF Inv, WalkInv, OnItsWay, TypeOK
      <4> QED  BY <1>1, <3>4, <3>5, <4>1 DEF Reached
    <3>6. CASE walk.box # "end" /\ m \in Box(walk.box) /\ Older(m, walk.before)
      <4>1. CASE walk.kind = "sent"
        <5>1. walk.box = "sent" /\ m \in Box("sent")'
          BY <4>1, <3>1, <3>6, <1>1 DEF Inv, WalkInv, OnItsWay, Covered
        <5> QED  BY <5>1, <1>1, <3>6 DEF Reached, Older
      <4>2. CASE walk.kind = "mail" /\ walk.box = "inbox"
        <5>1. m \in Box("inbox")' \/ m \in Box("archive")'
          BY <4>2, <3>1, <1>1 DEF Covered
        <5> QED  BY <5>1, <4>2, <1>1, <3>6 DEF Reached, Older
      <4>3. CASE walk.kind = "mail" /\ walk.box = "archive"
        <5>1. m \in Box("archive")'
          BY <3>4, <3>6, <4>3
        <5> QED  BY <5>1, <4>3, <1>1, <3>6 DEF Reached, Older
      <4> QED  BY <1>3, <3>6, <4>1, <4>2, <4>3 DEF Inv, WalkInv, OnItsWay, TypeOK
    <3> QED  BY <3>1, <3>3, <3>5, <3>6 DEF Reached
  <2> QED  BY <1>1, <2>2, <2>3 DEF Inv, WalkInv
<1> QED  BY <1>2, <1>3

LEMMA WalkGoesOn ==
  ASSUME Inv, Walk, Rest
  PROVE  WalkInv'
<1>1. UNCHANGED <<views, assistant, watcher>> /\ KeepStay
  BY DEF Walk, Rest
<1>2. There' = There /\ \A b : Box(b)' = Box(b)
  BY <1>1 DEF views, There, Box
<1>3. CASE WalkBegin
  <2>1. /\ walk.kind = "none" /\ walk.box = "inbox" /\ walk.before = None
        /\ listed = {} /\ listed' = {} /\ twice' = {}
    BY <1>3 DEF WalkBegin, Inv, WalkInv, OnItsWay
  <2>2. stay' = Covered(walk.kind)'
    BY <1>1, <1>3 DEF WalkBegin, KeepStay, Inv, TypeOK
  <2>3. \/ walk' = [walk EXCEPT !.kind = "mail", !.box = "inbox"]
        \/ walk' = [walk EXCEPT !.kind = "sent", !.box = "sent"]
    BY <1>3 DEF WalkBegin
  <2>4. \/ /\ walk'.kind = "mail" /\ walk'.box = "inbox" /\ walk'.before = None
           /\ stay' = Box("inbox") \cup Box("archive")
        \/ /\ walk'.kind = "sent" /\ walk'.box = "sent" /\ walk'.before = None
           /\ stay' = Box("sent")
    BY <1>2, <2>1, <2>2, <2>3 DEF Inv, TypeOK, Covered
  <2>5. OnItsWay'
    BY <2>1, <2>2, <2>4 DEF OnItsWay
  <2>6. \A m \in stay' : Reached(m)'
    BY <1>2, <2>4 DEF Reached, Older
  <2> QED  BY <2>1, <2>5, <2>6 DEF WalkInv
<1>4. CASE WalkPage
  <2> DEFINE page == Page(walk.box, walk.before)
             next == NextBefore(page)
  <2>1. /\ listed' = listed \cup ({walk.box} \X page)
        /\ twice' = twice \cup {m \in page : <<walk.box, m>> \in listed}
        /\ walk' = IF next # None THEN [walk EXCEPT !.before = next]
                   ELSE [walk EXCEPT !.box = BoxAfter(@), !.before = None]
        /\ walk.kind # "none" /\ walk.box # "end"
    BY <1>4 DEF WalkPage
  <2>2. /\ page \subseteq Box(walk.box) /\ page \subseteq Id
        /\ \A m \in page : Older(m, walk.before)
        /\ next = None => \A m \in Box(walk.box) : Older(m, walk.before) => m \in page
        /\ next # None => /\ next \in page
                          /\ \A m \in page : next <= m
                          /\ \A m \in Box(walk.box) :
                               Older(m, walk.before) => m \in page \/ m < next
    BY PageLeaves DEF Inv, TypeOK
  <2> HIDE DEF page, next
  <2>3. walk'.kind = walk.kind /\ walk.kind \in {"mail", "sent"}
    BY <2>1 DEF Inv, TypeOK
  <2>4. walk.box \in {"inbox", "archive", "sent"}
    BY <2>1 DEF Inv, TypeOK
  <2>5. stay' = stay
    <3>1. stay' = stay \cap Covered(walk.kind)'
      BY <1>1, <2>1, <2>3 DEF KeepStay
    <3>2. Covered(walk.kind)' = Covered(walk.kind)
      BY <1>2, <2>3 DEF Covered
    <3> QED  BY <2>1, <3>1, <3>2 DEF Inv, WalkInv, OnItsWay
  <2>6. twice' = {}
    BY <2>1, <2>2 DEF Inv, WalkInv, OnItsWay
  <2>7. CASE next # None
    <3>1. walk'.box = walk.box /\ walk'.before = next
      BY <2>1, <2>7 DEF Inv, TypeOK
    <3>2. next \in Nat /\ walk.before \in Nat \cup {None} /\ None \notin Nat \cap Id
      BY <2>2, <2>7 DEF Inv, TypeOK
    <3>3. \A m \in Id : <<walk.box, m>> \in listed' => ~Older(m, next)
      <4> TAKE m \in Id
      <4>1. CASE m \in page
        BY <4>1, <2>2, <2>7, <3>2 DEF Older
      <4>2. CASE <<walk.box, m>> \in listed
        <5>1. ~Older(m, walk.before) /\ Older(next, walk.before)
          BY <4>2, <2>2, <2>7 DEF Inv, WalkInv, OnItsWay
        <5>2. walk.before # None /\ walk.before \in Nat /\ ~(m < walk.before) /\ next < walk.before
          BY <5>1, <3>2, <2>2, <2>7 DEF Older, Inv, TypeOK
        <5>3. m \in Nat
          OBVIOUS
        <5> QED  BY <5>2, <5>3, <3>2, <2>7 DEF Older
      <4> QED  BY <2>1, <4>1, <4>2
    <3>4. OnItsWay'
      <4>1. walk'.box = "inbox" => \A m \in Id : <<"archive", m>> \notin listed'
        BY <2>1, <3>1 DEF Inv, WalkInv, OnItsWay
      <4>2. stay' \subseteq Covered(walk.kind)'
        BY <1>2, <2>1, <2>3, <2>5 DEF Inv, WalkInv, OnItsWay, Covered
      <4>3. \A m \in Id : <<walk'.box, m>> \in listed' => ~Older(m, walk'.before)
        BY <3>1, <3>3
      <4> QED  BY <2>1, <2>3, <3>1, <4>1, <4>2, <4>3 DEF Inv, WalkInv, OnItsWay, Older
    <3>5. ASSUME NEW m \in stay'
          PROVE  Reached(m)'
      <4>1. Reached(m)
        BY <2>5 DEF Inv, WalkInv
      <4>2. CASE m \in page
        BY <2>1, <2>4, <4>2 DEF Reached
      <4>3. CASE m \notin page
        BY <1>2, <2>1, <2>2, <2>7, <3>1, <4>1, <4>3 DEF Reached, Older
      <4> QED  BY <4>2, <4>3
    <3> QED  BY <2>6, <3>4, <3>5 DEF WalkInv
  <2>8. CASE next = None
    <3>1. walk'.box = BoxAfter(walk.box) /\ walk'.before = None
      BY <2>1, <2>8 DEF Inv, TypeOK
    <3>2. \A m \in Id : <<walk'.box, m>> \notin listed'
      <4>1. CASE walk.box = "inbox"
        BY <4>1, <2>1, <3>1 DEF BoxAfter, Inv, WalkInv, OnItsWay
      <4>2. CASE walk.box # "inbox"
        BY <4>2, <2>1, <2>4, <3>1 DEF BoxAfter, Inv, TypeOK
      <4> QED  BY <4>1, <4>2
    <3>3. OnItsWay'
      <4>1. stay' \subseteq Covered(walk.kind)'
        BY <1>2, <2>1, <2>3, <2>5 DEF Inv, WalkInv, OnItsWay, Covered
      <4>2. walk'.box \in {"archive", "end"} /\ (walk.kind = "sent" => walk'.box = "end")
        BY <3>1, <2>3 DEF BoxAfter, Inv, WalkInv, OnItsWay
      <4> QED  BY <2>3, <3>1, <3>2, <4>1, <4>2 DEF OnItsWay
    <3>4. ASSUME NEW m \in stay'
          PROVE  Reached(m)'
      <4>1. Reached(m)
        BY <2>5 DEF Inv, WalkInv
      <4>2. CASE m \in page
        BY <2>1, <2>4, <4>2 DEF Reached
      <4>3. CASE \E b \in {"inbox", "archive", "sent"} : <<b, m>> \in listed
        BY <2>1, <4>3 DEF Reached
      <4>4. CASE walk.box = "inbox" /\ m \in Box("archive")
        BY <1>2, <3>1, <4>4 DEF Reached, BoxAfter, Older
      <4> QED  BY <2>2, <2>8, <4>1, <4>2, <4>3, <4>4 DEF Reached
    <3> QED  BY <2>6, <3>3, <3>4 DEF WalkInv
  <2> QED  BY <2>7, <2>8
<1> QED  BY <1>3, <1>4 DEF Walk

LEMMA ReadKeepsArchive ==
  ASSUME NEW m, ReadIt(m) \/ ArchiveIt(m) \/ UNCHANGED mail, TypeOK
  PROVE  ArchivedStays
<1> SUFFICES ASSUME NEW x \in There \cap There', mail[x].archived
             PROVE  mail'[x].archived
  BY DEF ArchivedStays
<1>1. mail[x] \in Letter
  BY DEF TypeOK
<1>2. CASE mail' = [mail EXCEPT ![m].read = TRUE]
  BY <1>1, <1>2 DEF There, Letter
<1>3. CASE mail' = [mail EXCEPT ![m].archived = TRUE]
  BY <1>1, <1>3 DEF There, Letter
<1> QED  BY <1>2, <1>3 DEF ReadIt, ArchiveIt

LEMMA NextArchived ==
  ASSUME TypeOK, Next, ~Walk
  PROVE  ArchivedStays /\ KeepStay /\ UNCHANGED walker
<1>1. CASE Other
  <2>1. PICK m \in Id : Deliver(m) \/ Recall(m) \/ Forget(m)
    BY <1>1 DEF Other
  <2>2. ASSUME NEW x \in There \cap There', mail[x].archived
        PROVE  mail'[x].archived
    <3>1. CASE Deliver(m)
      BY <2>2, <3>1 DEF Deliver, There
    <3>2. CASE Recall(m)
      <4>1. mail[x] \in Letter /\ mail' = [mail EXCEPT ![m].recalled = TRUE]
        BY <3>2 DEF Recall, TypeOK
      <4> QED  BY <2>2, <4>1 DEF There, Letter
    <3>3. CASE Forget(m)
      BY <2>2, <3>3 DEF Forget, There, Restrict
    <3> QED  BY <2>1, <3>1, <3>2, <3>3
  <2> QED  BY <1>1, <2>2 DEF ArchivedStays, Next, Other, Rest
<1>2. CASE Handle
  BY <1>2, ReadKeepsArchive DEF Handle, Next, Rest
<1>3. CASE Assist(Calling \/ GiveUp \/ Arrive)
  <2>1. \E m : ReadIt(m) \/ ArchiveIt(m) \/ UNCHANGED mail
    BY <1>3 DEF Assist, Calling, Ask, ServeList, ServeRead, ServeArchive, GiveUp, Arrive
  <2> QED  BY <1>3, <2>1, ReadKeepsArchive DEF Assist, Next, Rest
<1>4. CASE Watch(Following \/ WatchDies)
  <2>1. \E m : ReadIt(m) \/ ArchiveIt(m) \/ UNCHANGED mail
    BY <1>4 DEF Watch, Following, WatchPoll, WatchRead, WatchStart, WatchDies
  <2> QED  BY <1>4, <2>1, ReadKeepsArchive DEF Watch, Next, Rest
<1> QED  BY <1>1, <1>2, <1>3, <1>4 DEF Next, Rest

LEMMA NextInv == Inv /\ [Next]_vars => Inv'
<1> SUFFICES ASSUME Inv, [Next]_vars PROVE Inv'
  OBVIOUS
<1>1. TypeOK'
  BY NextType DEF Inv
<1>2. CASE UNCHANGED vars
  <2>1. \A b : Box(b)' = Box(b)
    BY <1>2 DEF vars, views, Box, There
  <2>2. WalkInv'
    BY <1>2, <2>1 DEF vars, walker, Inv, WalkInv, OnItsWay, Reached, Covered, Older
  <2> QED  BY <1>1, <2>2 DEF Inv
<1>3. CASE Next /\ Walk
  BY <1>1, <1>3, WalkGoesOn DEF Inv, Next, Rest
<1>4. CASE Next /\ ~Walk
  BY <1>1, <1>4, NextArchived, WalkUndisturbed DEF Inv
<1> QED  BY <1>2, <1>3, <1>4

LEMMA InitInv == Init => Inv
<1> SUFFICES ASSUME Init PROVE Inv
  OBVIOUS
<1>1. TypeOK
  BY InitType
<1>2. WalkInv
  BY DEF Init, WalkInv, OnItsWay
<1> QED  BY <1>1, <1>2 DEF Inv

-----------------------------------------------------------------------------
(* Theorems.                                                               *)

\* Tables, clients and calls hold what they are declared to hold.
THEOREM ClientsTypeCorrect == Spec => []TypeOK
<1>1. Inv => TypeOK
  BY DEF Inv
<1> QED  BY <1>1, InitInv, NextInv, PTL DEF Spec

\* list_messages: following next_before to the end loses nothing that was
\* there all along and repeats nothing, for any mail, any page size, and
\* whatever the other clients do between two pages.
THEOREM AWalkIsComplete == Spec => []WalkComplete
<1>1. Inv => WalkComplete
  BY DEF Inv, WalkInv, Reached, WalkComplete
<1> QED  BY <1>1, InitInv, NextInv, PTL DEF Spec
=============================================================================
