---------------------------- MODULE PayloadProofs ----------------------------
(***************************************************************************)
(* What is said of every stored payload, whatever its tree and the bounds  *)
(* of its traversals.                                                      *)
(*                                                                         *)
(* Whatever an answer does not show of what was asked for is under a       *)
(* region that it names, or it says that it dropped its regions or its     *)
(* preview; and findings go last (Disclosure).  The projection is a pass   *)
(* over the nodes that are left to draw: of every place of the tree, its   *)
(* path is accounted for or it is below one of them (Accounted), and each  *)
(* step uses up the budget of nodes or what is left (StepsLeft), so that   *)
(* in the end none is.  The second ladder is settled by what is gone after *)
(* each of its steps (SurrenderedInOrder).                                 *)
(*                                                                         *)
(* A derivation that is said to be complete misses nothing (Findings).  Of *)
(* every place of the tree, what it shows is reported, it is a copy, or it *)
(* is ahead (WalkInv), and each turn takes a place that was not taken, so  *)
(* that in the end none is ahead.  The bounds do not end it before: what   *)
(* was visited is at most the size of what was taken.                      *)
(*                                                                         *)
(* A search or a listing that does not say that it stopped has all it is   *)
(* asked for (Navigation).  Of every place of the tree it is done with it, *)
(* or it is ahead (WalkEnds).  The findings that it joins are those of a   *)
(* part of a payload whose derivation is complete (PartOfPayload), and of  *)
(* finitely many there are always the foremost (ForemostExist).            *)
(***************************************************************************)
EXTENDS Disclosure, Navigation, FoldLemmas, SequenceTheorems, TLAPS

-----------------------------------------------------------------------------
(* Types. *)

Cells == [path : Pointers, how : {"value", "prefix", "marker"}]
Previews == {cells \in SUBSET Cells : IsFiniteSet(cells)}
Sheets == [used : Nat, cells : Previews, omitted : Seq(Regions)]
Items == [node : Nodes, path : Pointers, depth : Nat]
Drawings == [sheet : Sheets, left : Seq(Items)]
Places == [node : Nodes, path : Pointers]

LEMMA ChildrenTyped ==
    ASSUME NEW n \in Nodes
    PROVE  /\ Children(n) \in Seq(STRING \X Nodes)
           /\ Len(Children(n)) \in Nat /\ DOMAIN Children(n) = 1 .. Len(Children(n))
           /\ \A i \in DOMAIN Children(n) :
                 Children(n)[i][1] \in STRING /\ Children(n)[i][2] \in Nodes
  <1>1. Children(n) \in Seq(STRING \X Nodes)
    BY NodesAssumption DEF IsClosed
  <1> DEFINE kids == Children(n)
  <1> HIDE DEF kids
  <1>2. kids \in Seq(STRING \X Nodes)
    BY <1>1 DEF kids
  <1>3. ASSUME NEW i \in DOMAIN kids PROVE kids[i][1] \in STRING /\ kids[i][2] \in Nodes
    <2>1. kids[i] \in STRING \X Nodes
      BY <1>2, <1>3
    <2> QED  BY <2>1
  <1> QED  BY <1>2, <1>3 DEF kids

\* A path is a prefix of another if they agree as far as it goes.
LEMMA PrefixAgrees ==
    ASSUME NEW S, NEW s \in Seq(S), NEW t \in Seq(S)
    PROVE  IsPrefix(s, t) <=> Len(s) <= Len(t) /\ \A i \in 1 .. Len(s) : s[i] = t[i]
  <1>1. CASE Len(s) <= Len(t)
    <2>1. /\ SubSeq(s, 1, Len(s)) = [i \in 1 .. Len(s) |-> s[i]]
          /\ SubSeq(t, 1, Len(s)) = [i \in 1 .. Len(s) |-> t[i]]
      BY <1>1
    <2>2. [i \in 1 .. Len(s) |-> s[i]] = [i \in 1 .. Len(s) |-> t[i]]
          <=> \A i \in 1 .. Len(s) : s[i] = t[i]
      OBVIOUS
    <2> QED  BY <1>1, <2>1, <2>2 DEF IsPrefix
  <1>2. CASE ~(Len(s) <= Len(t))
    BY <1>2 DEF IsPrefix
  <1> QED  BY <1>1, <1>2

LEMMA PrefixOfItself ==
    ASSUME NEW s \in Pointers PROVE IsPrefix(s, s)
  BY PrefixAgrees DEF Pointers

LEMMA SequencePrefixes ==
    ASSUME NEW S, NEW s \in Seq(S), NEW t \in Seq(S), NEW e \in S
    PROVE  /\ Append(t, e) \in Seq(S)
           /\ IsPrefix(s, t) => IsPrefix(s, Append(t, e))
           /\ IsPrefix(Append(s, e), t) => IsPrefix(s, t)
  <1>1. /\ Append(t, e) \in Seq(S) /\ Append(s, e) \in Seq(S)
        /\ Len(Append(t, e)) = Len(t) + 1 /\ Len(Append(s, e)) = Len(s) + 1
        /\ \A i \in 1 .. Len(t) : Append(t, e)[i] = t[i]
        /\ \A i \in 1 .. Len(s) : Append(s, e)[i] = s[i]
        /\ Len(s) \in Nat /\ Len(t) \in Nat
    BY AppendProperties, LenProperties
  <1>2. ASSUME Len(s) <= Len(t), \A i \in 1 .. Len(s) : s[i] = t[i]
        PROVE  /\ Len(s) <= Len(Append(t, e))
               /\ \A i \in 1 .. Len(s) : s[i] = Append(t, e)[i]
    <2>1. \A i \in 1 .. Len(s) : i \in 1 .. Len(t)
      BY <1>1, <1>2
    <2> QED  BY <1>1, <1>2, <2>1
  <1>3. ASSUME Len(Append(s, e)) <= Len(t),
               \A i \in 1 .. Len(Append(s, e)) : Append(s, e)[i] = t[i]
        PROVE  Len(s) <= Len(t) /\ \A i \in 1 .. Len(s) : s[i] = t[i]
    <2>1. \A i \in 1 .. Len(s) : i \in 1 .. Len(Append(s, e))
      BY <1>1
    <2> QED  BY <1>1, <1>3, <2>1
  <1>4. IsPrefix(s, t) => IsPrefix(s, Append(t, e))
    BY <1>1, <1>2, PrefixAgrees, Zenon
  <1>5. IsPrefix(Append(s, e), t) => IsPrefix(s, t)
    <2> DEFINE longer == Append(s, e)
    <2>1. longer \in Seq(S)
      BY <1>1
    <2> HIDE DEF longer
    <2>2. IsPrefix(longer, t) <=> Len(longer) <= Len(t) /\ \A i \in 1 .. Len(longer) : longer[i] = t[i]
      BY <2>1, PrefixAgrees
    <2>3. IsPrefix(s, t) <=> Len(s) <= Len(t) /\ \A i \in 1 .. Len(s) : s[i] = t[i]
      BY PrefixAgrees
    <2> QED  BY <1>3, <2>2, <2>3 DEF longer
  <1> QED  BY <1>1, <1>4, <1>5

LEMMA PrefixGoesOn ==
    ASSUME NEW s \in Pointers, NEW t \in Pointers, NEW name \in STRING
    PROVE  /\ Append(t, name) \in Pointers
           /\ IsPrefix(s, t) => IsPrefix(s, Append(t, name))
           /\ IsPrefix(Append(s, name), t) => IsPrefix(s, t)
  BY SequencePrefixes, Zenon DEF Pointers

-----------------------------------------------------------------------------
(* Paths. *)

\* Two prefixes of a path that are as long are the same.
LEMMA PrefixesAgree ==
    ASSUME NEW r \in Pointers, NEW s \in Pointers, NEW t \in Pointers,
           IsPrefix(r, t), IsPrefix(s, t), Len(r) = Len(s)
    PROVE  r = s
  <1>1. \A a \in Pointers, b \in Pointers :
           IsPrefix(a, b) <=> Len(a) <= Len(b) /\ \A i \in 1 .. Len(a) : a[i] = b[i]
    BY PrefixAgrees DEF Pointers
  <1>2. \A i \in 1 .. Len(r) : r[i] = s[i]
    BY <1>1
  <1>3. r \in Seq(STRING) /\ s \in Seq(STRING)
    BY DEF Pointers
  <1> QED  BY <1>2, <1>3, SeqEqual

\* A path and one with one more segment.
LEMMA LongerPath ==
    ASSUME NEW s \in Pointers, NEW name \in STRING
    PROVE  /\ Append(s, name) \in Pointers /\ Append(s, name) # <<>>
           /\ Len(s) \in Nat /\ Len(Append(s, name)) = Len(s) + 1
           /\ Last(Append(s, name)) = name
           /\ \A i \in 1 .. Len(s) : Append(s, name)[i] = s[i]
           /\ Append(s, name)[Len(s) + 1] = name
           /\ ~IsPrefix(Append(s, name), s) /\ IsPrefix(s, Append(s, name))
           /\ IsPrefix(Append(s, name), Append(s, name))
  <1> DEFINE longer == Append(s, name)
  <1>1. s \in Seq(STRING)
    BY DEF Pointers
  <1>2. longer \in Seq(STRING) /\ longer # <<>> /\ Len(longer) = Len(s) + 1
    BY <1>1, AppendProperties
  <1>4. Len(s) \in Nat
    BY <1>1, LenProperties
  <1>3. (\A i \in 1 .. Len(s) : longer[i] = s[i]) /\ longer[Len(s) + 1] = name
    <2>1. \A i \in 1 .. Len(s) : longer[i] = s[i]
      BY <1>1, <1>4
    <2>2. longer[Len(s) + 1] = name
      BY <1>1, <1>4, AppendProperties, Zenon
    <2> QED  BY <2>1, <2>2
  <1> HIDE DEF longer
  <1>5. Last(longer) = name
    BY <1>2, <1>3 DEF Last
  <1>6. ~IsPrefix(longer, s)
    BY <1>2, <1>4 DEF IsPrefix
  <1>7. longer \in Pointers
    BY <1>2 DEF Pointers
  <1>8. IsPrefix(longer, longer) /\ IsPrefix(s, longer)
    BY <1>7, PrefixOfItself, PrefixGoesOn DEF longer
  <1> QED  BY <1>2, <1>3, <1>4, <1>5, <1>6, <1>7, <1>8, Zenon DEF longer

LEMMA PrefixOfLonger ==
    ASSUME NEW s \in Pointers, NEW t \in Pointers, NEW name \in STRING,
           IsPrefix(t, Append(s, name))
    PROVE  IsPrefix(t, s) \/ t = Append(s, name)
  <1> DEFINE longer == Append(s, name)
  <1>1. /\ longer \in Pointers /\ Len(s) \in Nat /\ Len(longer) = Len(s) + 1
        /\ \A i \in 1 .. Len(s) : longer[i] = s[i]
    BY LongerPath
  <1>2. t \in Seq(STRING) /\ Len(t) \in Nat
    BY LenProperties DEF Pointers
  <1> HIDE DEF longer
  <1>3. \A a \in Pointers, b \in Pointers :
           IsPrefix(a, b) <=> Len(a) <= Len(b) /\ \A i \in 1 .. Len(a) : a[i] = b[i]
    BY PrefixAgrees DEF Pointers
  <1>4. IsPrefix(t, longer)
    BY DEF longer
  <1>5. Len(t) <= Len(s) + 1 /\ \A i \in 1 .. Len(t) : t[i] = longer[i]
    BY <1>1, <1>3, <1>4
  <1>6. CASE Len(t) <= Len(s)
    <2>1. \A i \in 1 .. Len(t) : i \in 1 .. Len(s)
      BY <1>1, <1>2, <1>6
    <2> QED  BY <1>1, <1>3, <1>5, <1>6, <2>1
  <1>7. CASE ~(Len(t) <= Len(s))
    <2>1. Len(t) = Len(longer)
      BY <1>1, <1>2, <1>5, <1>7
    <2>2. t = longer
      BY <1>1, <1>4, <2>1, PrefixOfItself, PrefixesAgree
    <2> QED  BY <2>2 DEF longer
  <1> QED  BY <1>6, <1>7

\* Paths one segment longer than another are apart if their segments are.
LEMMA SiblingsApart ==
    ASSUME NEW s \in Pointers, NEW a \in STRING, NEW b \in STRING, a # b
    PROVE  ~IsPrefix(Append(s, a), Append(s, b))
  <1>1. Append(s, a) \in Pointers /\ Append(s, b) \in Pointers
    BY LongerPath
  <1>2. SUFFICES ASSUME IsPrefix(Append(s, a), Append(s, b)) PROVE FALSE
    OBVIOUS
  <1>3. IsPrefix(Append(s, a), s) \/ Append(s, a) = Append(s, b)
    BY <1>1, <1>2, PrefixOfLonger
  <1>4. Last(Append(s, a)) = a /\ Last(Append(s, b)) = b /\ ~IsPrefix(Append(s, a), s)
    BY LongerPath
  <1> QED  BY <1>3, <1>4

-----------------------------------------------------------------------------
(* The levels of a tree. *)

NextLevel(places) == UNION {PlacesBelow(place) : place \in places}

LEMMA PlacesBelowTyped ==
    ASSUME NEW place \in Places
    PROVE  PlacesBelow(place) \in SUBSET Places
  <1>1. place.node \in Nodes /\ place.path \in Pointers
    BY DEF Places
  <1>2. ASSUME NEW i \in DOMAIN Children(place.node)
        PROVE  Place(Children(place.node)[i][2],
                     Append(place.path, Children(place.node)[i][1])) \in Places
    BY <1>1, ChildrenTyped, PrefixGoesOn DEF Places, Place
  <1> QED  BY <1>2 DEF PlacesBelow

LEMMA NextLevelTyped ==
    ASSUME NEW places \in SUBSET Places
    PROVE  NextLevel(places) \in SUBSET Places
  BY PlacesBelowTyped DEF NextLevel

LEMMA LevelUnfolds ==
    ASSUME NEW node \in Nodes, NEW path \in Pointers
    PROVE  /\ Level(node, path, 0) = {Place(node, path)}
           /\ \A d \in Nat : /\ Level(node, path, d) \in SUBSET Places
                             /\ Level(node, path, d + 1) = NextLevel(Level(node, path, d))
  <1> DEFINE base == {Place(node, path)}
             X == SUBSET Places
             step == [nx \in Nat \X X |-> NextLevel(nx[2])]
             IsLevel(f) == f = [n \in Nat |-> IF n = 0 THEN base
                                              ELSE UNION {PlacesBelow(place) : place \in f[n - 1]}]
             level == CHOOSE f : IsLevel(f)
  <1>1. base \in X
    BY DEF Place, Places
  <1>0. step \in [Nat \X X -> X]
    BY NextLevelTyped
  <1> HIDE DEF base, step, X
  <1>2. PICK f : IsRecursion(f, X, base, step)
    BY <1>0, <1>1, Recursion, Zenon
  <1> USE DEF step, X
  <1>3. \E g : IsLevel(g)
    <2>1. ASSUME NEW n \in Nat, n # 0
          PROVE  step[<<n, f[n - 1]>>] = UNION {PlacesBelow(place) : place \in f[n - 1]}
      <3>1. n - 1 \in Nat
        BY <2>1
      <3>2. f[n - 1] \in X
        BY <1>2, <3>1 DEF IsRecursion
      <3> QED  BY <3>2 DEF NextLevel
    <2> HIDE DEF base, step, X
    <2>2. IsLevel(f)
      BY <1>2, <2>1 DEF IsRecursion
    <2> HIDE DEF IsLevel
    <2> QED  BY <2>2
  <1> HIDE DEF IsLevel
  <1>4. IsLevel(level)
    BY <1>3, Zenon
  <1> USE DEF IsLevel
  <1>5. \A d \in Nat : Level(node, path, d) = level[d]
    BY DEF Level, base
  <1> HIDE DEF level, base
  <1>6. level[0] = base /\ \A d \in Nat : level[d + 1] = NextLevel(level[d])
    <2>1. \A d \in Nat : d + 1 \in Nat /\ d + 1 # 0 /\ d + 1 - 1 = d
      OBVIOUS
    <2> QED  BY <1>4, <2>1 DEF NextLevel
  <1> DEFINE S == {d \in Nat : level[d] \in SUBSET Places}
  <1>7. 0 \in S
    BY <1>1, <1>6
  <1>8. \A d \in Nat : d \in S => d + 1 \in S
    BY <1>6, NextLevelTyped
  <1> HIDE DEF S
  <1>9. \A d \in Nat : d \in S
    BY <1>7, <1>8, EveryNumber
  <1> QED  BY <1>5, <1>6, <1>9 DEF base, S

LevelOf(place, d) == Level(place.node, place.path, d)

LEMMA PlaceIsItself ==
    ASSUME NEW place \in Places
    PROVE  /\ place.node \in Nodes /\ place.path \in Pointers
           /\ Place(place.node, place.path) = place
  BY DEF Places, Place

\* What is on a level below a place is below one of the places below it ...
LEMMA LevelFromBelow ==
    ASSUME NEW place \in Places, NEW d \in Nat, NEW q \in LevelOf(place, d + 1)
    PROVE  \E b \in PlacesBelow(place) : q \in LevelOf(b, d)
  <1> DEFINE S == {n \in Nat : \A p \in LevelOf(place, n + 1) :
                                  \E b \in PlacesBelow(place) : p \in LevelOf(b, n)}
  <1>1. /\ LevelOf(place, 0) = {place}
        /\ \A n \in Nat : LevelOf(place, n + 1) = NextLevel(LevelOf(place, n))
    BY LevelUnfolds, PlaceIsItself DEF LevelOf
  <1>2. ASSUME NEW b \in PlacesBelow(place)
        PROVE  /\ LevelOf(b, 0) = {b}
               /\ \A n \in Nat : LevelOf(b, n + 1) = NextLevel(LevelOf(b, n))
    <2>1. b \in Places
      BY PlacesBelowTyped
    <2> QED  BY <2>1, LevelUnfolds, PlaceIsItself DEF LevelOf
  <1>3. 0 \in S
    <2>1. LevelOf(place, 0 + 1) = NextLevel({place})
      BY <1>1
    <2>2. LevelOf(place, 0 + 1) = PlacesBelow(place)
      BY <2>1 DEF NextLevel
    <2> QED  BY <1>2, <2>2
  <1>4. ASSUME NEW n \in Nat, n \in S PROVE n + 1 \in S
    <2>1. ASSUME NEW p \in LevelOf(place, n + 1 + 1)
          PROVE  \E b \in PlacesBelow(place) : p \in LevelOf(b, n + 1)
      <3>1. PICK above \in LevelOf(place, n + 1) : p \in PlacesBelow(above)
        BY <1>1 DEF NextLevel
      <3>2. PICK b \in PlacesBelow(place) : above \in LevelOf(b, n)
        BY <1>4
      <3>3. p \in NextLevel(LevelOf(b, n))
        BY <3>1, <3>2 DEF NextLevel
      <3> QED  BY <1>2, <3>2, <3>3
    <2> QED  BY <2>1
  <1> HIDE DEF S
  <1>5. d \in S
    BY <1>3, <1>4, EveryNumber
  <1> QED  BY <1>5 DEF S

\* ... and its path goes on from that of the place.
LEMMA LevelIsBelow ==
    ASSUME NEW place \in Places, NEW d \in Nat, NEW q \in LevelOf(place, d)
    PROVE  q \in Places /\ IsPrefix(place.path, q.path)
  <1> DEFINE S == {n \in Nat : \A p \in LevelOf(place, n) :
                                  p \in Places /\ IsPrefix(place.path, p.path)}
  <1>0. place.node \in Nodes /\ place.path \in Pointers
    BY PlaceIsItself
  <1>1. /\ LevelOf(place, 0) = {place}
        /\ \A n \in Nat : LevelOf(place, n + 1) = NextLevel(LevelOf(place, n))
    BY LevelUnfolds, PlaceIsItself DEF LevelOf
  <1>2. 0 \in S
    BY <1>0, <1>1, PrefixOfItself
  <1>3. ASSUME NEW n \in Nat, n \in S PROVE n + 1 \in S
    <2>1. ASSUME NEW p \in LevelOf(place, n + 1)
          PROVE  p \in Places /\ IsPrefix(place.path, p.path)
      <3>1. PICK above \in LevelOf(place, n) : p \in PlacesBelow(above)
        BY <1>1 DEF NextLevel
      <3>2. above \in Places /\ IsPrefix(place.path, above.path)
        BY <1>3
      <3>3. above.node \in Nodes /\ above.path \in Pointers
        BY <3>2, PlaceIsItself
      <3>4. PICK i \in DOMAIN Children(above.node) :
                p = Place(Children(above.node)[i][2],
                          Append(above.path, Children(above.node)[i][1]))
        BY <3>1 DEF PlacesBelow
      <3>5. PICK name \in STRING : p.path = Append(above.path, name)
        BY <3>3, <3>4, ChildrenTyped DEF Place
      <3>6. IsPrefix(place.path, Append(above.path, name))
        BY <1>0, <3>2, <3>3, PrefixGoesOn
      <3> QED  BY <3>1, <3>2, <3>5, <3>6, PlacesBelowTyped
    <2> QED  BY <2>1
  <1> HIDE DEF S
  <1>4. d \in S
    BY <1>2, <1>3, EveryNumber
  <1> QED  BY <1>4 DEF S

-----------------------------------------------------------------------------
(* The places of a tree. *)

\* A level has the places whose paths are that much longer than the first.
LEMMA LevelPaths ==
    ASSUME NEW root \in Nodes, NEW base \in Pointers, NEW d \in Nat
    PROVE  \A q \in Level(root, base, d) : q \in Places /\ Len(q.path) = Len(base) + d
  <1>0. Len(base) \in Nat
    BY LenProperties DEF Pointers
  <1>1. /\ Level(root, base, 0) = {Place(root, base)}
        /\ \A n \in Nat : /\ Level(root, base, n) \in SUBSET Places
                          /\ Level(root, base, n + 1) = NextLevel(Level(root, base, n))
    BY <1>0, LevelUnfolds
  <1> DEFINE S == {n \in Nat : \A q \in Level(root, base, n) : Len(q.path) = Len(base) + n}
  <1>2. 0 \in S
    BY <1>0, <1>1 DEF Place
  <1>3. ASSUME NEW n \in Nat, n \in S PROVE n + 1 \in S
    <2>1. ASSUME NEW q \in Level(root, base, n + 1) PROVE Len(q.path) = Len(base) + n + 1
      <3>1. PICK above \in Level(root, base, n) : q \in PlacesBelow(above)
        BY <1>1 DEF NextLevel
      <3>2. above \in Places /\ Len(above.path) = Len(base) + n
        BY <1>1, <1>3
      <3>3. PICK i \in DOMAIN Children(above.node) :
                q = Place(Children(above.node)[i][2],
                          Append(above.path, Children(above.node)[i][1]))
        BY <3>1 DEF PlacesBelow
      <3>4. PICK name \in STRING : q.path = Append(above.path, name)
        BY <3>2, <3>3, PlaceIsItself, ChildrenTyped DEF Place
      <3> QED  BY <3>2, <3>4, PlaceIsItself, LongerPath
    <2> QED  BY <2>1
  <1> HIDE DEF S
  <1>4. d \in S
    BY <1>2, <1>3, EveryNumber
  <1> QED  BY <1>1, <1>4 DEF S

IsChild(above, i, q) ==
    /\ above \in Places /\ i \in DOMAIN Children(above.node)
    /\ Children(above.node)[i][1] \in STRING /\ Children(above.node)[i][2] \in Nodes
    /\ q = Place(Children(above.node)[i][2], Append(above.path, Children(above.node)[i][1]))

\* Every place but the first is a child of a place of the level above.
LEMMA LevelAbove ==
    ASSUME NEW root \in Nodes, NEW base \in Pointers, NEW d \in Nat, NEW q \in Level(root, base, d + 1)
    PROVE  \E above \in Level(root, base, d), i \in Nat : IsChild(above, i, q)
  <1>0. base \in Pointers
    OBVIOUS
  <1>1. PICK above \in Level(root, base, d) : q \in PlacesBelow(above)
    BY <1>0, LevelUnfolds DEF NextLevel
  <1>2. above \in Places
    BY LevelPaths
  <1>3. PICK i \in DOMAIN Children(above.node) :
            q = Place(Children(above.node)[i][2],
                      Append(above.path, Children(above.node)[i][1]))
    BY <1>1 DEF PlacesBelow
  <1>4. /\ Children(above.node)[i][1] \in STRING /\ Children(above.node)[i][2] \in Nodes
        /\ i \in Nat
    BY <1>2, PlaceIsItself, ChildrenTyped
  <1> QED  BY <1>2, <1>3, <1>4 DEF IsChild

\* A tree has finitely many places.
LEMMA ImageFinite ==
    ASSUME NEW S, IsFiniteSet(S), NEW f, DOMAIN f = S, NEW T, T = {f[x] : x \in S}
    PROVE  IsFiniteSet(T)
  <1>1. [x \in S |-> f[x]] \in Surjection(S, T)
    BY DEF Surjection
  <1> QED  BY <1>1, FS_Surjection

LEMMA PlacesBelowFinite ==
    ASSUME NEW place \in Places PROVE IsFiniteSet(PlacesBelow(place))
  <1> DEFINE kids == Children(place.node)
             below(i) == Place(kids[i][2], Append(place.path, kids[i][1]))
             f == [i \in DOMAIN kids |-> below(i)]
  <1>1. Len(kids) \in Nat /\ DOMAIN kids = 1 .. Len(kids)
    BY PlaceIsItself, ChildrenTyped
  <1>2. PlacesBelow(place) = {below(i) : i \in DOMAIN kids}
    BY DEF PlacesBelow
  <1> HIDE DEF kids, below
  <1>3. IsFiniteSet(DOMAIN kids)
    BY <1>1, FS_Interval
  <1>4. DOMAIN f = DOMAIN kids /\ PlacesBelow(place) = {f[i] : i \in DOMAIN kids}
    BY <1>2
  <1> HIDE DEF f
  <1> DEFINE K == DOMAIN kids
             B == PlacesBelow(place)
  <1>5. DOMAIN f = K /\ B = {f[i] : i \in K} /\ IsFiniteSet(K)
    BY <1>3, <1>4
  <1> HIDE DEF K, B
  <1>6. IsFiniteSet(B)
    BY <1>5, ImageFinite
  <1> QED  BY <1>6 DEF B

LEMMA PlacesFinite ==
    ASSUME NEW root \in Nodes, NEW base \in Pointers
    PROVE  /\ IsFiniteSet(PlacesOf(root, base))
           /\ PlacesOf(root, base) \in SUBSET Places
  <1>0. base \in Pointers
    OBVIOUS
  <1>1. /\ Level(root, base, 0) = {Place(root, base)}
        /\ \A n \in Nat : /\ Level(root, base, n) \in SUBSET Places
                          /\ Level(root, base, n + 1) = NextLevel(Level(root, base, n))
    BY <1>0, LevelUnfolds
  <1> DEFINE S == {n \in Nat : IsFiniteSet(Level(root, base, n))}
  <1>2. 0 \in S
    BY <1>1, FS_Singleton
  <1>3. ASSUME NEW n \in Nat, n \in S PROVE n + 1 \in S
    <2> DEFINE places == Level(root, base, n)
               sets == {PlacesBelow(place) : place \in places}
               f == [place \in places |-> PlacesBelow(place)]
    <2>1. IsFiniteSet(places) /\ places \in SUBSET Places
      BY <1>1, <1>3
    <2> HIDE DEF places
    <2>2. DOMAIN f = places /\ sets = {f[place] : place \in places}
      OBVIOUS
    <2> HIDE DEF f
    <2>3. IsFiniteSet(sets)
      <3> HIDE DEF sets
      <3> QED  BY <2>1, <2>2, ImageFinite, Zenon
    <2>4. \A T \in sets : IsFiniteSet(T)
      BY <2>1, PlacesBelowFinite
    <2>5. IsFiniteSet(UNION sets)
      BY <2>3, <2>4, FS_UNION, Zenon
    <2>6. Level(root, base, n + 1) = UNION sets
      <3>1. Level(root, base, n + 1) = NextLevel(places)
        BY <1>1 DEF places
      <3> QED  BY <3>1 DEF NextLevel
    <2> HIDE DEF sets
    <2>7. IsFiniteSet(Level(root, base, n + 1))
      BY <2>5, <2>6, Zenon
    <2> QED  BY <2>7
  <1> HIDE DEF S
  <1>4. \A n \in Nat : n \in S
    BY <1>2, <1>3, EveryNumber
  <1> DEFINE levels == {Level(root, base, d) : d \in 0 .. Deepest}
             f == [d \in 0 .. Deepest |-> Level(root, base, d)]
  <1>5. \A d \in 0 .. Deepest : IsFiniteSet(Level(root, base, d))
                               /\ Level(root, base, d) \in SUBSET Places
    BY <1>1, <1>4, PathsAssumption DEF S
  <1>6. IsFiniteSet(levels)
    <2>1. DOMAIN f = 0 .. Deepest /\ levels = {f[d] : d \in 0 .. Deepest}
      OBVIOUS
    <2>2. IsFiniteSet(0 .. Deepest)
      BY PathsAssumption, FS_Interval
    <2> HIDE DEF f, levels
    <2> QED  BY <2>1, <2>2, ImageFinite, Zenon
  <1>7. \A T \in levels : IsFiniteSet(T) /\ T \in SUBSET Places
    BY <1>5
  <1>8. PlacesOf(root, base) = UNION levels
    BY DEF PlacesOf
  <1> HIDE DEF levels
  <1>9. IsFiniteSet(UNION levels)
    BY <1>6, <1>7, FS_UNION, Zenon
  <1> QED  BY <1>7, <1>8, <1>9

\* A place is known by its path.
LEMMA OnePlace ==
    ASSUME NEW root \in Nodes, NEW base \in Pointers, NEW d \in Nat,
           NEW p \in Level(root, base, d), NEW q \in Level(root, base, d), p.path = q.path
    PROVE  p = q
  <1> DEFINE S == {n \in Nat : \A a, b \in Level(root, base, n) : a.path = b.path => a = b}
  <1>0. base \in Pointers
    OBVIOUS
  <1>1. Level(root, base, 0) = {Place(root, base)}
    BY <1>0, LevelUnfolds
  <1>2. 0 \in S
    BY <1>1
  <1>3. ASSUME NEW n \in Nat, n \in S PROVE n + 1 \in S
    <2>1. ASSUME NEW a \in Level(root, base, n + 1), NEW b \in Level(root, base, n + 1),
                 a.path = b.path
          PROVE  a = b
      <3>1. PICK u \in Level(root, base, n), i \in Nat : IsChild(u, i, a)
        BY LevelAbove
      <3>2. PICK v \in Level(root, base, n), j \in Nat : IsChild(v, j, b)
        BY LevelAbove
      <3> DEFINE x == Children(u.node)[i][1]
                 y == Children(v.node)[j][1]
      <3>3. u.path \in Pointers /\ v.path \in Pointers /\ u.node \in Nodes
            /\ Len(u.path) = Len(base) + n /\ Len(v.path) = Len(base) + n
        BY <3>1, <3>2, PlaceIsItself, LevelPaths DEF IsChild
      <3>4. Append(u.path, x) = Append(v.path, y) /\ x \in STRING /\ y \in STRING
        BY <2>1, <3>1, <3>2 DEF Place, IsChild
      <3> HIDE DEF x, y
      <3> DEFINE longer == Append(u.path, x)
                 other == Append(v.path, y)
      <3>a. longer \in Pointers /\ Last(longer) = x /\ IsPrefix(u.path, longer)
        BY <3>3, <3>4, LongerPath, Zenon
      <3>b. Last(other) = y /\ IsPrefix(v.path, other)
        BY <3>3, <3>4, LongerPath, Zenon
      <3>c. longer = other
        BY <3>4
      <3> HIDE DEF longer, other
      <3>5. /\ longer \in Pointers /\ Last(longer) = x /\ Last(longer) = y
            /\ IsPrefix(u.path, longer) /\ IsPrefix(v.path, longer)
        BY <3>a, <3>b, <3>c
      <3>6. u.path = v.path /\ x = y
        BY <3>3, <3>5, PrefixesAgree
      <3>7. u = v
        BY <1>3, <3>6
      <3>8. i = j
        BY <3>3, <3>6, <3>7, <3>1, <3>2, NodesAssumption DEF IsClosed, IsChild, x, y
      <3> QED  BY <3>1, <3>2, <3>7, <3>8 DEF IsChild
    <2> QED  BY <2>1
  <1> HIDE DEF S
  <1>4. d \in S
    BY <1>2, <1>3, EveryNumber
  <1> QED  BY <1>4 DEF S

Passes(q, path) ==
    \E i \in DOMAIN Children(q.node) :
        /\ Children(q.node)[i][1] \in STRING
        /\ IsPrefix(Append(q.path, Children(q.node)[i][1]), path)

\* What goes on from the path of a place is there, or goes on to one of its children.
LEMMA WayDown ==
    ASSUME NEW root \in Nodes, NEW base \in Pointers, NEW m \in Nat, NEW p \in Level(root, base, m),
           NEW k \in 0 .. m, k # m
    PROVE  \E q \in Level(root, base, k) : Passes(q, p.path)
  <1> DEFINE S == {n \in Nat : k < n => \A r \in Level(root, base, n) :
                                         \E q \in Level(root, base, k) : Passes(q, r.path)}
  <1>1. 0 \in S
    OBVIOUS
  <1>2. ASSUME NEW n \in Nat, n \in S PROVE n + 1 \in S
    <2>1. ASSUME k < n + 1, NEW r \in Level(root, base, n + 1)
          PROVE  \E q \in Level(root, base, k) : Passes(q, r.path)
      <3>1. PICK u \in Level(root, base, n), i \in Nat : IsChild(u, i, r)
        BY LevelAbove
      <3> DEFINE key == Children(u.node)[i][1]
      <3>2. key \in STRING /\ r.path = Append(u.path, key) /\ u.path \in Pointers
        BY <3>1, PlaceIsItself DEF Place, IsChild
      <3>3. CASE k = n
        <4> HIDE DEF key
        <4> DEFINE longer == Append(u.path, key)
        <4>a. IsPrefix(longer, longer) /\ r.path = longer
          BY <3>2, LongerPath, Zenon
        <4> HIDE DEF longer
        <4>1. IsPrefix(longer, r.path)
          BY <4>a
        <4> USE DEF longer
        <4> QED  BY <3>1, <3>2, <3>3, <4>1 DEF Passes, IsChild, key
      <3>4. CASE k # n
        <4>1. k < n
          BY <2>1, <3>4
        <4>2. PICK q \in Level(root, base, k) : Passes(q, u.path)
          BY <1>2, <4>1
        <4>3. PICK j \in DOMAIN Children(q.node) :
                  /\ Children(q.node)[j][1] \in STRING
                  /\ IsPrefix(Append(q.path, Children(q.node)[j][1]), u.path)
          BY <4>2 DEF Passes
        <4>4. q.path \in Pointers
          BY LevelPaths, PlaceIsItself
        <4> DEFINE name == Children(q.node)[j][1]
        <4>5. name \in STRING /\ IsPrefix(Append(q.path, name), u.path)
          BY <4>3
        <4> HIDE DEF key, name
        <4>6. IsPrefix(Append(q.path, name), r.path)
          BY <3>2, <4>4, <4>5, PrefixGoesOn
        <4> QED  BY <4>3, <4>6 DEF name, Passes
      <3> QED  BY <3>3, <3>4
    <2> QED  BY <2>1
  <1> HIDE DEF S
  <1>3. m \in S
    BY <1>1, <1>2, EveryNumber
  <1>4. k < m
    OBVIOUS
  <1> QED  BY <1>3, <1>4 DEF S

LEMMA BelowPlace ==
    ASSUME NEW root \in Nodes, NEW base \in Pointers, NEW k \in Nat, NEW q \in Level(root, base, k),
           NEW m \in Nat, NEW p \in Level(root, base, m), IsPrefix(q.path, p.path)
    PROVE  p = q \/ Passes(q, p.path)
  <1>1. /\ q \in Places /\ Len(q.path) = Len(base) + k /\ q.path \in Pointers
        /\ p \in Places /\ Len(p.path) = Len(base) + m /\ p.path \in Pointers
    BY LevelPaths, PlaceIsItself
  <1>2. k <= m
    BY <1>1 DEF IsPrefix
  <1>3. CASE k = m
    <2>1. q.path = p.path
      BY <1>1, <1>3, PrefixOfItself, PrefixesAgree
    <2> QED  BY <1>3, <2>1, OnePlace
  <1>4. CASE k # m
    <2>1. PICK u \in Level(root, base, k) : Passes(u, p.path)
      BY <1>2, <1>4, WayDown
    <2>2. u.path \in Pointers /\ Len(u.path) = Len(base) + k
      BY LevelPaths, PlaceIsItself
    <2>3. IsPrefix(u.path, p.path)
      BY <1>1, <2>1, <2>2, PrefixGoesOn DEF Passes
    <2>4. u.path = q.path
      BY <1>1, <2>2, <2>3, PrefixesAgree
    <2>5. u = q
      BY <2>4, OnePlace
    <2> QED  BY <2>1, <2>5
  <1> QED  BY <1>3, <1>4

-----------------------------------------------------------------------------
(* Drawing.  A path is covered by a sheet that shows it, or names a region   *)
(* that it is in.                                                            *)

IsNamed(regions, path) == \E i \in DOMAIN regions : IsPrefix(regions[i].path, path)
IsCovered(sheet, path) ==
    [path |-> path, how |-> "value"] \in sheet.cells \/ IsNamed(sheet.omitted, path)

Grows(sheet, more) ==
    /\ sheet.cells \subseteq more.cells
    /\ \A path : IsNamed(sheet.omitted, path) => IsNamed(more.omitted, path)

Follows(sheet, more) == more \in Sheets /\ more.used = sheet.used /\ Grows(sheet, more)

LEMMA ShowTyped ==
    ASSUME NEW sheet \in Sheets, NEW path \in Pointers, NEW how \in {"value", "prefix", "marker"}
    PROVE  /\ Follows(sheet, Show(sheet, path, how))
           /\ [path |-> path, how |-> how] \in Show(sheet, path, how).cells
  <1>1. [path |-> path, how |-> how] \in Cells
    BY DEF Cells
  <1>2. sheet.cells \in SUBSET Cells /\ IsFiniteSet(sheet.cells)
    BY DEF Sheets, Previews
  <1>3. IsFiniteSet(sheet.cells \union {[path |-> path, how |-> how]})
    BY <1>2, FS_AddElement
  <1> QED  BY <1>1, <1>2, <1>3 DEF Show, Sheets, Previews, Follows, Grows

LEMMA OmitTyped ==
    ASSUME NEW sheet \in Sheets, NEW path \in Pointers, NEW reason \in OmissionReasons
    PROVE  /\ Follows(sheet, Omit(sheet, path, reason))
           /\ IsNamed(Omit(sheet, path, reason).omitted, path)
  <1> DEFINE region == [path |-> path, reason |-> reason]
             more == Append(sheet.omitted, region)
  <1>1. region \in Regions /\ region.path = path
    BY DEF Regions
  <1> HIDE DEF region
  <1>2. sheet.omitted \in Seq(Regions)
    BY DEF Sheets
  <1>3. /\ more \in Seq(Regions)
        /\ Len(more) = Len(sheet.omitted) + 1 /\ Len(sheet.omitted) \in Nat
        /\ DOMAIN more = 1 .. Len(more) /\ DOMAIN sheet.omitted = 1 .. Len(sheet.omitted)
        /\ \A i \in 1 .. Len(sheet.omitted) : more[i] = sheet.omitted[i]
        /\ more[Len(sheet.omitted) + 1] = region
    BY <1>1, <1>2, AppendProperties, LenProperties
  <1> HIDE DEF more
  <1>4. Omit(sheet, path, reason) = [sheet EXCEPT !.omitted = more]
    BY DEF Omit, more, region
  <1>5. /\ Omit(sheet, path, reason) \in Sheets
        /\ Omit(sheet, path, reason).used = sheet.used
        /\ Omit(sheet, path, reason).cells = sheet.cells
        /\ Omit(sheet, path, reason).omitted = more
    BY <1>3, <1>4 DEF Sheets
  <1>6. ASSUME NEW p, IsNamed(sheet.omitted, p) PROVE IsNamed(more, p)
    <2>1. PICK i \in 1 .. Len(sheet.omitted) : IsPrefix(sheet.omitted[i].path, p)
      BY <1>3, <1>6 DEF IsNamed
    <2>2. i \in DOMAIN more /\ more[i] = sheet.omitted[i]
      BY <1>3
    <2> QED  BY <2>1, <2>2 DEF IsNamed
  <1>7. IsNamed(more, path)
    <2>1. Len(sheet.omitted) + 1 \in DOMAIN more
      BY <1>3
    <2>2. IsPrefix(more[Len(sheet.omitted) + 1].path, path)
      BY <1>1, <1>3, PrefixOfItself
    <2> QED  BY <2>1, <2>2 DEF IsNamed
  <1> QED  BY <1>5, <1>6, <1>7 DEF Grows, Follows

LEMMA FollowsOn ==
    ASSUME NEW a, NEW b, NEW c, Follows(a, b), Follows(b, c)
    PROVE  Follows(a, c)
  BY DEF Follows, Grows

LEMMA OmitMarkedTyped ==
    ASSUME NEW sheet \in Sheets, NEW path \in Pointers, NEW reason \in OmissionReasons
    PROVE  /\ Follows(sheet, OmitMarked(sheet, path, reason))
           /\ IsNamed(OmitMarked(sheet, path, reason).omitted, path)
  <1> DEFINE shown == Show(sheet, path, "marker")
  <1>1. Follows(sheet, shown)
    BY ShowTyped, Zenon
  <1>2. OmitMarked(sheet, path, reason) = Omit(shown, path, reason)
    BY DEF OmitMarked
  <1> HIDE DEF shown
  <1>3. shown \in Sheets
    BY <1>1 DEF Follows
  <1>4. Follows(shown, Omit(shown, path, reason)) /\ IsNamed(Omit(shown, path, reason).omitted, path)
    BY <1>3, OmitTyped, Zenon
  <1> QED  BY <1>1, <1>2, <1>4, FollowsOn, Zenon

LEMMA MostBelowTyped ==
    ASSUME NEW node, NEW policy \in Policies
    PROVE  /\ MostBelow(node, policy) \in Nat
           /\ Max({policy.items, policy.fields}) \in Nat
           /\ MostBelow(node, policy) <= Max({policy.items, policy.fields})
  BY DEF MostBelow, Max, Policies

LEMMA SmallerOfTwo ==
    ASSUME NEW a \in Nat, NEW b \in Nat
    PROVE  Min({a, b}) = IF a <= b THEN a ELSE b
  BY DEF Min

\* What is drawn below a node are its first children.
LEMMA DrawnBelowTyped ==
    ASSUME NEW item \in Items, NEW policy \in Policies, NEW sheet \in Sheets
    PROVE  LET drawn == DrawnBelow(item, policy, sheet)
               kids == Children(item.node)
           IN  /\ drawn \in Seq(Items)
               /\ Len(drawn) <= Max({policy.items, policy.fields})
               /\ sheet.used >= policy.nodes => drawn = <<>>
               /\ \/ sheet.used >= policy.nodes \/ item.depth = 0
                  \/ Len(kids) > MostBelow(item.node, policy)
                  \/ Len(drawn) = Len(kids)
               /\ \A i \in 1 .. Len(drawn) :
                     /\ i \in DOMAIN kids
                     /\ drawn[i].node = kids[i][2]
                     /\ drawn[i].path = Append(item.path, kids[i][1])
  <1> DEFINE drawn == DrawnBelow(item, policy, sheet)
             kids == Children(item.node)
             most == MostBelow(item.node, policy)
             shown == Min({most, Len(kids)})
             below == [i \in 1 .. shown |->
                          ToDraw(kids[i][2], Append(item.path, kids[i][1]), item.depth - 1)]
  <1>1. item.node \in Nodes /\ item.path \in Pointers /\ item.depth \in Nat
    BY DEF Items
  <1>0. Len(kids) \in Nat /\ DOMAIN kids = 1 .. Len(kids)
    BY <1>1, ChildrenTyped
  <1>2. \A i \in DOMAIN kids : kids[i][1] \in STRING /\ kids[i][2] \in Nodes
    BY <1>1, ChildrenTyped
  <1>3. /\ most \in Nat /\ Max({policy.items, policy.fields}) \in Nat
        /\ most <= Max({policy.items, policy.fields})
    BY MostBelowTyped
  <1>4. drawn = IF sheet.used >= policy.nodes \/ item.depth = 0 THEN <<>> ELSE below
    BY DEF DrawnBelow
  <1> HIDE DEF drawn, kids, most
  <1>5. shown \in Nat /\ shown <= most /\ shown <= Len(kids)
        /\ (Len(kids) > most \/ shown = Len(kids))
    BY <1>0, <1>3, SmallerOfTwo
  <1> HIDE DEF shown
  <1>6. ASSUME item.depth # 0, NEW i \in 1 .. shown
        PROVE  /\ i \in DOMAIN kids
               /\ below[i] \in Items
               /\ below[i].node = kids[i][2]
               /\ below[i].path = Append(item.path, kids[i][1])
    <2>0. item.depth - 1 \in Nat
      BY <1>1, <1>6
    <2>1. i \in DOMAIN kids
      <3>1. shown \in Nat
        BY <1>5
      <3>2. \A w \in Nat : shown <= w => i \in 1 .. w
        BY <3>1
      <3> QED  BY <1>0, <1>5, <3>2, Zenon
    <2> DEFINE path == Append(item.path, kids[i][1])
    <2>2. path \in Pointers
      BY <1>1, <1>2, <2>1, PrefixGoesOn, Zenon
    <2>3. kids[i][2] \in Nodes
      BY <1>2, <2>1
    <2>4. below[i] = ToDraw(kids[i][2], path, item.depth - 1)
      OBVIOUS
    <2> HIDE DEF path, below
    <2>5. /\ below[i] \in Items
          /\ below[i].node = kids[i][2]
          /\ below[i].path = path
      BY <2>0, <2>2, <2>3, <2>4 DEF ToDraw, Items
    <2> QED  BY <2>1, <2>5 DEF path
  <1>7. item.depth # 0 => below \in Seq(Items) /\ Len(below) = shown
    BY <1>5, <1>6
  <1>8. CASE sheet.used >= policy.nodes \/ item.depth = 0
    <2>1. drawn = <<>>
      BY <1>4, <1>8
    <2>2. drawn \in Seq(Items) /\ Len(drawn) = 0
      BY <2>1
    <2> QED  BY <1>3, <1>8, <2>1, <2>2 DEF drawn, kids, most
  <1>9. CASE ~(sheet.used >= policy.nodes \/ item.depth = 0)
    <2>1. drawn = below
      BY <1>4, <1>9
    <2> HIDE DEF below
    <2>2. Len(drawn) <= Max({policy.items, policy.fields})
      BY <1>3, <1>5, <1>7, <1>9, <2>1
    <2>3. \A i \in 1 .. Len(drawn) : /\ i \in DOMAIN kids /\ drawn[i].node = kids[i][2]
                                     /\ drawn[i].path = Append(item.path, kids[i][1])
      BY <1>6, <1>7, <1>9, <2>1
    <2>4. drawn \in Seq(Items) /\ (Len(kids) > most \/ Len(drawn) = Len(kids))
      BY <1>5, <1>7, <1>9, <2>1
    <2> QED  BY <1>9, <2>2, <2>3, <2>4 DEF drawn, kids, most
  <1> QED  BY <1>8, <1>9

\* What is not nested has nothing below it.
LEMMA LeafHasNone ==
    ASSUME NEW node, ~IsNested(node)
    PROVE  Children(node) = <<>>
  BY DEF IsNested, Children

\* The path of a node is covered once it is drawn; and unless all that is
\* below it is drawn, it is named as omitted.
LEMMA DrawNodeCovers ==
    ASSUME NEW item \in Items, NEW policy \in Policies, NEW sheet \in Sheets
    PROVE  LET drawn == DrawNode(item, policy, sheet)
           IN  /\ drawn \in Sheets /\ Grows(sheet, drawn)
               /\ drawn.used = IF sheet.used >= policy.nodes THEN sheet.used ELSE sheet.used + 1
               /\ IsCovered(drawn, item.path)
               /\ \/ IsNamed(drawn.omitted, item.path)
                  \/ ~(sheet.used >= policy.nodes)
                     /\ (IsNested(item.node) => item.depth # 0)
                     /\ ~(IsNested(item.node)
                          /\ Len(Children(item.node)) > MostBelow(item.node, policy))
  <1> DEFINE path == item.path
             used == [sheet EXCEPT !.used = @ + 1]
             shown == Show(used, path, "value")
             prefix == Show(used, path, "prefix")
             long == IF item.node.type = "array" THEN "long_array" ELSE "many_fields"
             over == sheet.used >= policy.nodes
             redacted == IsRedacted(item.node)
             large == item.node.type = "string" /\ ~IsRedacted(item.node)
                      /\ Len(item.node.lines) > policy.chars
             deep == IsNested(item.node) /\ item.depth = 0
             wide == IsNested(item.node) /\ item.depth # 0
                     /\ Len(Children(item.node)) > MostBelow(item.node, policy)
             drawn == DrawNode(item, policy, sheet)
  <1>1. drawn = CASE over -> OmitMarked(sheet, path, "node_budget")
                  [] OTHER ->
                     CASE redacted -> OmitMarked(used, path, "redacted")
                       [] large -> Omit(prefix, path, "large_string")
                       [] deep -> OmitMarked(used, path, "deep_object")
                       [] wide -> Omit(shown, path, long)
                       [] OTHER -> shown
    BY DEF DrawNode
  <1>2. path \in Pointers /\ sheet.used \in Nat /\ policy.nodes \in Nat
    BY DEF Items, Sheets, Policies
  <1>3. used \in Sheets /\ used.used = sheet.used + 1 /\ Grows(sheet, used)
    BY DEF Sheets, Grows
  <1> HIDE DEF used, drawn, path, over, redacted, large, deep, wide
  <1> DEFINE Good(more, n) == more \in Sheets /\ Grows(sheet, more) /\ more.used = n
  <1>4. \A more : Follows(used, more) => Good(more, sheet.used + 1)
    BY <1>3 DEF Follows, Grows
  <1>5. \A more : Follows(sheet, more) => Good(more, sheet.used)
    BY DEF Follows
  <1>6. long \in OmissionReasons
    BY DEF OmissionReasons
  <1> HIDE DEF Good, long
  <1>7. Follows(used, shown) /\ [path |-> path, how |-> "value"] \in shown.cells
    BY <1>2, <1>3, ShowTyped, Zenon
  <1>8. Follows(used, prefix)
    BY <1>2, <1>3, ShowTyped, Zenon
  <1>9. shown \in Sheets /\ prefix \in Sheets
    BY <1>7, <1>8 DEF Follows
  <1> HIDE DEF shown, prefix
  <1> DEFINE Named(more, n) == Good(more, n) /\ IsNamed(more.omitted, path)
  <1>10. Named(OmitMarked(sheet, path, "node_budget"), sheet.used)
    BY <1>2, <1>5, OmitMarkedTyped, Zenon DEF OmissionReasons
  <1>11. /\ Named(OmitMarked(used, path, "redacted"), sheet.used + 1)
         /\ Named(OmitMarked(used, path, "deep_object"), sheet.used + 1)
    BY <1>2, <1>3, <1>4, OmitMarkedTyped, Zenon DEF OmissionReasons
  <1>12. Named(Omit(prefix, path, "large_string"), sheet.used + 1)
    <2>1. /\ Follows(prefix, Omit(prefix, path, "large_string"))
          /\ IsNamed(Omit(prefix, path, "large_string").omitted, path)
      BY <1>2, <1>9, OmitTyped, Zenon DEF OmissionReasons
    <2> QED  BY <1>4, <1>8, <2>1, FollowsOn, Zenon
  <1>13. Named(Omit(shown, path, long), sheet.used + 1)
    <2>1. Follows(shown, Omit(shown, path, long)) /\ IsNamed(Omit(shown, path, long).omitted, path)
      BY <1>2, <1>6, <1>9, OmitTyped, Zenon
    <2> QED  BY <1>4, <1>7, <2>1, FollowsOn, Zenon
  <1>14. Good(shown, sheet.used + 1)
    BY <1>4, <1>7
  <1> HIDE DEF Named
  <1>15. CASE over
    <2>1. Named(drawn, sheet.used)
      BY <1>1, <1>10, <1>15
    <2> QED  BY <1>15, <2>1 DEF over, path, IsCovered, drawn, Named, Good
  <1>16. CASE ~over /\ (redacted \/ large \/ deep \/ wide)
    <2>1. Named(drawn, sheet.used + 1)
      BY <1>1, <1>11, <1>12, <1>13, <1>16
    <2> QED  BY <1>16, <2>1 DEF over, path, IsCovered, drawn, Named, Good
  <1>17. CASE ~over /\ ~(redacted \/ large \/ deep \/ wide)
    <2>1. drawn = shown
      BY <1>1, <1>17
    <2> QED  BY <1>7, <1>14, <1>17, <2>1 DEF over, path, drawn, deep, wide, IsCovered, Good
  <1> QED  BY <1>15, <1>16, <1>17

-----------------------------------------------------------------------------
(* The pass over what is left to draw.                                       *)

Begun(node, base, policy) ==
    [sheet |-> EmptySheet, left |-> <<ToDraw(node, base, policy.depth)>>]

LEMMA BegunTyped ==
    ASSUME NEW node \in Nodes, NEW base \in Pointers, NEW policy \in Policies
    PROVE  Begun(node, base, policy) \in Drawings
  <1>1. ToDraw(node, base, policy.depth) \in Items
    BY DEF ToDraw, Items, Policies
  <1>2. EmptySheet \in Sheets
    BY FS_EmptySet DEF EmptySheet, Sheets, Previews
  <1> QED  BY <1>1, <1>2 DEF Begun, Drawings

LEMMA DrawFirstTyped ==
    ASSUME NEW drawing \in Drawings, NEW policy \in Policies
    PROVE  DrawFirst(drawing, policy) \in Drawings
  <1> DEFINE item == Head(drawing.left)
             rest == Tail(drawing.left)
             sheet == DrawNode(item, policy, drawing.sheet)
             below == DrawnBelow(item, policy, drawing.sheet)
  <1>1. drawing.sheet \in Sheets /\ drawing.left \in Seq(Items)
    BY DEF Drawings
  <1>2. CASE drawing.left = <<>>
    BY <1>2 DEF DrawFirst
  <1>3. CASE drawing.left # <<>>
    <2>1. item \in Items /\ rest \in Seq(Items)
      BY <1>1, <1>3, HeadTailProperties
    <2>2. DrawFirst(drawing, policy) = [sheet |-> sheet, left |-> below \o rest]
      BY <1>3 DEF DrawFirst
    <2> HIDE DEF item, rest
    <2>3. sheet \in Sheets /\ below \in Seq(Items)
      BY <1>1, <2>1, DrawNodeCovers, DrawnBelowTyped
    <2> HIDE DEF sheet, below
    <2>4. below \o rest \in Seq(Items)
      BY <2>1, <2>3, ConcatProperties
    <2> QED  BY <2>2, <2>3, <2>4 DEF Drawings
  <1> QED  BY <1>2, <1>3

LEMMA DrawingUnfolds ==
    ASSUME NEW node \in Nodes, NEW base \in Pointers, NEW policy \in Policies
    PROVE  /\ Drawing(node, policy, base, 0) = Begun(node, base, policy)
           /\ \A n \in Nat : /\ Drawing(node, policy, base, n) \in Drawings
                             /\ Drawing(node, policy, base, n + 1)
                                = DrawFirst(Drawing(node, policy, base, n), policy)
  <1> DEFINE begun == Begun(node, base, policy)
             step == [nx \in Nat \X Drawings |-> DrawFirst(nx[2], policy)]
             IsDrawing(f) == f = [n \in Nat |-> IF n = 0 THEN begun
                                                ELSE DrawFirst(f[n - 1], policy)]
             drawing == CHOOSE f : IsDrawing(f)
  <1>1. begun \in Drawings
    BY BegunTyped
  <1>2. step \in [Nat \X Drawings -> Drawings]
    BY DrawFirstTyped
  <1>3. \A n \in Nat : Drawing(node, policy, base, n) = drawing[n]
    BY DEF Drawing, Begun
  <1> HIDE DEF begun, step
  <1>4. PICK f : IsRecursion(f, Drawings, begun, step)
    BY <1>1, <1>2, Recursion, Zenon
  <1>5. IsDrawing(f)
    <2>1. ASSUME NEW n \in Nat, n # 0
          PROVE  step[<<n, f[n - 1]>>] = DrawFirst(f[n - 1], policy)
      <3>1. n - 1 \in Nat
        BY <2>1
      <3>2. f[n - 1] \in Drawings
        BY <1>4, <3>1 DEF IsRecursion
      <3> QED  BY <3>2 DEF step
    <2> QED  BY <1>4, <2>1 DEF IsRecursion
  <1> HIDE DEF IsDrawing
  <1>6. IsDrawing(drawing)
    BY <1>5, Zenon
  <1> USE DEF IsDrawing
  <1> HIDE DEF drawing
  <1>7. drawing[0] = begun /\ \A n \in Nat : drawing[n + 1] = DrawFirst(drawing[n], policy)
    <2>1. \A n \in Nat : n + 1 \in Nat /\ n + 1 # 0 /\ n + 1 - 1 = n
      OBVIOUS
    <2> QED  BY <1>6, <2>1
  <1> DEFINE S == {n \in Nat : drawing[n] \in Drawings}
  <1>8. 0 \in S
    BY <1>1, <1>7
  <1>9. \A n \in Nat : n \in S => n + 1 \in S
    BY <1>7, DrawFirstTyped
  <1> HIDE DEF S
  <1>10. \A n \in Nat : n \in S
    BY <1>8, <1>9, EveryNumber
  <1> QED  BY <1>3, <1>7, <1>10 DEF begun, S

-----------------------------------------------------------------------------
(* Every place of the tree is covered, or is still to be drawn.              *)

IsLeft(left, q) ==
    \E i \in DOMAIN left : \E e \in Nat : q \in Level(left[i].node, left[i].path, e)

Accounted(drawing, root) ==
    \A d \in Nat : \A q \in LevelOf(root, d) :
        IsCovered(drawing.sheet, q.path) \/ IsLeft(drawing.left, q)

LEMMA PrefixTransitive ==
    ASSUME NEW r \in Pointers, NEW s \in Pointers, NEW t \in Pointers,
           IsPrefix(r, s), IsPrefix(s, t)
    PROVE  IsPrefix(r, t)
  <1>1. \A a, b \in Pointers :
           IsPrefix(a, b) <=> Len(a) <= Len(b) /\ \A i \in 1 .. Len(a) : a[i] = b[i]
    BY PrefixAgrees, Zenon DEF Pointers
  <1>2. Len(r) \in Nat /\ Len(s) \in Nat /\ Len(t) \in Nat
    BY LenProperties DEF Pointers
  <1>3. /\ Len(r) <= Len(s) /\ \A i \in 1 .. Len(r) : r[i] = s[i]
        /\ Len(s) <= Len(t) /\ \A i \in 1 .. Len(s) : s[i] = t[i]
    BY <1>1
  <1>4. \A i \in 1 .. Len(r) : i \in 1 .. Len(s)
    BY <1>2, <1>3
  <1>5. Len(r) <= Len(t) /\ \A i \in 1 .. Len(r) : r[i] = t[i]
    BY <1>2, <1>3, <1>4
  <1> QED  BY <1>1, <1>5

LEMMA NamedAbove ==
    ASSUME NEW sheet \in Sheets, NEW path \in Pointers, NEW longer \in Pointers,
           IsNamed(sheet.omitted, path), IsPrefix(path, longer)
    PROVE  IsNamed(sheet.omitted, longer)
  <1>1. PICK i \in DOMAIN sheet.omitted : IsPrefix(sheet.omitted[i].path, path)
    BY DEF IsNamed
  <1>2. sheet.omitted \in Seq(Regions)
    BY DEF Sheets
  <1>3. sheet.omitted[i] \in Regions
    BY <1>2, ElementOfSeq
  <1>4. sheet.omitted[i].path \in Pointers
    BY <1>3 DEF Regions
  <1>5. IsPrefix(sheet.omitted[i].path, longer)
    BY <1>1, <1>4, PrefixTransitive
  <1> QED  BY <1>5 DEF IsNamed

\* A place below a node is covered when the node is drawn, or is below one of
\* those that are drawn next.
LEMMA DrawnCoversOrLeaves ==
    ASSUME NEW item \in Items, NEW policy \in Policies, NEW sheet \in Sheets,
           NEW e \in Nat, NEW q \in Level(item.node, item.path, e)
    PROVE  \/ IsCovered(DrawNode(item, policy, sheet), q.path)
           \/ IsLeft(DrawnBelow(item, policy, sheet), q)
  <1> DEFINE place == Place(item.node, item.path)
             drawn == DrawNode(item, policy, sheet)
             below == DrawnBelow(item, policy, sheet)
             kids == Children(item.node)
  <1>1. item.node \in Nodes /\ item.path \in Pointers
    BY DEF Items
  <1>2. place \in Places /\ place.node = item.node /\ place.path = item.path
    BY <1>1 DEF Place, Places
  <1>3. q \in LevelOf(place, e)
    BY <1>2 DEF LevelOf
  <1>4. q.path \in Pointers /\ IsPrefix(item.path, q.path)
    BY <1>2, <1>3, LevelIsBelow, PlaceIsItself
  <1>5. /\ drawn \in Sheets
        /\ IsCovered(drawn, item.path)
        /\ \/ IsNamed(drawn.omitted, item.path)
           \/ ~(sheet.used >= policy.nodes)
              /\ (IsNested(item.node) => item.depth # 0)
              /\ ~(IsNested(item.node) /\ Len(kids) > MostBelow(item.node, policy))
    BY DrawNodeCovers
  <1>6. /\ below \in Seq(Items)
        /\ \/ sheet.used >= policy.nodes \/ item.depth = 0
           \/ Len(kids) > MostBelow(item.node, policy)
           \/ Len(below) = Len(kids)
        /\ \A i \in 1 .. Len(below) : below[i].node = kids[i][2]
                                   /\ below[i].path = Append(item.path, kids[i][1])
    BY DrawnBelowTyped
  <1> HIDE DEF place, drawn, below
  <1>7. CASE IsNamed(drawn.omitted, item.path)
    <2>1. IsNamed(drawn.omitted, q.path)
      BY <1>1, <1>4, <1>5, <1>7, NamedAbove
    <2> QED  BY <2>1 DEF IsCovered, drawn
  <1>8. CASE e = 0
    <2>1. q.path = item.path
      BY <1>1, <1>8, LevelUnfolds DEF Place
    <2> QED  BY <1>5, <2>1 DEF drawn
  <1>9. CASE ~IsNamed(drawn.omitted, item.path) /\ e # 0
    <2>1. e - 1 \in Nat /\ e - 1 + 1 = e
      BY <1>9
    <2>2. PICK b \in PlacesBelow(place) : q \in LevelOf(b, e - 1)
      BY <1>2, <1>3, <2>1, LevelFromBelow
    <2>3. PICK j \in DOMAIN kids : b = Place(kids[j][2], Append(item.path, kids[j][1]))
      BY <1>2, <2>2 DEF PlacesBelow
    <2>4. IsNested(item.node)
      <3>1. kids # <<>>
        BY <2>3
      <3> QED  BY <3>1, LeafHasNone
    <2>5. Len(below) = Len(kids)
      BY <1>5, <1>6, <1>9, <2>4
    <2>6. DOMAIN kids = 1 .. Len(kids) /\ DOMAIN below = 1 .. Len(below)
      BY <1>1, <1>6, ChildrenTyped, LenProperties
    <2> HIDE DEF kids
    <2>7. /\ j \in DOMAIN below
          /\ below[j].node = kids[j][2] /\ below[j].path = Append(item.path, kids[j][1])
      BY <1>6, <2>3, <2>5, <2>6
    <2>8. b.node = below[j].node /\ b.path = below[j].path
      BY <2>3, <2>7 DEF Place
    <2>9. q \in Level(below[j].node, below[j].path, e - 1)
      BY <2>2, <2>8 DEF LevelOf
    <2> QED  BY <2>1, <2>7, <2>9 DEF IsLeft, below
  <1> QED  BY <1>7, <1>8, <1>9

\* One sequence after another.
LEMMA ConcatParts ==
    ASSUME NEW S, NEW a \in Seq(S), NEW b \in Seq(S)
    PROVE  /\ a \o b \in Seq(S)
           /\ DOMAIN (a \o b) = 1 .. Len(a) + Len(b)
           /\ Len(a) \in Nat /\ Len(b) \in Nat
           /\ DOMAIN a = 1 .. Len(a) /\ DOMAIN b = 1 .. Len(b)
           /\ \A i \in 1 .. Len(a) : (a \o b)[i] = a[i]
           /\ \A i \in 1 .. Len(b) : (a \o b)[Len(a) + i] = b[i]
  OBVIOUS

LEMMA DrawFirstAccounts ==
    ASSUME NEW drawing \in Drawings, NEW policy \in Policies, NEW root,
           Accounted(drawing, root)
    PROVE  Accounted(DrawFirst(drawing, policy), root)
  <1> DEFINE item == Head(drawing.left)
             rest == Tail(drawing.left)
             sheet == DrawNode(item, policy, drawing.sheet)
             below == DrawnBelow(item, policy, drawing.sheet)
  <1>1. drawing.sheet \in Sheets /\ drawing.left \in Seq(Items)
    BY DEF Drawings
  <1>2. CASE drawing.left = <<>>
    BY <1>2 DEF DrawFirst
  <1>3. CASE drawing.left # <<>>
    <2>1. /\ item \in Items /\ rest \in Seq(Items) /\ item = drawing.left[1]
          /\ Len(rest) = Len(drawing.left) - 1
          /\ \A i \in 1 .. Len(rest) : rest[i] = drawing.left[i + 1]
          /\ Len(drawing.left) \in Nat /\ DOMAIN drawing.left = 1 .. Len(drawing.left)
      BY <1>1, <1>3, HeadTailProperties, LenProperties
    <2>2. DrawFirst(drawing, policy) = [sheet |-> sheet, left |-> below \o rest]
      BY <1>3 DEF DrawFirst
    <2>3. \A e \in Nat : \A q \in Level(item.node, item.path, e) :
             IsCovered(sheet, q.path) \/ IsLeft(below, q)
      BY <1>1, <2>1, DrawnCoversOrLeaves
    <2>4. sheet \in Sheets /\ Grows(drawing.sheet, sheet) /\ below \in Seq(Items)
      BY <1>1, <2>1, DrawNodeCovers, DrawnBelowTyped
    <2> HIDE DEF item, rest, sheet, below
    <2>0. below \in Seq(Items) /\ rest \in Seq(Items)
      BY <2>1, <2>4
    <2>5. /\ DOMAIN (below \o rest) = 1 .. Len(below) + Len(rest)
          /\ Len(below) \in Nat /\ Len(rest) \in Nat /\ DOMAIN below = 1 .. Len(below)
          /\ \A i \in 1 .. Len(below) : (below \o rest)[i] = below[i]
          /\ \A i \in 1 .. Len(rest) : (below \o rest)[Len(below) + i] = rest[i]
      BY <2>0, ConcatParts
    <2> DEFINE left == below \o rest
    <2> HIDE DEF left
    <2>6. ASSUME NEW q, IsLeft(below, q) PROVE IsLeft(left, q)
      <3>1. PICK i \in 1 .. Len(below) :
                \E e \in Nat : q \in Level(below[i].node, below[i].path, e)
        BY <2>5, <2>6 DEF IsLeft
      <3>2. i \in DOMAIN left /\ left[i] = below[i]
        BY <2>5 DEF left
      <3> QED  BY <3>1, <3>2 DEF IsLeft
    <2>7. ASSUME NEW q, IsLeft(drawing.left, q)
          PROVE  IsCovered(sheet, q.path) \/ IsLeft(left, q)
      <3>1. PICK i \in 1 .. Len(drawing.left) :
                \E e \in Nat : q \in Level(drawing.left[i].node, drawing.left[i].path, e)
        BY <2>1, <2>7 DEF IsLeft
      <3>2. CASE i = 1
        BY <2>1, <2>3, <2>6, <3>1, <3>2
      <3>3. CASE i # 1
        <4>1. i - 1 \in 1 .. Len(rest) /\ i - 1 + 1 = i
          BY <2>1, <3>3
        <4>2. rest[i - 1] = drawing.left[i]
          BY <2>1, <4>1
        <4> DEFINE k == Len(below) + (i - 1)
        <4>3. k \in DOMAIN left /\ left[k] = drawing.left[i]
          BY <2>5, <4>1, <4>2 DEF left
        <4> HIDE DEF k
        <4> QED  BY <3>1, <4>3 DEF IsLeft
      <3> QED  BY <3>2, <3>3
    <2>8. ASSUME NEW path, IsCovered(drawing.sheet, path) PROVE IsCovered(sheet, path)
      BY <2>4, <2>8 DEF IsCovered, Grows
    <2>9. DrawFirst(drawing, policy).sheet = sheet /\ DrawFirst(drawing, policy).left = left
      BY <2>2 DEF left
    <2> QED  BY <2>7, <2>8, <2>9 DEF Accounted
  <1> QED  BY <1>2, <1>3

-----------------------------------------------------------------------------
(* The pass ends: a step opens a node of the budget, or leaves one out.      *)

StepsLeft(drawing, policy) ==
    Len(drawing.left) + (policy.nodes - drawing.sheet.used) * Max({policy.items, policy.fields})

LEMMA OneTimeLess ==
    ASSUME NEW a \in Nat, NEW b \in Nat, NEW m \in Nat, a = b + 1
    PROVE  a * m = b * m + m /\ a * m \in Nat /\ b * m \in Nat
  OBVIOUS

LEMMA DrawFirstUses ==
    ASSUME NEW drawing \in Drawings, NEW policy \in Policies,
           drawing.sheet.used <= policy.nodes, drawing.left # <<>>
    PROVE  LET next == DrawFirst(drawing, policy)
           IN  /\ next.sheet.used <= policy.nodes
               /\ StepsLeft(next, policy) + 1 <= StepsLeft(drawing, policy)
               /\ StepsLeft(next, policy) \in Nat
  <1> DEFINE item == Head(drawing.left)
             rest == Tail(drawing.left)
             sheet == DrawNode(item, policy, drawing.sheet)
             below == DrawnBelow(item, policy, drawing.sheet)
             most == Max({policy.items, policy.fields})
             over == drawing.sheet.used >= policy.nodes
             used == drawing.sheet.used
             next == DrawFirst(drawing, policy)
  <1>1. drawing.sheet \in Sheets /\ drawing.left \in Seq(Items)
    BY DEF Drawings
  <1>2. used \in Nat /\ policy.nodes \in Nat /\ most \in Nat /\ used <= policy.nodes
    BY <1>1, MostBelowTyped DEF Sheets, Policies
  <1>3. /\ item \in Items /\ rest \in Seq(Items)
        /\ Len(rest) = Len(drawing.left) - 1
        /\ Len(drawing.left) \in Nat /\ Len(rest) \in Nat
    BY <1>1, HeadTailProperties, LenProperties
  <1>4. next = [sheet |-> sheet, left |-> below \o rest]
    BY DEF DrawFirst
  <1> HIDE DEF item, rest, next
  <1>5. /\ below \in Seq(Items) /\ Len(below) <= most
        /\ over => below = <<>>
    BY <1>1, <1>3, DrawnBelowTyped
  <1>6. sheet.used = IF over THEN used ELSE used + 1
    BY <1>1, <1>3, DrawNodeCovers
  <1> HIDE DEF sheet, below
  <1>7. Len(below \o rest) = Len(below) + Len(rest) /\ Len(below) \in Nat
    BY <1>3, <1>5, ConcatProperties, LenProperties
  <1>8. next.sheet.used = sheet.used /\ Len(next.left) = Len(below) + Len(rest)
    BY <1>4, <1>7
  <1> DEFINE n == Len(drawing.left)
             b == Len(below)
             now == (policy.nodes - used) * most
             then == (policy.nodes - sheet.used) * most
  <1>9. StepsLeft(drawing, policy) = n + now
    BY DEF StepsLeft
  <1>10. StepsLeft(next, policy) = b + (n - 1) + then
    BY <1>3, <1>7, <1>8 DEF StepsLeft
  <1>11. /\ sheet.used <= policy.nodes /\ then \in Nat /\ now \in Nat
         /\ b + then <= now
    <2>1. CASE over
      <3>1. sheet.used = used /\ policy.nodes - used = 0
        BY <1>2, <1>6, <2>1
      <3>2. 0 * most = 0
        BY <1>2
      <3>3. b = 0
        BY <1>5, <2>1
      <3> QED  BY <1>2, <3>1, <3>2, <3>3
    <2>2. CASE ~over
      <3>1. /\ sheet.used = used + 1 /\ sheet.used <= policy.nodes
            /\ policy.nodes - used \in Nat /\ policy.nodes - sheet.used \in Nat
            /\ policy.nodes - used = (policy.nodes - sheet.used) + 1
        BY <1>2, <1>6, <2>2
      <3> DEFINE before == policy.nodes - used
                 after == policy.nodes - sheet.used
      <3>2. now = then + most /\ now \in Nat /\ then \in Nat
        <4>1. before \in Nat /\ after \in Nat /\ before = after + 1 /\ most \in Nat
          BY <1>2, <3>1
        <4> HIDE DEF before, after, most
        <4>2. /\ before * most = after * most + most
              /\ before * most \in Nat /\ after * most \in Nat
          BY <4>1, OneTimeLess
        <4> QED  BY <4>2 DEF before, after, most
      <3> HIDE DEF now, then
      <3> QED  BY <1>2, <1>5, <1>7, <3>1, <3>2
    <2> QED  BY <2>1, <2>2
  <1>12. b \in Nat /\ n \in Nat /\ n - 1 \in Nat
    BY <1>3, <1>7
  <1> HIDE DEF now, then, n, b
  <1>13. b + (n - 1) + then + 1 <= n + now /\ b + (n - 1) + then \in Nat
    BY <1>11, <1>12
  <1> QED  BY <1>8, <1>9, <1>10, <1>11, <1>13 DEF next

\* What is not shown of a tree is under a region that is named.
THEOREM ProjectCovers ==
    ASSUME NEW node \in Nodes, NEW base \in Pointers, NEW policy \in Policies
    PROVE  /\ Project(node, policy, base) \in Sheets
           /\ \A path \in PathsOf(node, base) : IsCovered(Project(node, policy, base), path)
  <1> DEFINE root == Place(node, base)
             at(n) == Drawing(node, policy, base, n)
             most == MostDrawn(policy)
             Holds(n) == /\ at(n).sheet.used <= policy.nodes
                         /\ Accounted(at(n), root)
                         /\ \/ at(n).left = <<>>
                            \/ StepsLeft(at(n), policy) \in Nat /\ n + StepsLeft(at(n), policy) <= most
             S == {n \in Nat : Holds(n)}
  <1>1. /\ at(0) = Begun(node, base, policy)
        /\ \A n \in Nat : at(n) \in Drawings /\ at(n + 1) = DrawFirst(at(n), policy)
    BY DrawingUnfolds
  <1>2. /\ root \in Places
        /\ \A d \in Nat : LevelOf(root, d) = Level(node, base, d)
    BY DEF root, LevelOf, Place, Places
  <1>3. policy.nodes \in Nat /\ Max({policy.items, policy.fields}) \in Nat
    BY MostBelowTyped DEF Policies
  <1>4. most \in Nat /\ most = 1 + policy.nodes * Max({policy.items, policy.fields})
    BY <1>3 DEF MostDrawn
  <1> HIDE DEF at, root, most
  <1>5. Holds(0)
    <2>1. /\ at(0).sheet.used = 0
          /\ at(0).left = <<ToDraw(node, base, policy.depth)>>
      BY <1>1 DEF Begun, EmptySheet
    <2>2. /\ Len(at(0).left) = 1 /\ DOMAIN at(0).left = 1 .. 1
          /\ at(0).left[1] = ToDraw(node, base, policy.depth)
      BY <2>1
    <2>3. Accounted(at(0), root)
      <3>1. ASSUME NEW d \in Nat, NEW q \in Level(node, base, d)
            PROVE  IsLeft(at(0).left, q)
        <4>1. at(0).left[1].node = node /\ at(0).left[1].path = base
          BY <2>2 DEF ToDraw
        <4>2. 1 \in DOMAIN at(0).left
          BY <2>2
        <4> QED  BY <3>1, <4>1, <4>2 DEF IsLeft
      <3> QED  BY <1>2, <3>1 DEF Accounted
    <2>4. StepsLeft(at(0), policy) = most
      <3>1. policy.nodes - at(0).sheet.used = policy.nodes
        BY <1>3, <2>1
      <3> QED  BY <1>4, <2>2, <3>1 DEF StepsLeft
    <2> QED  BY <1>3, <1>4, <2>1, <2>3, <2>4
  <1>6. ASSUME NEW n \in Nat, Holds(n) PROVE Holds(n + 1)
    <2>1. at(n) \in Drawings /\ at(n + 1) = DrawFirst(at(n), policy)
      BY <1>1
    <2>2. Accounted(at(n + 1), root)
      BY <1>6, <2>1, DrawFirstAccounts
    <2>3. CASE at(n).left = <<>>
      <3>1. at(n + 1) = at(n)
        BY <2>1, <2>3 DEF DrawFirst
      <3> QED  BY <1>6, <2>2, <2>3, <3>1
    <2>4. CASE at(n).left # <<>>
      <3>1. /\ at(n + 1).sheet.used <= policy.nodes
            /\ StepsLeft(at(n + 1), policy) + 1 <= StepsLeft(at(n), policy)
            /\ StepsLeft(at(n + 1), policy) \in Nat
        BY <1>6, <2>1, <2>4, DrawFirstUses
      <3>2. StepsLeft(at(n), policy) \in Nat /\ n + StepsLeft(at(n), policy) <= most
        BY <1>6, <2>4
      <3>3. n + 1 + StepsLeft(at(n + 1), policy) <= most
        BY <1>4, <3>1, <3>2
      <3> QED  BY <2>2, <3>1, <3>3
    <2> QED  BY <2>3, <2>4
  <1>7. Holds(most)
    <2>1. 0 \in S
      BY <1>5
    <2>2. \A n \in Nat : n \in S => n + 1 \in S
      BY <1>6
    <2>3. most \in S
      <3> HIDE DEF S
      <3> QED  BY <1>4, <2>1, <2>2, EveryNumber
    <2> QED  BY <2>3
  <1>8. at(most) \in Drawings
    BY <1>1, <1>4
  <1>9. at(most).left = <<>>
    <2>1. at(most).sheet \in Sheets /\ at(most).left \in Seq(Items)
      BY <1>8 DEF Drawings
    <2> DEFINE opens == policy.nodes - at(most).sheet.used
    <2>2. at(most).sheet.used \in Nat /\ opens \in Nat
      BY <1>3, <1>7, <2>1 DEF Sheets
    <2> DEFINE room == opens * Max({policy.items, policy.fields})
    <2>3. room \in Nat
      BY <1>3, <2>2
    <2>4. StepsLeft(at(most), policy) = Len(at(most).left) + room
      BY DEF StepsLeft
    <2> HIDE DEF opens, room
    <2>5. SUFFICES ASSUME at(most).left # <<>> PROVE FALSE
      OBVIOUS
    <2>6. StepsLeft(at(most), policy) <= 0
      BY <1>4, <1>7, <2>5
    <2>7. Len(at(most).left) \in Nat /\ Len(at(most).left) # 0
      BY <2>1, <2>5, EmptySeq, LenProperties
    <2> QED  BY <2>3, <2>4, <2>6, <2>7
  <1>10. Project(node, policy, base) = at(most).sheet
    BY DEF Project, at, most
  <1>11. ASSUME NEW path \in PathsOf(node, base) PROVE IsCovered(at(most).sheet, path)
    <2>1. PICK d \in 0 .. Deepest : \E q \in Level(node, base, d) : path = q.path
      BY DEF PathsOf, PlacesOf
    <2>2. d \in Nat
      BY <2>1, PathsAssumption
    <2>3. PICK q \in Level(node, base, d) : path = q.path
      BY <2>1
    <2>4. IsCovered(at(most).sheet, q.path) \/ IsLeft(at(most).left, q)
      BY <1>2, <1>7, <2>2 DEF Accounted
    <2>5. ~IsLeft(at(most).left, q)
      BY <1>9 DEF IsLeft
    <2> QED  BY <2>3, <2>4, <2>5
  <1> QED  BY <1>8, <1>10, <1>11 DEF Drawings

-----------------------------------------------------------------------------
(* A projection under the limits that are asked for, and those of a view.    *)

LEMMA AddOnceTyped ==
    ASSUME NEW S, NEW s \in Seq(S), NEW r \in S
    PROVE  /\ AddOnce(s, r) \in Seq(S)
           /\ ToSet(AddOnce(s, r)) = ToSet(s) \union {r}
  <1>1. CASE r \in ToSet(s)
    BY <1>1 DEF AddOnce
  <1>2. CASE r \notin ToSet(s)
    <2>1. AddOnce(s, r) = Append(s, r)
      BY <1>2 DEF AddOnce
    <2> DEFINE more == Append(s, r)
    <2>2. /\ more \in Seq(S) /\ Len(s) \in Nat /\ DOMAIN s = 1 .. Len(s)
          /\ DOMAIN more = 1 .. Len(s) + 1
          /\ \A i \in 1 .. Len(s) : more[i] = s[i]
          /\ more[Len(s) + 1] = r
      BY AppendProperties, LenProperties
    <2> HIDE DEF more
    <2>3. ToSet(more) = ToSet(s) \union {r}
      <3>1. ASSUME NEW x \in ToSet(s) PROVE x \in ToSet(more)
        <4>1. PICK i \in 1 .. Len(s) : x = s[i]
          BY <2>2 DEF ToSet
        <4>2. i \in DOMAIN more /\ x = more[i]
          BY <2>2, <4>1
        <4> QED  BY <4>2 DEF ToSet
      <3>2. r \in ToSet(more)
        <4>1. Len(s) + 1 \in DOMAIN more
          BY <2>2
        <4> QED  BY <2>2, <4>1 DEF ToSet
      <3>3. ASSUME NEW x \in ToSet(more) PROVE x \in ToSet(s) \union {r}
        <4>1. PICK i \in 1 .. Len(s) + 1 : x = more[i]
          BY <2>2 DEF ToSet
        <4>2. CASE i = Len(s) + 1
          BY <2>2, <4>1, <4>2
        <4>3. CASE i # Len(s) + 1
          <5>1. i \in 1 .. Len(s)
            BY <2>2, <4>3
          <5>2. x = s[i] /\ i \in DOMAIN s
            BY <2>2, <4>1, <5>1
          <5> QED  BY <5>2 DEF ToSet
        <4> QED  BY <4>2, <4>3
      <3> QED  BY <3>1, <3>2, <3>3
    <2> QED  BY <2>1, <2>2, <2>3 DEF more
  <1> QED  BY <1>1, <1>2

\* Leaving out what repeats leaves out no region.
LEMMA WithoutRepeatsTyped ==
    ASSUME NEW S, NEW s \in Seq(S), S # {}
    PROVE  WithoutRepeats(s) \in Seq(S) /\ ToSet(WithoutRepeats(s)) = ToSet(s)
  <1> DEFINE n == Len(s)
             X == Seq(S)
             some == CHOOSE x \in S : TRUE
             at(i) == IF i \in 1 .. n THEN s[i] ELSE some
             step == [ix \in Nat \X X |-> AddOnce(ix[2], at(ix[1]))]
             IsKept(f) == f = [i \in 0 .. n |-> IF i = 0 THEN <<>> ELSE AddOnce(f[i - 1], s[i])]
             kept == CHOOSE f : IsKept(f)
  <1>1. n \in Nat /\ DOMAIN s = 1 .. n /\ \A i \in 1 .. n : s[i] \in S
    BY LenProperties, ElementOfSeq
  <1>2. WithoutRepeats(s) = kept[n]
    BY DEF WithoutRepeats
  <1> HIDE DEF n
  <1>3. \A i \in Nat : at(i) \in S
    BY <1>1
  <1> HIDE DEF at
  <1>4. step \in [Nat \X X -> X]
    BY <1>3, AddOnceTyped
  <1>5. <<>> \in X
    BY EmptySeq
  <1> HIDE DEF X, step
  <1>6. PICK f : IsRecursionUpTo(f, n, X, <<>>, step)
    BY <1>1, <1>4, <1>5, RecursionUpTo, Zenon
  <1>7. IsKept(f)
    <2>1. ASSUME NEW i \in 0 .. n, i # 0
          PROVE  step[<<i, f[i - 1]>>] = AddOnce(f[i - 1], s[i])
      <3>1. i \in Nat /\ i \in 1 .. n /\ i - 1 \in 0 .. n
        BY <1>1, <2>1
      <3>2. f[i - 1] \in X
        BY <1>6, <3>1 DEF IsRecursionUpTo
      <3> QED  BY <3>1, <3>2 DEF step, at
    <2> QED  BY <1>6, <2>1 DEF IsRecursionUpTo
  <1> HIDE DEF IsKept
  <1>8. IsKept(kept)
    BY <1>7, Zenon
  <1> USE DEF IsKept
  <1> HIDE DEF kept
  <1>9. kept[0] = <<>> /\ \A i \in 0 .. n : i # n => kept[i + 1] = AddOnce(kept[i], s[i + 1])
    <2>1. \A i \in 0 .. n : i # n => i + 1 \in 0 .. n /\ i + 1 # 0 /\ i + 1 - 1 = i
      BY <1>1
    <2>2. 0 \in 0 .. n
      BY <1>1
    <2> QED  BY <1>8, <2>1, <2>2
  <1> DEFINE I == {i \in 0 .. n : kept[i] \in Seq(S) /\ ToSet(kept[i]) = {s[j] : j \in 1 .. i}}
  <1>10. 0 \in I
    <2>1. ToSet(kept[0]) = {}
      BY <1>9 DEF ToSet
    <2>2. 0 \in 0 .. n /\ 1 .. 0 = {}
      BY <1>1
    <2>3. {s[j] : j \in 1 .. 0} = {}
      BY <2>2
    <2> QED  BY <1>9, <2>1, <2>2, <2>3, EmptySeq
  <1>11. ASSUME NEW i \in 0 .. n, i # n, i \in I PROVE i + 1 \in I
    <2>1. i + 1 \in 1 .. n /\ i + 1 \in 0 .. n /\ 1 .. (i + 1) = (1 .. i) \union {i + 1}
      BY <1>1, <1>11
    <2>2. /\ kept[i + 1] \in Seq(S)
          /\ ToSet(kept[i + 1]) = ToSet(kept[i]) \union {s[i + 1]}
      <3> DEFINE now == kept[i]
                 next == s[i + 1]
      <3>1. now \in Seq(S) /\ next \in S /\ kept[i + 1] = AddOnce(now, next)
        BY <1>1, <1>9, <1>11, <2>1
      <3> HIDE DEF now, next
      <3>2. AddOnce(now, next) \in Seq(S) /\ ToSet(AddOnce(now, next)) = ToSet(now) \union {next}
        BY <3>1, AddOnceTyped
      <3> QED  BY <3>1, <3>2 DEF now, next
    <2>3. {s[j] : j \in 1 .. (i + 1)} = {s[j] : j \in 1 .. i} \union {s[i + 1]}
      BY <2>1
    <2> QED  BY <1>11, <2>1, <2>2, <2>3
  <1> HIDE DEF I
  <1>12. \A i \in 0 .. n : i \in I
    BY <1>1, <1>10, <1>11, EveryNumberUpTo
  <1>13. n \in I
    BY <1>1, <1>12
  <1> QED  BY <1>1, <1>2, <1>13 DEF I, ToSet

LEMMA EffectiveTyped ==
    ASSUME NEW policy \in Policies, NEW node,
           NEW limit \in Nat \union {Unasked}, NEW depth \in Nat \union {Unasked}
    PROVE  Effective(policy, limit, depth, node) \in Policies
  BY DEF Effective, Policies

Covers(sheet, what) ==
    \A path \in PathsOf(SubjectOf(what), TargetOf(what.slice)) : IsCovered(sheet, path)

LEMMA ProjectWithViewCovers ==
    ASSUME NEW what \in Selections, NEW policy \in Policies
    PROVE  /\ ProjectWithView(what, policy) \in Sheets
           /\ Covers(ProjectWithView(what, policy), what)
  <1> DEFINE limits == LensSlice(what.slice, what.view)
             node == SubjectOf(what)
             target == TargetOf(what.slice)
             effective == Effective(policy, limits.limit, limits.depth, node)
             sheet == Project(node, effective, target)
             regions == sheet.omitted \o what.view.omitted
  <1>1. /\ node \in Nodes /\ target \in Pointers
        /\ what.slice.limit \in Nat \union {Unasked}
        /\ what.slice.depth \in Nat \union {Unasked}
        /\ what.view # NoView => /\ what.view.limit \in Nat \union {Unasked}
                                /\ what.view.depth \in Nat \union {Unasked}
                                /\ what.view.omitted \in Seq(Regions)
    BY SelectionsAssumption
  <1>2. limits.limit \in Nat \union {Unasked} /\ limits.depth \in Nat \union {Unasked}
    BY <1>1 DEF LensSlice
  <1>3. ProjectWithView(what, policy)
        = IF what.view = NoView THEN sheet ELSE [sheet EXCEPT !.omitted = WithoutRepeats(regions)]
    BY DEF ProjectWithView
  <1> HIDE DEF limits, node, target
  <1>4. effective \in Policies
    BY <1>1, <1>2, EffectiveTyped
  <1> HIDE DEF effective
  <1>5. /\ sheet \in Sheets
        /\ \A path \in PathsOf(node, target) : IsCovered(sheet, path)
    BY <1>1, <1>4, ProjectCovers
  <1> HIDE DEF sheet
  <1>6. CASE what.view = NoView
    BY <1>3, <1>5, <1>6 DEF Covers, node, target
  <1>7. CASE what.view # NoView
    <2> DEFINE viewed == [sheet EXCEPT !.omitted = WithoutRepeats(regions)]
               own == sheet.omitted
               others == what.view.omitted
    <2>1. own \in Seq(Regions) /\ others \in Seq(Regions)
      BY <1>1, <1>5, <1>7 DEF Sheets
    <2>2. /\ regions \in Seq(Regions)
          /\ Len(own) \in Nat /\ DOMAIN own = 1 .. Len(own)
          /\ \A i \in 1 .. Len(own) : i \in DOMAIN regions /\ regions[i] = own[i]
      <3>1. regions = own \o others
        OBVIOUS
      <3> HIDE DEF regions, own, others
      <3>2. /\ own \o others \in Seq(Regions)
            /\ DOMAIN (own \o others) = 1 .. Len(own) + Len(others)
            /\ Len(own) \in Nat /\ Len(others) \in Nat /\ DOMAIN own = 1 .. Len(own)
            /\ \A i \in 1 .. Len(own) : (own \o others)[i] = own[i]
        BY <2>1, ConcatParts
      <3> QED  BY <3>1, <3>2
    <2> HIDE DEF regions
    <2>3. WithoutRepeats(regions) \in Seq(Regions) /\ ToSet(WithoutRepeats(regions)) = ToSet(regions)
      <3>1. [path |-> <<>>, reason |-> "redacted"] \in Regions
        <4>1. <<>> \in Pointers
          BY EmptySeq DEF Pointers
        <4> QED  BY <4>1 DEF Regions, OmissionReasons
      <3>2. Regions # {}
        BY <3>1
      <3> QED  BY <2>2, <3>2, WithoutRepeatsTyped
    <2>4. /\ viewed \in Sheets /\ viewed.cells = sheet.cells
          /\ viewed.omitted = WithoutRepeats(regions)
      BY <1>5, <2>3 DEF Sheets
    <2> HIDE DEF viewed
    <2>5. ASSUME NEW path, IsNamed(sheet.omitted, path) PROVE IsNamed(viewed.omitted, path)
      <3>1. PICK i \in 1 .. Len(sheet.omitted) : IsPrefix(sheet.omitted[i].path, path)
        BY <2>2, <2>5 DEF IsNamed
      <3>2. i \in DOMAIN regions /\ regions[i] = sheet.omitted[i]
        BY <2>2
      <3>3. sheet.omitted[i] \in ToSet(viewed.omitted)
        BY <2>3, <2>4, <3>2 DEF ToSet
      <3>4. PICK j \in DOMAIN viewed.omitted : viewed.omitted[j] = sheet.omitted[i]
        BY <3>3 DEF ToSet
      <3> QED  BY <3>1, <3>4 DEF IsNamed
    <2>6. \A path : IsCovered(sheet, path) => IsCovered(viewed, path)
      BY <2>4, <2>5 DEF IsCovered
    <2> QED  BY <1>3, <1>5, <1>7, <2>4, <2>6 DEF Covers, viewed, node, target
  <1> QED  BY <1>6, <1>7

-----------------------------------------------------------------------------
(* The ladder of policies. *)

LEMMA ShrinkTyped ==
    ASSUME NEW policy \in Policies
    PROVE  Shrink(policy) \in Policies
  <1>1. \A n \in Nat : n \div 2 \in Nat
    OBVIOUS
  <1>2. \A a, b \in Nat : Max({a, b}) \in Nat /\ Max({a, b}) >= a
    BY DEF Max
  <1>3. /\ policy.items \in Nat /\ policy.fields \in Nat /\ policy.chars \in Nat
        /\ policy.depth \in Nat /\ policy.nodes \in Nat /\ FewestChars \in Nat
    BY DisclosureAssumption DEF Policies
  <1>4. /\ Halved(policy.items) \in Nat /\ Halved(policy.fields) \in Nat
        /\ Halved(policy.chars) \in Nat /\ Halved(policy.nodes) \in Nat
    BY <1>1, <1>3 DEF Halved
  <1>5. Max({FewestChars, Halved(policy.chars)}) \in Nat /\ Max({1, Halved(policy.nodes)}) \in Nat
    BY <1>2, <1>3, <1>4
  <1>6. Max({1, policy.depth}) - 1 \in Nat
    BY <1>2, <1>3
  <1> QED  BY <1>4, <1>5, <1>6 DEF Shrink, Policies

LEMMA RungTyped ==
    \A k \in 0 .. 16 : Rung[k] \in Policies
  <1> DEFINE step == [kx \in Nat \X Policies |-> Shrink(kx[2])]
             IsRung(f) == f = [k \in 0 .. 16 |-> IF k = 0 THEN DefaultPolicy ELSE Shrink(f[k - 1])]
             rung == CHOOSE f : IsRung(f)
  <1>1. step \in [Nat \X Policies -> Policies] /\ DefaultPolicy \in Policies
    BY ShrinkTyped, DisclosureAssumption
  <1>2. Rung = rung
    BY DEF Rung
  <1> HIDE DEF step
  <1>3. 16 \in Nat
    OBVIOUS
  <1>4. PICK f : IsRecursionUpTo(f, 16, Policies, DefaultPolicy, step)
    BY <1>1, <1>3, RecursionUpTo, Zenon
  <1>5. IsRung(f)
    <2>1. ASSUME NEW k \in 0 .. 16, k # 0
          PROVE  step[<<k, f[k - 1]>>] = Shrink(f[k - 1])
      <3>1. k \in Nat /\ k - 1 \in 0 .. 16
        BY <2>1
      <3>2. f[k - 1] \in Policies
        BY <1>4, <3>1 DEF IsRecursionUpTo
      <3> QED  BY <3>1, <3>2 DEF step
    <2> QED  BY <1>4, <2>1 DEF IsRecursionUpTo
  <1> HIDE DEF IsRung
  <1>6. IsRung(rung)
    BY <1>5, Zenon
  <1> USE DEF IsRung
  <1> HIDE DEF rung
  <1>7. rung[0] = DefaultPolicy /\ \A k \in 0 .. 16 : k # 16 => rung[k + 1] = Shrink(rung[k])
    <2>1. \A k \in 0 .. 16 : k # 16 => k + 1 \in 0 .. 16 /\ k + 1 # 0 /\ k + 1 - 1 = k
      OBVIOUS
    <2> QED  BY <1>6, <2>1
  <1> DEFINE I == {k \in 0 .. 16 : rung[k] \in Policies}
  <1>8. 0 \in I
    BY <1>1, <1>7
  <1>9. \A k \in 0 .. 16 : k # 16 /\ k \in I => k + 1 \in I
    <2>1. \A k \in 0 .. 16 : k # 16 => k + 1 \in 0 .. 16
      OBVIOUS
    <2> QED  BY <1>7, <2>1, ShrinkTyped
  <1> HIDE DEF I
  <1>10. \A k \in 0 .. 16 : k \in I
    BY <1>3, <1>8, <1>9, EveryNumberUpTo
  <1> QED  BY <1>2, <1>10 DEF I

LEMMA LastRungTyped == LastRung \in 0 .. 15
  <1> DEFINE rungs == {k \in 0 .. 15 : k = 15 \/ Rung[k + 1] = Rung[k]}
  <1>1. 15 \in rungs /\ rungs \in SUBSET Nat
    OBVIOUS
  <1>2. LastRung = CHOOSE k \in rungs : \A m \in rungs : k <= m
    BY DEF LastRung, Min
  <1>3. \A k \in rungs : k \in 0 .. 15
    OBVIOUS
  <1> HIDE DEF rungs
  <1>4. \E k \in rungs : \A m \in rungs : k <= m
    BY <1>1, LeastNumber
  <1> QED  BY <1>2, <1>3, <1>4

-----------------------------------------------------------------------------
(* Envelopes. *)

Fields == AttachmentNames \union {"next_actions", "omitted", "data_preview", "findings"}
Envelopes ==
    [preview : Previews, omitted : Seq(Regions), actions : Nat, findings : Nat,
     attached : SUBSET AttachmentNames, dropped : SUBSET Fields, said : SUBSET Fields, notes : Nat]

LEMMA AttachmentsFinite ==
    ASSUME NEW names \in SUBSET AttachmentNames
    PROVE  IsFiniteSet(names) /\ Cardinality(names) \in Nat
  <1>1. IsFiniteSet(AttachmentNames)
    <2>1. AttachmentNames
          = {"expanded_commands"} \union ({"schema_hints"} \union ({"overview"} \union
            ({"provenance"} \union ({"cache"} \union ({"parser"} \union {"evidence_ref"})))))
      BY DEF AttachmentNames
    <2>2. \A x : IsFiniteSet({x})
      BY FS_Singleton
    <2> QED  BY <2>1, <2>2, FS_Union
  <1> QED  BY <1>1, FS_Subset, FS_CardinalityType

LEMMA UnitsTyped ==
    ASSUME NEW envelope \in Envelopes
    PROVE  UnitsOf(envelope) \in Nat
  <1>1. Cardinality(envelope.preview) \in Nat /\ Cardinality(envelope.attached) \in Nat
    BY AttachmentsFinite, FS_CardinalityType DEF Envelopes, Previews
  <1>2. Len(envelope.omitted) \in Nat
    BY LenProperties DEF Envelopes
  <1>3. /\ envelope.actions \in Nat /\ envelope.findings \in Nat /\ envelope.notes \in Nat
        /\ FindingUnits \in Nat /\ NoteUnits \in Nat
    BY DisclosureAssumption DEF Envelopes
  <1> DEFINE findings == FindingUnits * envelope.findings
             notes == NoteUnits * envelope.notes
  <1>4. findings \in Nat /\ notes \in Nat
    BY <1>3
  <1>5. UnitsOf(envelope) = Cardinality(envelope.preview) + Len(envelope.omitted)
                            + envelope.actions + findings + Cardinality(envelope.attached) + notes
    BY DEF UnitsOf
  <1> HIDE DEF findings, notes
  <1> QED  BY <1>1, <1>2, <1>3, <1>4, <1>5

LEMMA DroppingTyped ==
    ASSUME NEW envelope \in Envelopes, NEW what \in Fields
    PROVE  LET less == Dropping(envelope, what)
           IN  /\ less \in Envelopes /\ UnitsOf(less) = UnitsOf(envelope)
               /\ less.dropped = envelope.dropped \union {what}
               /\ less.preview = envelope.preview /\ less.omitted = envelope.omitted
               /\ less.actions = envelope.actions /\ less.findings = envelope.findings
               /\ less.attached = envelope.attached /\ less.said = envelope.said
               /\ less.notes = envelope.notes
  BY DEF Dropping, Envelopes, UnitsOf

\* What a step of the second ladder may do.
Surrenders(envelope, less) ==
    /\ less \in Envelopes /\ less.said = envelope.said /\ less.notes = envelope.notes
    /\ envelope.dropped \subseteq less.dropped
    /\ less.preview = envelope.preview \/ (less.preview = {} /\ "data_preview" \in less.dropped)
    /\ less.omitted = envelope.omitted \/ "omitted" \in less.dropped
    /\ less.findings = envelope.findings
       \/ (less.findings <= envelope.findings /\ "findings" \in less.dropped)
    /\ envelope.actions = 0 => less.actions = 0
    /\ envelope.omitted = <<>> => less.omitted = <<>>
    /\ less.attached \subseteq envelope.attached
    /\ less.dropped = {} => UnitsOf(less) = UnitsOf(envelope)

LEMMA NothingSurrendered ==
    ASSUME NEW envelope \in Envelopes
    PROVE  Surrenders(envelope, envelope)
  BY DEF Surrenders

LEMMA DropActionsSurrenders ==
    ASSUME NEW envelope \in Envelopes, NEW budget
    PROVE  LET less == DropActions(envelope, budget)
           IN  /\ Surrenders(envelope, less) /\ less.findings = envelope.findings
               /\ IsOver(less, budget) => less.actions = 0
  <1> DEFINE two == [envelope EXCEPT !.actions = Min({2, @})]
             none == [two EXCEPT !.actions = 0]
             kept == IF IsOver(two, budget) THEN none ELSE two
             less == DropActions(envelope, budget)
  <1>1. CASE envelope.actions = 0
    BY <1>1, NothingSurrendered DEF DropActions
  <1>2. CASE envelope.actions # 0
    <2>1. less = Dropping(kept, "next_actions")
      BY <1>2 DEF DropActions
    <2>2. Min({2, envelope.actions}) \in Nat
      BY SmallerOfTwo DEF Envelopes
    <2>3. /\ kept \in Envelopes
          /\ kept.preview = envelope.preview /\ kept.omitted = envelope.omitted
          /\ kept.findings = envelope.findings /\ kept.attached = envelope.attached
          /\ kept.dropped = envelope.dropped /\ kept.said = envelope.said
          /\ kept.notes = envelope.notes
          /\ IsOver(two, budget) => kept.actions = 0
      BY <2>2 DEF Envelopes
    <2>4. IsOver(two, budget) \/ kept = two
      OBVIOUS
    <2> HIDE DEF less, kept, two
    <2>5. "next_actions" \in Fields
      BY DEF Fields
    <2>6. /\ less \in Envelopes /\ UnitsOf(less) = UnitsOf(kept)
          /\ less.dropped = kept.dropped \union {"next_actions"}
          /\ less.preview = kept.preview /\ less.omitted = kept.omitted
          /\ less.actions = kept.actions /\ less.findings = kept.findings
          /\ less.attached = kept.attached /\ less.said = kept.said /\ less.notes = kept.notes
      BY <2>1, <2>3, <2>5, DroppingTyped
    <2>7. Surrenders(envelope, less) /\ less.findings = envelope.findings
      BY <1>2, <2>3, <2>6 DEF Surrenders
    <2>8. IsOver(less, budget) => less.actions = 0
      BY <2>3, <2>4, <2>6 DEF IsOver
    <2> QED  BY <2>7, <2>8 DEF less
  <1> QED  BY <1>1, <1>2

LEMMA DropOmittedSurrenders ==
    ASSUME NEW envelope \in Envelopes, NEW budget
    PROVE  LET less == DropOmitted(envelope, budget)
           IN  /\ Surrenders(envelope, less) /\ less.findings = envelope.findings
               /\ IsOver(less, budget) => less.omitted = <<>>
  <1> DEFINE two == [envelope EXCEPT !.omitted = SubSeq(@, 1, Min({2, Len(@)}))]
             none == [two EXCEPT !.omitted = <<>>]
             kept == IF IsOver(two, budget) THEN none ELSE two
             less == DropOmitted(envelope, budget)
  <1>1. CASE envelope.omitted = <<>>
    BY <1>1, NothingSurrendered DEF DropOmitted
  <1>2. CASE envelope.omitted # <<>>
    <2>1. less = Dropping(kept, "omitted")
      BY <1>2 DEF DropOmitted
    <2>2. SubSeq(envelope.omitted, 1, Min({2, Len(envelope.omitted)})) \in Seq(Regions)
      <3> DEFINE regions == envelope.omitted
                 few == Min({2, Len(regions)})
      <3>1. regions \in Seq(Regions) /\ Len(regions) \in Nat
        BY LenProperties DEF Envelopes
      <3> HIDE DEF regions
      <3>2. few \in Nat /\ few <= Len(regions)
        BY <3>1, SmallerOfTwo
      <3> HIDE DEF few
      <3>3. SubSeq(regions, 1, few) \in Seq(Regions)
        BY <3>1, <3>2
      <3> QED  BY <3>3 DEF regions, few
    <2>3. /\ kept \in Envelopes
          /\ kept.preview = envelope.preview /\ kept.actions = envelope.actions
          /\ kept.findings = envelope.findings /\ kept.attached = envelope.attached
          /\ kept.dropped = envelope.dropped /\ kept.said = envelope.said
          /\ kept.notes = envelope.notes
          /\ IsOver(two, budget) => kept.omitted = <<>>
      <3>1. <<>> \in Seq(Regions)
        BY EmptySeq
      <3> QED  BY <2>2, <3>1 DEF Envelopes
    <2>4. IsOver(two, budget) \/ kept = two
      OBVIOUS
    <2> HIDE DEF less, kept, two
    <2>5. "omitted" \in Fields
      BY DEF Fields
    <2>6. /\ less \in Envelopes /\ UnitsOf(less) = UnitsOf(kept)
          /\ less.dropped = kept.dropped \union {"omitted"}
          /\ less.preview = kept.preview /\ less.omitted = kept.omitted
          /\ less.actions = kept.actions /\ less.findings = kept.findings
          /\ less.attached = kept.attached /\ less.said = kept.said /\ less.notes = kept.notes
      BY <2>1, <2>3, <2>5, DroppingTyped
    <2>7. Surrenders(envelope, less) /\ less.findings = envelope.findings
      BY <1>2, <2>3, <2>6 DEF Surrenders
    <2>8. IsOver(less, budget) => less.omitted = <<>>
      BY <2>3, <2>4, <2>6 DEF IsOver
    <2> QED  BY <2>7, <2>8 DEF less
  <1> QED  BY <1>1, <1>2

LEMMA DetachSurrenders ==
    ASSUME NEW envelope \in Envelopes, NEW names \in SUBSET AttachmentNames
    PROVE  LET less == Detach(envelope, names)
           IN  /\ Surrenders(envelope, less) /\ less.findings = envelope.findings
               /\ less.attached = envelope.attached \ names
  <1> DEFINE less == Detach(envelope, names)
  <1>1. /\ less = [envelope EXCEPT !.attached = envelope.attached \ names,
                                   !.dropped = envelope.dropped
                                               \union (envelope.attached \intersect names)]
    BY DEF Detach
  <1>2. /\ envelope.attached \ names \in SUBSET AttachmentNames
        /\ envelope.dropped \union (envelope.attached \intersect names) \in SUBSET Fields
    BY DEF Envelopes, Fields
  <1> HIDE DEF less
  <1>3. /\ less \in Envelopes
        /\ less.dropped = envelope.dropped \union (envelope.attached \intersect names)
        /\ less.attached = envelope.attached \ names
        /\ less.preview = envelope.preview /\ less.omitted = envelope.omitted
        /\ less.actions = envelope.actions /\ less.findings = envelope.findings
        /\ less.said = envelope.said /\ less.notes = envelope.notes
    BY <1>1, <1>2 DEF Envelopes
  <1>4. ASSUME less.dropped = {} PROVE UnitsOf(less) = UnitsOf(envelope)
    <2>1. less.attached = envelope.attached
      BY <1>3, <1>4
    <2> QED  BY <1>3, <2>1 DEF UnitsOf
  <1>5. Surrenders(envelope, less)
    BY <1>3, <1>4 DEF Surrenders
  <1> QED  BY <1>3, <1>5 DEF less

LEMMA PreviewSurrenders ==
    ASSUME NEW envelope \in Envelopes
    PROVE  LET less == Dropping([envelope EXCEPT !.preview = {}], "data_preview")
           IN  /\ Surrenders(envelope, less) /\ less.findings = envelope.findings
               /\ less.preview = {} /\ "data_preview" \in less.dropped
  <1> DEFINE kept == [envelope EXCEPT !.preview = {}]
             less == Dropping(kept, "data_preview")
  <1>1. {} \in Previews /\ "data_preview" \in Fields
    BY FS_EmptySet DEF Previews, Fields
  <1>2. /\ kept \in Envelopes /\ kept.preview = {}
        /\ kept.omitted = envelope.omitted /\ kept.actions = envelope.actions
        /\ kept.findings = envelope.findings /\ kept.attached = envelope.attached
        /\ kept.dropped = envelope.dropped /\ kept.said = envelope.said
        /\ kept.notes = envelope.notes
    BY <1>1 DEF Envelopes
  <1> HIDE DEF kept
  <1>3. /\ less \in Envelopes /\ less.dropped = kept.dropped \union {"data_preview"}
        /\ less.preview = kept.preview /\ less.omitted = kept.omitted
        /\ less.actions = kept.actions /\ less.findings = kept.findings
        /\ less.attached = kept.attached /\ less.said = kept.said /\ less.notes = kept.notes
    BY <1>1, <1>2, DroppingTyped
  <1> HIDE DEF less
  <1>4. /\ Surrenders(envelope, less) /\ less.findings = envelope.findings
        /\ less.preview = {} /\ "data_preview" \in less.dropped
    BY <1>2, <1>3 DEF Surrenders
  <1> QED  BY <1>4 DEF less, kept

LEMMA DropFindingsSurrenders ==
    ASSUME NEW envelope \in Envelopes, NEW budget, NEW least \in Nat
    PROVE  LET less == DropFindings(envelope, budget, least)
           IN  /\ Surrenders(envelope, less)
               /\ less.preview = envelope.preview /\ less.omitted = envelope.omitted
               /\ less.actions = envelope.actions /\ less.attached = envelope.attached
               /\ IsOver(less, budget) => less.findings <= least
  <1> DEFINE fits == {n \in least .. envelope.findings :
                        ~IsOver([envelope EXCEPT !.findings = n], budget)}
             most == Max(fits \union {least})
             kept == [envelope EXCEPT !.findings = most]
             less == DropFindings(envelope, budget, least)
  <1>0. envelope.findings \in Nat
    BY DEF Envelopes
  <1>1. CASE envelope.findings <= least
    BY <1>1, NothingSurrendered DEF DropFindings
  <1>2. CASE ~(envelope.findings <= least)
    <2>1. less = Dropping(kept, "findings")
      BY <1>2 DEF DropFindings
    <2>2. most \in fits \/ most = least
      <3> DEFINE N == fits \union {least}
      <3>1. N \in SUBSET Nat /\ N # {} /\ \A n \in N : n <= envelope.findings
        BY <1>0, <1>2
      <3> HIDE DEF N
      <3>2. Max(N) \in N
        BY <1>0, <3>1, GreatestNumber, Zenon
      <3> QED  BY <3>2 DEF N
    <2>3. most \in Nat /\ most <= envelope.findings /\ (most = least \/ ~IsOver(kept, budget))
      BY <1>0, <1>2, <2>2
    <2> HIDE DEF most
    <2>4. /\ kept \in Envelopes /\ kept.findings = most
          /\ kept.preview = envelope.preview /\ kept.omitted = envelope.omitted
          /\ kept.actions = envelope.actions /\ kept.attached = envelope.attached
          /\ kept.dropped = envelope.dropped /\ kept.said = envelope.said
          /\ kept.notes = envelope.notes
      BY <2>3 DEF Envelopes
    <2> HIDE DEF less, kept
    <2>5. "findings" \in Fields
      BY DEF Fields
    <2>6. /\ less \in Envelopes /\ UnitsOf(less) = UnitsOf(kept)
          /\ less.dropped = kept.dropped \union {"findings"}
          /\ less.preview = kept.preview /\ less.omitted = kept.omitted
          /\ less.actions = kept.actions /\ less.findings = kept.findings
          /\ less.attached = kept.attached /\ less.said = kept.said /\ less.notes = kept.notes
      BY <2>1, <2>4, <2>5, DroppingTyped
    <2>7. Surrenders(envelope, less)
      BY <2>3, <2>4, <2>6 DEF Surrenders
    <2>8. IsOver(less, budget) => less.findings <= least
      BY <2>3, <2>4, <2>6 DEF IsOver
    <2> QED  BY <2>4, <2>6, <2>7, <2>8 DEF less
  <1> QED  BY <1>1, <1>2

\* What is gone after a step, if the envelope is still over its budget.
Gone(envelope, i) ==
    /\ i >= 1 => envelope.actions = 0
    /\ i >= 5 => envelope.omitted = <<>>
    /\ i >= 6 => envelope.attached = {}
    /\ i >= 7 => envelope.preview = {} /\ "data_preview" \in envelope.dropped
    /\ i >= 9 => envelope.findings = 0

LEMMA StepSurrenders ==
    ASSUME NEW envelope \in Envelopes, NEW budget, NEW i \in 1 .. 9
    PROVE  LET less == Surrender(envelope, budget, Steps[i])
           IN  /\ Surrenders(envelope, less)
               /\ i < 8 => less.findings = envelope.findings
               /\ IsOver(less, budget) =>
                    /\ i = 1 => less.actions = 0
                    /\ i = 5 => less.omitted = <<>>
                    /\ i = 6 => less.attached = {}
                    /\ i = 7 => less.preview = {} /\ "data_preview" \in less.dropped
                    /\ i = 9 => less.findings = 0
  <1> DEFINE less == Surrender(envelope, budget, Steps[i])
  <1>1. CASE i = 1
    <2>1. less = DropActions(envelope, budget)
      BY <1>1 DEF Surrender, Steps
    <2> QED  BY <1>1, <2>1, DropActionsSurrenders
  <1>2. CASE i \in {2, 3, 4}
    <2>1. PICK name \in {"expanded_commands", "schema_hints", "overview"} :
             less = Detach(envelope, {name})
      <3>1. CASE i = 2
        BY <3>1 DEF Surrender, Steps
      <3>2. CASE i = 3
        BY <3>2 DEF Surrender, Steps
      <3>3. CASE i = 4
        BY <3>3 DEF Surrender, Steps
      <3> QED  BY <1>2, <3>1, <3>2, <3>3
    <2>2. {name} \in SUBSET AttachmentNames
      BY DEF AttachmentNames
    <2> HIDE DEF less
    <2>3. Surrenders(envelope, less) /\ less.findings = envelope.findings
      BY <2>1, <2>2, DetachSurrenders
    <2> QED  BY <1>2, <2>3 DEF less
  <1>3. CASE i = 5
    <2>1. less = DropOmitted(envelope, budget)
      BY <1>3 DEF Surrender, Steps
    <2> QED  BY <1>3, <2>1, DropOmittedSurrenders
  <1>4. CASE i = 6
    <2>1. less = Detach(envelope, AttachmentNames)
      BY <1>4 DEF Surrender, Steps
    <2> HIDE DEF less
    <2>2. /\ Surrenders(envelope, less) /\ less.findings = envelope.findings
          /\ less.attached = envelope.attached \ AttachmentNames
      BY <2>1, DetachSurrenders
    <2>3. less.attached = {}
      BY <2>2 DEF Envelopes
    <2> QED  BY <1>4, <2>2, <2>3 DEF less
  <1>5. CASE i = 7
    <2>1. less = Dropping([envelope EXCEPT !.preview = {}], "data_preview")
      BY <1>5 DEF Surrender, Steps
    <2> QED  BY <1>5, <2>1, PreviewSurrenders
  <1>6. CASE i = 8
    <2>1. less = DropFindings(envelope, budget, 1)
      BY <1>6 DEF Surrender, Steps
    <2> QED  BY <1>6, <2>1, DropFindingsSurrenders
  <1>7. CASE i = 9
    <2>1. less = DropFindings(envelope, budget, 0)
      BY <1>7 DEF Surrender, Steps
    <2> HIDE DEF less
    <2>2. /\ Surrenders(envelope, less)
          /\ IsOver(less, budget) => less.findings <= 0
      BY <2>1, DropFindingsSurrenders
    <2>3. less.findings \in Nat
      BY <2>2 DEF Surrenders, Envelopes
    <2> QED  BY <1>7, <2>2, <2>3 DEF less
  <1> QED  BY <1>1, <1>2, <1>3, <1>4, <1>5, <1>6, <1>7

\* What is kept of an envelope after a step, and what is not is said.
Kept(envelope, less, budget, i) ==
    /\ less \in Envelopes /\ less.said = envelope.said /\ less.notes = envelope.notes
    /\ less.preview = envelope.preview \/ "data_preview" \in less.dropped
    /\ less.omitted = envelope.omitted \/ "omitted" \in less.dropped
    /\ \/ less.findings = envelope.findings
       \/ /\ less.findings <= envelope.findings
          /\ "findings" \in less.dropped /\ ~SomethingIsLeft(less)
    /\ less.dropped = {} => UnitsOf(less) = UnitsOf(envelope)
    /\ IsOver(less, budget) => Gone(less, i)

LEMMA KeptGoesOn ==
    ASSUME NEW envelope \in Envelopes, NEW budget, NEW i \in 0 .. 8, NEW now,
           Kept(envelope, now, budget, i)
    PROVE  Kept(envelope, SurrenderIfOver(now, budget, Steps[i + 1]), budget, i + 1)
  <1> DEFINE less == Surrender(now, budget, Steps[i + 1])
  <1>1. now \in Envelopes /\ i + 1 \in 1 .. 9 /\ envelope.dropped \subseteq Fields
    BY DEF Kept, Envelopes
  <1>2. CASE ~IsOver(now, budget)
    BY <1>2 DEF SurrenderIfOver, Kept
  <1>3. CASE IsOver(now, budget)
    <2>1. SurrenderIfOver(now, budget, Steps[i + 1]) = less
      BY <1>3 DEF SurrenderIfOver
    <2>2. /\ Surrenders(now, less)
          /\ i + 1 < 8 => less.findings = now.findings
          /\ IsOver(less, budget) =>
                /\ i + 1 = 1 => less.actions = 0
                /\ i + 1 = 5 => less.omitted = <<>>
                /\ i + 1 = 6 => less.attached = {}
                /\ i + 1 = 7 => less.preview = {} /\ "data_preview" \in less.dropped
                /\ i + 1 = 9 => less.findings = 0
      BY <1>1, StepSurrenders
    <2> HIDE DEF less
    <2>3. Gone(now, i)
      BY <1>3 DEF Kept
    <2>4. less \in Envelopes /\ now.findings \in Nat /\ less.findings \in Nat
          /\ envelope.findings \in Nat
      BY <1>1, <2>2 DEF Surrenders, Envelopes
    <2>5. IsOver(less, budget) => Gone(less, i + 1)
      BY <2>2, <2>3 DEF Surrenders, Gone
    <2>6. ~SomethingIsLeft(now) => ~SomethingIsLeft(less)
      BY <2>2 DEF Surrenders, SomethingIsLeft
    <2>7. less.findings # now.findings => ~SomethingIsLeft(now)
      BY <2>2, <2>3 DEF Gone, SomethingIsLeft
    <2>8. \/ less.findings = envelope.findings
          \/ /\ less.findings <= envelope.findings
             /\ "findings" \in less.dropped /\ ~SomethingIsLeft(less)
      <3>1. CASE less.findings = now.findings
        BY <2>2, <2>6, <3>1 DEF Kept, Surrenders
      <3>2. CASE less.findings # now.findings
        <4>1. less.findings <= now.findings /\ "findings" \in less.dropped
          BY <2>2, <3>2 DEF Surrenders
        <4>2. now.findings <= envelope.findings
          BY <2>4 DEF Kept
        <4> QED  BY <2>4, <2>6, <2>7, <3>2, <4>1, <4>2
      <3> QED  BY <3>1, <3>2
    <2>9. /\ less.said = envelope.said /\ less.notes = envelope.notes
          /\ less.preview = envelope.preview \/ "data_preview" \in less.dropped
          /\ less.omitted = envelope.omitted \/ "omitted" \in less.dropped
      BY <2>2 DEF Kept, Surrenders
    <2>10. less.dropped = {} => UnitsOf(less) = UnitsOf(envelope)
      BY <2>2 DEF Kept, Surrenders
    <2> QED  BY <2>1, <2>4, <2>5, <2>8, <2>9, <2>10 DEF Kept
  <1> QED  BY <1>2, <1>3

THEOREM SurrenderedInOrder ==
    ASSUME NEW envelope \in Envelopes, NEW budget
    PROVE  Kept(envelope, Surrendered(envelope, budget), budget, 9)
  <1> DEFINE step == [ix \in Nat \X Envelopes |->
                        IF ix[1] \in 1 .. 9 THEN SurrenderIfOver(ix[2], budget, Steps[ix[1]])
                        ELSE ix[2]]
             IsAfter(f) == f = [i \in 0 .. 9 |-> IF i = 0 THEN envelope
                                                 ELSE SurrenderIfOver(f[i - 1], budget, Steps[i])]
             after == CHOOSE f : IsAfter(f)
  <1>1. Len(Steps) = 9
    BY DEF Steps
  <1>2. Surrendered(envelope, budget) = after[9]
    BY <1>1 DEF Surrendered
  <1>3. step \in [Nat \X Envelopes -> Envelopes]
    <2>1. ASSUME NEW e \in Envelopes, NEW i \in 1 .. 9
          PROVE  SurrenderIfOver(e, budget, Steps[i]) \in Envelopes
      BY StepSurrenders DEF SurrenderIfOver, Surrenders
    <2> QED  BY <2>1
  <1>4. 9 \in Nat
    OBVIOUS
  <1> HIDE DEF step
  <1>5. PICK f : IsRecursionUpTo(f, 9, Envelopes, envelope, step)
    BY <1>3, <1>4, RecursionUpTo, Zenon
  <1>6. IsAfter(f)
    <2>1. ASSUME NEW i \in 0 .. 9, i # 0
          PROVE  step[<<i, f[i - 1]>>] = SurrenderIfOver(f[i - 1], budget, Steps[i])
      <3>1. i \in Nat /\ i \in 1 .. 9 /\ i - 1 \in 0 .. 9
        BY <2>1
      <3>2. f[i - 1] \in Envelopes
        BY <1>5, <3>1 DEF IsRecursionUpTo
      <3> QED  BY <3>1, <3>2 DEF step
    <2> QED  BY <1>5, <2>1 DEF IsRecursionUpTo
  <1> HIDE DEF IsAfter
  <1>7. IsAfter(after)
    BY <1>6, Zenon
  <1> USE DEF IsAfter
  <1> HIDE DEF after
  <1>8. /\ after[0] = envelope
        /\ \A i \in 0 .. 9 :
              i # 9 => after[i + 1] = SurrenderIfOver(after[i], budget, Steps[i + 1])
    <2>1. \A i \in 0 .. 9 : i # 9 => i + 1 \in 0 .. 9 /\ i + 1 # 0 /\ i + 1 - 1 = i
      OBVIOUS
    <2> QED  BY <1>7, <2>1
  <1> DEFINE I == {i \in 0 .. 9 : Kept(envelope, after[i], budget, i)}
  <1>9. 0 \in I
    BY <1>8 DEF Kept, Gone
  <1>10. \A i \in 0 .. 9 : i # 9 /\ i \in I => i + 1 \in I
    <2>1. \A i \in 0 .. 9 : i # 9 => i + 1 \in 0 .. 9 /\ i \in 0 .. 8
      OBVIOUS
    <2> QED  BY <1>8, <2>1, KeptGoesOn
  <1> HIDE DEF I
  <1>11. \A i \in 0 .. 9 : i \in I
    BY <1>4, <1>9, <1>10, EveryNumberUpTo
  <1>12. 9 \in I
    BY <1>11
  <1> QED  BY <1>2, <1>12 DEF I

\* Compacting says what it dropped, drops findings when nothing else is
\* left, and makes the envelope fit unless nothing is left at all.
Compacts(envelope, less, budget) ==
    /\ less \in Envelopes /\ less.dropped = {} /\ envelope.said \subseteq less.said
    /\ less.preview = envelope.preview \/ "data_preview" \in less.said
    /\ less.omitted = envelope.omitted \/ "omitted" \in less.said
    /\ \/ less.findings = envelope.findings
       \/ /\ less.findings <= envelope.findings
          /\ "findings" \in less.said /\ ~SomethingIsLeft(less)
    /\ SomethingIsLeft(less) \/ less.findings > 0 => UnitsOf(less) <= budget

IsNoted(noted, less, said, notes) ==
    noted = [less EXCEPT !.said = said, !.dropped = {}, !.notes = notes]

LEMMA CompactCompacts ==
    ASSUME NEW envelope \in Envelopes, NEW budget \in Nat, envelope.dropped = {}
    PROVE  Compacts(envelope, Compact(envelope, budget), budget)
  <1> DEFINE less == Surrendered(envelope, budget)
             noted == [less EXCEPT !.said = @ \union less.dropped, !.dropped = {}, !.notes = @ + 1]
             compact == Compact(envelope, budget)
  <1>1. UnitsOf(envelope) \in Nat /\ NoteUnits \in Nat
    BY UnitsTyped, DisclosureAssumption
  <1>2. Kept(envelope, less, budget, 9)
    BY SurrenderedInOrder
  <1>3. compact = IF UnitsOf(envelope) <= budget \/ less.dropped = {} THEN envelope ELSE noted
    BY DEF Compact
  <1> HIDE DEF less, compact
  <1>4. CASE UnitsOf(envelope) <= budget
    <2>1. compact = envelope
      BY <1>3, <1>4
    <2> HIDE DEF Compact, SomethingIsLeft
    <2> QED  BY <1>4, <2>1 DEF Compacts, compact
  <1>5. CASE ~(UnitsOf(envelope) <= budget)
    <2>1. less \in Envelopes /\ UnitsOf(less) \in Nat
      BY <1>2, UnitsTyped DEF Kept
    <2>2. less.dropped # {}
      <3>1. SUFFICES ASSUME less.dropped = {} PROVE FALSE
        OBVIOUS
      <3>2. UnitsOf(less) = UnitsOf(envelope)
        BY <1>2, <3>1 DEF Kept
      <3>3. IsOver(less, budget)
        BY <1>1, <1>5, <3>2 DEF IsOver
      <3> QED  BY <1>2, <3>1, <3>3 DEF Kept, Gone
    <2>3. compact = noted
      BY <1>3, <1>5, <2>2
    <2>4. /\ noted \in Envelopes /\ noted.dropped = {}
          /\ noted.said = less.said \union less.dropped /\ noted.notes = less.notes + 1
          /\ noted.preview = less.preview /\ noted.omitted = less.omitted
          /\ noted.actions = less.actions /\ noted.findings = less.findings
          /\ noted.attached = less.attached
      <3> DEFINE said == less.said \union less.dropped
                 notes == less.notes + 1
      <3>1. said \in SUBSET Fields /\ notes \in Nat
        BY <2>1 DEF Envelopes
      <3>2. IsNoted(noted, less, said, notes)
        BY DEF IsNoted
      <3> HIDE DEF said, notes, noted
      <3>3. /\ noted \in Envelopes /\ noted.dropped = {}
            /\ noted.said = said /\ noted.notes = notes
            /\ noted.preview = less.preview /\ noted.omitted = less.omitted
            /\ noted.actions = less.actions /\ noted.findings = less.findings
            /\ noted.attached = less.attached
        BY <2>1, <3>1, <3>2 DEF IsNoted, Envelopes
      <3> QED  BY <3>3 DEF said, notes
    <2> HIDE DEF noted
    <2>5. UnitsOf(noted) = UnitsOf(less) + NoteUnits
      <3> DEFINE n == less.notes
                 m == noted.notes
                 f == FindingUnits * less.findings
                 a == NoteUnits * n
                 b == NoteUnits * m
                 c == Cardinality(less.preview)
                 o == Len(less.omitted)
                 t == Cardinality(less.attached)
      <3>1. n \in Nat /\ m = n + 1 /\ less.actions \in Nat /\ less.findings \in Nat
            /\ FindingUnits \in Nat
        BY <2>1, <2>4, DisclosureAssumption DEF Envelopes
      <3>2. c \in Nat /\ t \in Nat /\ o \in Nat
        BY <2>1, AttachmentsFinite, FS_CardinalityType, LenProperties DEF Envelopes, Previews
      <3>3. UnitsOf(less) = c + o + less.actions + f + t + a
        BY DEF UnitsOf
      <3>4. UnitsOf(noted) = c + o + less.actions + f + t + b
        BY <2>4 DEF UnitsOf
      <3>5. f \in Nat
        BY <3>1
      <3> HIDE DEF n, m, c, o, t, f
      <3>6. b = a + NoteUnits /\ a \in Nat /\ b \in Nat
        BY <1>1, <3>1
      <3> HIDE DEF a, b
      <3> QED  BY <1>1, <3>1, <3>2, <3>3, <3>4, <3>5, <3>6
    <2>6. SomethingIsLeft(noted) = SomethingIsLeft(less)
      BY <2>4 DEF SomethingIsLeft
    <2>7. SomethingIsLeft(noted) \/ noted.findings > 0 => UnitsOf(noted) <= budget
      <3>1. SUFFICES ASSUME SomethingIsLeft(less) \/ less.findings > 0
                     PROVE  UnitsOf(less) + NoteUnits <= budget
        BY <2>4, <2>5, <2>6
      <3>2. less.findings \in Nat
        BY <2>1 DEF Envelopes
      <3>3. ~Gone(less, 9)
        BY <3>1, <3>2 DEF Gone, SomethingIsLeft
      <3>4. ~IsOver(less, budget)
        BY <1>2, <3>3 DEF Kept
      <3> QED  BY <1>1, <2>1, <3>4 DEF IsOver
    <2>8. Compacts(envelope, noted, budget)
      BY <1>2, <2>4, <2>6, <2>7 DEF Kept, Compacts
    <2> QED  BY <2>3, <2>8 DEF compact
  <1> QED  BY <1>4, <1>5

-----------------------------------------------------------------------------
(* Answers. *)

\* What an answer does not show is named, or it says that it dropped it.
NothingHidden(envelope, what) ==
    \/ envelope.said \intersect {"omitted", "data_preview"} # {}
    \/ \A path \in PathsOf(SubjectOf(what), TargetOf(what.slice)) : IsShownOrNamed(path, envelope)

Requests ==
    [what : Selections, findings : 0 .. MostFindings, attached : Attachments, budget : Budgets]

LEMMA QuestionsTyped ==
    ASSUME NEW request \in Requests
    PROVE  /\ request.what \in Selections /\ request.findings \in Nat
           /\ request.attached \in SUBSET AttachmentNames /\ request.budget \in Nat
  <1>1. /\ request.what \in Selections /\ request.findings \in 0 .. MostFindings
        /\ request.attached \in Attachments /\ request.budget \in Budgets
    BY DEF Requests
  <1>2. request.findings \in Nat
    <2>1. MostFindings \in Nat
      BY DisclosureAssumption
    <2> QED  BY <1>1, <2>1
  <1>4. request.budget \in Nat
    <2>1. Budgets \in SUBSET Nat
      BY DisclosureAssumption
    <2> QED  BY <1>1, <2>1
  <1>3. request.attached \in SUBSET AttachmentNames
    BY <1>1, DisclosureAssumption, Zenon
  <1> QED  BY <1>1, <1>2, <1>3, <1>4

LEMMA DraftHidesNothing ==
    ASSUME NEW request \in Requests, NEW k \in 0 .. LastRung
    PROVE  LET draft == MakeEnvelope(request, k)
           IN  /\ draft \in Envelopes /\ draft.dropped = {} /\ draft.said = {}
               /\ draft.findings = request.findings
               /\ NothingHidden(draft, request.what)
  <1> DEFINE sheet == ProjectWithView(request.what, Rung[k])
             draft == MakeEnvelope(request, k)
             few == Min({MostActions, Len(sheet.omitted)})
             attached == request.attached \ {"expanded_commands"}
  <1>1. /\ request.what \in Selections /\ request.findings \in Nat
        /\ request.attached \in SUBSET AttachmentNames
    BY QuestionsTyped
  <1>2. Rung[k] \in Policies
    <2>1. k \in 0 .. 16
      BY LastRungTyped
    <2> QED  BY <2>1, RungTyped
  <1>3. sheet \in Sheets /\ Covers(sheet, request.what)
    BY <1>1, <1>2, ProjectWithViewCovers
  <1>4. draft = [preview |-> sheet.cells, omitted |-> sheet.omitted, actions |-> few,
                 findings |-> request.findings, attached |-> attached,
                 dropped |-> {}, said |-> {}, notes |-> 0]
    BY DEF MakeEnvelope
  <1> HIDE DEF sheet, draft
  <1>5. sheet.cells \in Previews /\ sheet.omitted \in Seq(Regions) /\ Len(sheet.omitted) \in Nat
    BY <1>3, LenProperties DEF Sheets
  <1>6. few \in Nat /\ attached \in SUBSET AttachmentNames
    BY <1>1, <1>5, DisclosureAssumption, SmallerOfTwo
  <1> HIDE DEF few, attached
  <1>7. /\ draft \in Envelopes /\ draft.dropped = {} /\ draft.said = {}
        /\ draft.findings = request.findings
        /\ draft.preview = sheet.cells /\ draft.omitted = sheet.omitted
    BY <1>1, <1>4, <1>5, <1>6 DEF Envelopes
  <1>8. NothingHidden(draft, request.what)
    BY <1>3, <1>7 DEF NothingHidden, Covers, IsCovered, IsNamed, IsShownOrNamed, IsWithin
  <1> QED  BY <1>7, <1>8 DEF draft

LEMMA CompactHidesNothing ==
    ASSUME NEW envelope, NEW less, NEW budget, NEW what,
           Compacts(envelope, less, budget), NothingHidden(envelope, what)
    PROVE  NothingHidden(less, what)
  <1>1. CASE less.said \intersect {"omitted", "data_preview"} # {}
    BY <1>1 DEF NothingHidden
  <1>2. CASE less.said \intersect {"omitted", "data_preview"} = {}
    <2>1. less.preview = envelope.preview /\ less.omitted = envelope.omitted
      BY <1>2 DEF Compacts
    <2>2. envelope.said \intersect {"omitted", "data_preview"} = {}
      BY <1>2 DEF Compacts
    <2> QED  BY <2>1, <2>2 DEF NothingHidden, IsShownOrNamed
  <1> QED  BY <1>1, <1>2

\* What holds of an envelope before and after a recipe adds to it.
IsSound(envelope, request) ==
    /\ envelope \in Envelopes /\ envelope.dropped = {}
    /\ NothingHidden(envelope, request.what)
    /\ envelope.findings < request.findings =>
          "findings" \in envelope.said /\ ~SomethingIsLeft(envelope)
    /\ SomethingIsLeft(envelope) \/ envelope.findings > 0 => UnitsOf(envelope) <= request.budget

LEMMA CompactIsSound ==
    ASSUME NEW request \in Requests, NEW envelope \in Envelopes, envelope.dropped = {},
           envelope.findings = request.findings, NothingHidden(envelope, request.what)
    PROVE  IsSound(Compact(envelope, request.budget), request)
  <1> DEFINE less == Compact(envelope, request.budget)
  <1>1. request.budget \in Nat /\ request.findings \in Nat
    BY QuestionsTyped
  <1>2. Compacts(envelope, less, request.budget)
    BY <1>1, CompactCompacts
  <1> HIDE DEF less
  <1>3. NothingHidden(less, request.what)
    BY <1>2, CompactHidesNothing
  <1>4. less.findings < request.findings => "findings" \in less.said /\ ~SomethingIsLeft(less)
    <2>1. CASE less.findings = envelope.findings
      BY <1>1, <2>1
    <2>2. CASE less.findings # envelope.findings
      BY <1>2, <2>2 DEF Compacts
    <2> QED  BY <2>1, <2>2
  <1> QED  BY <1>2, <1>3, <1>4 DEF IsSound, Compacts, less

LEMMA EnvelopeIsSound ==
    ASSUME NEW request \in Requests
    PROVE  IsSound(EnvelopeFor(request, [k \in 0 .. LastRung |-> MakeEnvelope(request, k)]), request)
  <1> DEFINE rungs == 0 .. LastRung
             drafts == [k \in rungs |-> MakeEnvelope(request, k)]
             fitting == {k \in rungs : UnitsOf(drafts[k]) <= request.budget}
             envelope == EnvelopeFor(request, drafts)
  <1>1. /\ rungs \in SUBSET Nat /\ rungs # {} /\ LastRung \in Nat
        /\ \A k \in rungs : k <= LastRung
    BY LastRungTyped
  <1>2. envelope = IF fitting # {} THEN drafts[Min(fitting)]
                   ELSE Compact(drafts[Max(rungs)], request.budget)
    BY DEF EnvelopeFor
  <1>3. request.budget \in Nat /\ request.findings \in Nat
    BY QuestionsTyped
  <1>4. \A k \in rungs : /\ drafts[k] \in Envelopes /\ drafts[k].dropped = {}
                         /\ drafts[k].findings = request.findings
                         /\ NothingHidden(drafts[k], request.what)
    BY DraftHidesNothing
  <1>5. fitting \subseteq rungs /\ \A k \in fitting : UnitsOf(drafts[k]) <= request.budget
    OBVIOUS
  <1> HIDE DEF rungs, drafts, fitting, envelope
  <1>6. CASE fitting # {}
    <2>1. Min(fitting) \in fitting
      <3>1. \E k \in fitting : \A m \in fitting : k <= m
        BY <1>1, <1>5, <1>6, LeastNumber
      <3> QED  BY <3>1, Zenon DEF Min
    <2> DEFINE k == Min(fitting)
    <2>2. envelope = drafts[k] /\ k \in rungs /\ UnitsOf(drafts[k]) <= request.budget
      BY <1>2, <1>5, <1>6, <2>1
    <2> HIDE DEF k
    <2>3. /\ envelope \in Envelopes /\ envelope.dropped = {}
          /\ envelope.findings = request.findings /\ NothingHidden(envelope, request.what)
          /\ UnitsOf(envelope) <= request.budget
      BY <1>4, <2>2
    <2>4. IsSound(envelope, request)
      BY <1>3, <2>3 DEF IsSound
    <2> QED  BY <2>4 DEF envelope, drafts, rungs
  <1>7. CASE fitting = {}
    <2>1. Max(rungs) \in rungs
      BY <1>1, GreatestNumber
    <2> DEFINE draft == drafts[Max(rungs)]
    <2>2. /\ draft \in Envelopes /\ draft.dropped = {}
          /\ draft.findings = request.findings /\ NothingHidden(draft, request.what)
          /\ envelope = Compact(draft, request.budget)
      BY <1>2, <1>4, <1>7, <2>1
    <2> HIDE DEF draft
    <2>3. IsSound(envelope, request)
      BY <2>2, CompactIsSound
    <2> QED  BY <2>3 DEF envelope, drafts, rungs
  <1> QED  BY <1>6, <1>7

LEMMA AnsweredIsSound ==
    ASSUME NEW request \in Requests, NEW envelope, IsSound(envelope, request)
    PROVE  IsSound(Answered(request, envelope), request)
  <1>1. CASE "expanded_commands" \notin request.attached
    BY <1>1 DEF Answered
  <1>2. CASE "expanded_commands" \in request.attached
    <2> DEFINE ran == [envelope EXCEPT !.attached = @ \union {"expanded_commands"},
                                      !.findings = request.findings]
    <2>1. request.findings \in Nat /\ "expanded_commands" \in AttachmentNames
      BY QuestionsTyped DEF AttachmentNames
    <2>2. envelope \in Envelopes /\ envelope.dropped = {} /\ NothingHidden(envelope, request.what)
      BY DEF IsSound
    <2>3. /\ ran \in Envelopes /\ ran.dropped = envelope.dropped /\ ran.said = envelope.said
          /\ ran.findings = request.findings
          /\ ran.preview = envelope.preview /\ ran.omitted = envelope.omitted
      BY <2>1, <2>2 DEF Envelopes
    <2>4. Answered(request, envelope) = Compact(ran, request.budget)
      BY <1>2 DEF Answered
    <2> HIDE DEF ran
    <2>5. NothingHidden(ran, request.what)
      BY <2>2, <2>3 DEF NothingHidden, IsShownOrNamed
    <2> QED  BY <2>2, <2>3, <2>4, <2>5, CompactIsSound
  <1> QED  BY <1>1, <1>2

DisclosureInvariant ==
    asked \in Requests /\ \A envelope \in answer : IsSound(envelope, asked)

\* Whatever of the payload an answer does not show is under a region that it
\* names, or the answer says what it dropped; findings go last, and the answer
\* fits unless nothing is left: for every payload, view, policy and budget.
THEOREM AnswersHideNothing == DisclosureSpec => []NothingIsHiddenSilently
  <1>1. DisclosureInit => DisclosureInvariant
    BY DEF DisclosureInit, DisclosureInvariant, Requests
  <1>2. DisclosureInvariant /\ [DisclosureNext]_disclosureVars => DisclosureInvariant'
    <2>1. SUFFICES ASSUME DisclosureInvariant, [DisclosureNext]_disclosureVars
                   PROVE  DisclosureInvariant'
      OBVIOUS
    <2>2. CASE Disclose
      <3>1. asked' = asked /\ asked \in Requests
        BY <2>1, <2>2 DEF Disclose, DisclosureInvariant
      <3> DEFINE envelope == EnvelopeFor(asked, [k \in 0 .. LastRung |-> MakeEnvelope(asked, k)])
      <3>2. answer' = {Answered(asked, envelope)}
        BY <2>2 DEF Disclose
      <3>3. IsSound(envelope, asked)
        BY <3>1, EnvelopeIsSound
      <3> HIDE DEF envelope
      <3>4. IsSound(Answered(asked, envelope), asked)
        BY <3>1, <3>3, AnsweredIsSound
      <3> QED  BY <3>1, <3>2, <3>4 DEF DisclosureInvariant
    <2>3. CASE UNCHANGED disclosureVars
      BY <2>1, <2>3 DEF DisclosureInvariant, disclosureVars
    <2> QED  BY <2>1, <2>2, <2>3 DEF DisclosureNext
  <1>3. DisclosureInvariant => NothingIsHiddenSilently
    BY DEF DisclosureInvariant, IsSound, NothingIsHiddenSilently, NothingHidden
  <1> QED  BY <1>1, <1>2, <1>3, PTL DEF DisclosureSpec
-----------------------------------------------------------------------------
(* Types of the traversal. *)

Texts == SUBSET STRING
AllKinds ==
    UNION ({StringSignal(markers) : markers \in Texts}
           \union {KeySignal(key, n) : key \in STRING, n \in Nodes}
           \union {SeveritySignal(n) : n \in Nodes})
Finds == [path : Pointers, kind : AllKinds, message : Texts]
ToVisits == [node : Nodes, path : Pointers, depth : Nat, above : Nodes, i : Nat]
Walks == {w \in [visited : Nat, found : SUBSET Finds, left : Seq(ToVisits)] :
             \A k \in DOMAIN w.left : w.left[k].i # 0 => w.left[k].path # <<>>}

LEMMA LinesTyped ==
    ASSUME NEW n \in Nodes, n.type = "string"
    PROVE  /\ n.lines \in Seq(Texts) /\ Len(n.lines) \in Nat
           /\ DOMAIN n.lines = 1 .. Len(n.lines)
           /\ \A i \in DOMAIN n.lines : n.lines[i] \in Texts
           /\ Markers(n) \in Texts
  <1> DEFINE lines == n.lines
  <1>1. lines \in Seq(Texts)
    BY NodesAssumption DEF Texts
  <1> HIDE DEF lines
  <1>2. Len(lines) \in Nat /\ DOMAIN lines = 1 .. Len(lines)
        /\ \A i \in DOMAIN lines : lines[i] \in Texts
    BY <1>1
  <1>3. UNION {lines[i] : i \in DOMAIN lines} \in Texts
    BY <1>2 DEF Texts
  <1> QED  BY <1>1, <1>2, <1>3, Zenon DEF lines, Markers

LEMMA GreaterOfTwo ==
    ASSUME NEW n \in Nat
    PROVE  /\ Max({1, n}) \in Nat /\ 1 <= Max({1, n}) /\ n <= Max({1, n})
           /\ \A m \in Nat : n <= m => Max({1, n}) <= Max({1, m})
  <1> DEFINE most(m) == Max({1, m})
  <1>1. ASSUME NEW m \in Nat
        PROVE  most(m) \in {1, m} /\ 1 <= most(m) /\ m <= most(m)
    <2> DEFINE N == {1, m}
    <2>1. N \in SUBSET Nat /\ N # {} /\ m + 1 \in Nat /\ \A k \in N : k <= m + 1
      OBVIOUS
    <2> HIDE DEF N
    <2>2. Max(N) \in N /\ \A k \in N : k <= Max(N)
      BY <2>1, GreatestNumber
    <2> QED  BY <2>2 DEF N
  <1> HIDE DEF most
  <1>2. \A m \in Nat : n <= m => most(n) <= most(m)
    BY <1>1
  <1>3. most(n) \in Nat /\ 1 <= most(n) /\ n <= most(n)
    BY <1>1
  <1> QED  BY <1>2, <1>3 DEF most

LEMMA LinesSeenTyped ==
    ASSUME NEW lines \in Seq(Texts), NEW visited \in Nat
    PROVE  /\ LinesSeen(lines, visited) \in SUBSET (1 .. Len(lines))
           /\ Cardinality(LinesSeen(lines, visited)) \in Nat
           /\ Cardinality(LinesSeen(lines, visited)) <= Len(lines)
  <1>1. Len(lines) \in Nat /\ DOMAIN lines = 1 .. Len(lines)
    OBVIOUS
  <1>2. LinesSeen(lines, visited) \in SUBSET (1 .. Len(lines))
    BY <1>1 DEF LinesSeen
  <1>3. IsFiniteSet(1 .. Len(lines)) /\ Cardinality(1 .. Len(lines)) = Len(lines)
    BY <1>1, FS_Interval
  <1> HIDE DEF LinesSeen
  <1> QED  BY <1>2, <1>3, FS_Subset, FS_CardinalityType

\* What a place counts for, and what its visit counts for.
Spot(item) == Place(item.node, item.path)

LEMMA LinesOfTyped ==
    ASSUME NEW place \in Places
    PROVE  /\ LinesOf(place) \in Nat /\ 1 <= LinesOf(place)
           /\ IsText(place) => LinesOf(place) = Max({1, Len(place.node.lines)})
  <1>1. CASE IsText(place)
    <2>1. Len(place.node.lines) \in Nat
      BY <1>1, LinesTyped, PlaceIsItself DEF IsText
    <2> QED  BY <1>1, <2>1, GreaterOfTwo DEF LinesOf
  <1>2. CASE ~IsText(place)
    BY <1>2 DEF LinesOf
  <1> QED  BY <1>1, <1>2

LEMMA VisitsAtTyped ==
    ASSUME NEW item \in ToVisits, NEW visited \in Nat
    PROVE  /\ Spot(item) \in Places
           /\ VisitsAt(item, visited) \in Nat
           /\ VisitsAt(item, visited) <= LinesOf(Spot(item))
  <1>1. Spot(item) \in Places /\ item.node \in Nodes
        /\ Spot(item).node = item.node /\ Spot(item).path = item.path
    BY DEF Spot, Place, Places, ToVisits
  <1>2. IsText(item) <=> IsText(Spot(item))
    BY <1>1 DEF IsText
  <1>3. CASE IsText(item) /\ ~IsArgv(item.path)
    <2> DEFINE lines == item.node.lines
               seen == Cardinality(LinesSeen(lines, visited))
    <2>1. lines \in Seq(Texts) /\ Len(lines) \in Nat
      BY <1>1, <1>3, LinesTyped DEF IsText
    <2>2. seen \in Nat /\ seen <= Len(lines)
      BY <2>1, LinesSeenTyped
    <2>3. VisitsAt(item, visited) = Max({1, seen})
      BY <1>3 DEF VisitsAt
    <2>4. LinesOf(Spot(item)) = Max({1, Len(lines)})
      BY <1>1, <1>2, <1>3, LinesOfTyped
    <2> HIDE DEF lines, seen
    <2> QED  BY <1>1, <2>1, <2>2, <2>3, <2>4, GreaterOfTwo
  <1>4. CASE ~(IsText(item) /\ ~IsArgv(item.path))
    <2>1. VisitsAt(item, visited) = 1
      BY <1>4 DEF VisitsAt
    <2>2. LinesOf(Spot(item)) \in Nat /\ 1 <= LinesOf(Spot(item))
      BY <1>1, LinesOfTyped, Zenon
    <2> QED  BY <1>1, <2>1, <2>2
  <1> QED  BY <1>3, <1>4

LEMMA CandidatesTyped ==
    ASSUME NEW path \in Pointers, NEW kinds \in SUBSET AllKinds, NEW message \in Texts
    PROVE  Candidates(path, kinds, message) \in SUBSET Finds
  BY DEF Candidates, Finds

LEMMA KindsTyped ==
    /\ \A markers \in Texts : StringSignal(markers) \in SUBSET AllKinds
    /\ \A key \in STRING, n \in Nodes : KeySignal(key, n) \in SUBSET AllKinds
    /\ \A n \in Nodes : SeveritySignal(n) \in SUBSET AllKinds
    /\ {} \in Texts
  BY DEF AllKinds, Texts

LEMMA SignalsAtTyped ==
    ASSUME NEW item \in ToVisits, NEW visited \in Nat
    PROVE  SignalsAt(item, visited) \in SUBSET Finds
  <1>1. item.node \in Nodes /\ item.path \in Pointers
    BY DEF ToVisits
  <1>2. CASE item.node.type = "string" /\ ~IsArgv(item.path)
    <2> DEFINE node == item.node
               shown == UNION {Candidates(item.path, StringSignal(node.lines[i]), node.lines[i]) :
                                  i \in LinesSeen(node.lines, visited)}
               whole == Candidates(item.path, StringSignal(Markers(node)), Markers(node))
    <2>1. /\ node.lines \in Seq(Texts) /\ DOMAIN node.lines = 1 .. Len(node.lines)
          /\ \A i \in DOMAIN node.lines : node.lines[i] \in Texts
          /\ Markers(node) \in Texts
      BY <1>1, <1>2, LinesTyped
    <2>2. whole \in SUBSET Finds
      BY <1>1, <2>1, KindsTyped, CandidatesTyped
    <2>3. ASSUME NEW i \in LinesSeen(node.lines, visited)
          PROVE  Candidates(item.path, StringSignal(node.lines[i]), node.lines[i]) \in SUBSET Finds
      <3>1. i \in DOMAIN node.lines
        BY <2>1, <2>3, LinesSeenTyped
      <3>2. node.lines[i] \in Texts
        BY <2>1, <3>1
      <3> QED  BY <1>1, <3>2, KindsTyped, CandidatesTyped
    <2>4. shown \in SUBSET Finds
      BY <2>3
    <2>5. SignalsAt(item, visited) = IF IsText(item) /\ shown # {} THEN shown ELSE whole
      BY <1>2 DEF SignalsAt, TextSignals
    <2> HIDE DEF shown, whole
    <2> QED  BY <2>2, <2>4, <2>5
  <1>3. CASE ~(item.node.type = "string" /\ ~IsArgv(item.path))
    <2>1. SignalsAt(item, visited) = Candidates(item.path, SeveritySignal(item.node), {})
      BY <1>3 DEF SignalsAt
    <2> QED  BY <1>1, <2>1, KindsTyped, CandidatesTyped
  <1> QED  BY <1>2, <1>3

LEMMA VisitedBelowTyped ==
    ASSUME NEW item \in ToVisits
    PROVE  /\ VisitedBelow(item) \in Seq(ToVisits)
           /\ Len(VisitedBelow(item)) = Len(Children(item.node))
           /\ \A i \in 1 .. Len(Children(item.node)) :
                 /\ Children(item.node)[i][1] \in STRING /\ Children(item.node)[i][2] \in Nodes
                 /\ VisitedBelow(item)[i].node = Children(item.node)[i][2]
                 /\ VisitedBelow(item)[i].path = Append(item.path, Children(item.node)[i][1])
                 /\ VisitedBelow(item)[i].path # <<>>
                 /\ VisitedBelow(item)[i].depth = item.depth + 1
                 /\ VisitedBelow(item)[i].above = item.node
  <1> DEFINE kids == Children(item.node)
             path(i) == Append(item.path, kids[i][1])
             below == [i \in 1 .. Len(kids) |->
                          ToVisit(kids[i][2], path(i), item.depth + 1, item.node, i)]
  <1>1. /\ item.node \in Nodes /\ item.path \in Pointers /\ item.depth \in Nat
        /\ item.depth + 1 \in Nat
    BY DEF ToVisits
  <1>2. /\ Len(kids) \in Nat /\ DOMAIN kids = 1 .. Len(kids)
        /\ \A i \in 1 .. Len(kids) : kids[i][1] \in STRING /\ kids[i][2] \in Nodes
    BY <1>1, ChildrenTyped
  <1>3. VisitedBelow(item) = below
    BY <1>2 DEF VisitedBelow
  <1>4. ASSUME NEW i \in 1 .. Len(kids) PROVE path(i) \in Pointers /\ path(i) # <<>>
    <2> DEFINE name == kids[i][1]
    <2>1. name \in STRING
      BY <1>2
    <2> HIDE DEF name
    <2>2. Append(item.path, name) \in Pointers /\ Append(item.path, name) # <<>>
      BY <1>1, <2>1, LongerPath, Zenon
    <2> QED  BY <2>2 DEF name
  <1> HIDE DEF kids, path
  <1>5. ASSUME NEW i \in 1 .. Len(kids)
        PROVE  /\ below[i] \in ToVisits
               /\ below[i].node = kids[i][2] /\ below[i].path = path(i)
               /\ below[i].depth = item.depth + 1 /\ below[i].above = item.node
    <2>1. i \in Nat
      BY <1>2
    <2>2. below[i] = ToVisit(kids[i][2], path(i), item.depth + 1, item.node, i)
      OBVIOUS
    <2> HIDE DEF below
    <2> QED  BY <1>1, <1>2, <1>4, <2>1, <2>2 DEF ToVisit, ToVisits
  <1>6. below \in Seq(ToVisits) /\ Len(below) = Len(kids)
    BY <1>2, <1>5
  <1> HIDE DEF below
  <1>7. ASSUME NEW i \in 1 .. Len(kids)
        PROVE  /\ kids[i][1] \in STRING /\ kids[i][2] \in Nodes
               /\ below[i].node = kids[i][2] /\ below[i].path = path(i)
               /\ below[i].path # <<>>
               /\ below[i].depth = item.depth + 1 /\ below[i].above = item.node
    BY <1>2, <1>4, <1>5
  <1> QED  BY <1>3, <1>6, <1>7, Zenon DEF kids, path

\* One turn of the traversal, part by part.
Met(item, visited) == IsReached(item, visited) /\ ~IsCopied(item)
IsVisited(item, visited) ==
    Met(item, visited) /\ ~Classified(item) /\ visited < MaxNodes /\ item.depth <= MaxDepth
Named(item, visited) ==
    IF Met(item, visited) THEN Candidates(item.path, NamedKinds(item), {}) ELSE {}

LEMMA VisitFirstParts ==
    ASSUME NEW walk, walk.left # <<>>
    PROVE  LET item == Head(walk.left)
               next == VisitFirst(walk)
           IN  /\ IsVisited(item, walk.visited) =>
                    next = [visited |-> walk.visited + VisitsAt(item, walk.visited + 1),
                            found |-> walk.found \union Named(item, walk.visited)
                                      \union SignalsAt(item, walk.visited + 1),
                            left |-> VisitedBelow(item) \o Tail(walk.left)]
               /\ ~IsVisited(item, walk.visited) =>
                    next = [visited |-> walk.visited,
                            found |-> walk.found \union Named(item, walk.visited),
                            left |-> Tail(walk.left)]
  BY Zenon DEF VisitFirst, IsVisited, Named, Met

LEMMA NamedTyped ==
    ASSUME NEW item \in ToVisits, item.i # 0 => item.path # <<>>, NEW visited
    PROVE  Named(item, visited) \in SUBSET Finds
  <1>1. item.node \in Nodes /\ item.path \in Pointers
    BY DEF ToVisits
  <1>2. CASE IsField(item)
    <2>1. Last(item.path) \in STRING
      <3>1. item.path \in Seq(STRING) /\ item.path # <<>>
        BY <1>1, <1>2 DEF IsField, Pointers
      <3> QED  BY <3>1, EmptySeq, LenProperties DEF Last
    <2>2. NamedKinds(item) = KeySignal(Last(item.path), item.node)
      BY <1>2 DEF NamedKinds
    <2>3. NamedKinds(item) \in SUBSET AllKinds
      BY <1>1, <2>1, <2>2, KindsTyped
    <2> QED  BY <1>1, <2>3, KindsTyped, CandidatesTyped DEF Named
  <1>3. CASE ~IsField(item)
    <2>1. NamedKinds(item) = {}
      BY <1>3 DEF NamedKinds
    <2> QED  BY <2>1 DEF Named, Candidates
  <1> QED  BY <1>2, <1>3

LEMMA VisitFirstTyped ==
    ASSUME NEW walk \in Walks PROVE VisitFirst(walk) \in Walks
  <1> DEFINE item == Head(walk.left)
             rest == Tail(walk.left)
             below == VisitedBelow(item)
             IsPlaced(left) == \A k \in DOMAIN left : left[k].i # 0 => left[k].path # <<>>
  <1>1. /\ walk.visited \in Nat /\ walk.found \in SUBSET Finds /\ walk.left \in Seq(ToVisits)
        /\ IsPlaced(walk.left)
    BY DEF Walks
  <1>2. CASE walk.left = <<>>
    BY <1>2 DEF VisitFirst
  <1>3. CASE walk.left # <<>>
    <2>1. /\ item \in ToVisits /\ rest \in Seq(ToVisits) /\ item = walk.left[1]
          /\ Len(rest) = Len(walk.left) - 1 /\ Len(rest) \in Nat
          /\ \A i \in 1 .. Len(rest) : rest[i] = walk.left[i + 1]
          /\ Len(walk.left) \in Nat /\ DOMAIN walk.left = 1 .. Len(walk.left)
      BY <1>1, <1>3, HeadTailProperties, LenProperties
    <2>2. /\ IsVisited(item, walk.visited) =>
               VisitFirst(walk) = [visited |-> walk.visited + VisitsAt(item, walk.visited + 1),
                                   found |-> walk.found \union Named(item, walk.visited)
                                             \union SignalsAt(item, walk.visited + 1),
                                   left |-> below \o rest]
          /\ ~IsVisited(item, walk.visited) =>
               VisitFirst(walk) = [visited |-> walk.visited,
                                   found |-> walk.found \union Named(item, walk.visited),
                                   left |-> rest]
      BY <1>3, VisitFirstParts, Zenon
    <2>3. /\ below \in Seq(ToVisits)
          /\ \A i \in 1 .. Len(below) : below[i].path # <<>>
      BY <2>1, VisitedBelowTyped
    <2>4. item.i # 0 => item.path # <<>>
      BY <1>1, <1>3, <2>1
    <2>5. IsPlaced(rest)
      BY <1>1, <2>1
    <2> HIDE DEF item, rest, below
    <2>6. below \o rest \in Seq(ToVisits) /\ IsPlaced(below \o rest)
      <3>1. /\ below \o rest \in Seq(ToVisits)
            /\ DOMAIN (below \o rest) = 1 .. Len(below) + Len(rest)
            /\ Len(below) \in Nat /\ Len(rest) \in Nat /\ DOMAIN rest = 1 .. Len(rest)
            /\ \A i \in 1 .. Len(below) : (below \o rest)[i] = below[i]
            /\ \A i \in 1 .. Len(rest) : (below \o rest)[Len(below) + i] = rest[i]
        <4>1. below \in Seq(ToVisits) /\ rest \in Seq(ToVisits)
          BY <2>1, <2>3
        <4> QED  BY <4>1, ConcatParts
      <3> DEFINE left == below \o rest
      <3> HIDE DEF left
      <3>2. ASSUME NEW k \in DOMAIN left PROVE left[k].i # 0 => left[k].path # <<>>
        <4>1. k \in 1 .. Len(below) \/ (k - Len(below) \in 1 .. Len(rest)
                                         /\ Len(below) + (k - Len(below)) = k)
          BY <3>1, <3>2 DEF left
        <4>2. CASE k \in 1 .. Len(below)
          BY <2>3, <3>1, <4>2 DEF left
        <4>3. CASE k - Len(below) \in 1 .. Len(rest) /\ Len(below) + (k - Len(below)) = k
          BY <2>5, <3>1, <4>3 DEF left
        <4> QED  BY <4>1, <4>2, <4>3
      <3> QED  BY <3>1, <3>2 DEF left
    <2>7. walk.visited + 1 \in Nat
      BY <1>1
    <2>8. VisitsAt(item, walk.visited + 1) \in Nat
      BY <2>1, <2>7, VisitsAtTyped
    <2>9. SignalsAt(item, walk.visited + 1) \in SUBSET Finds
          /\ Named(item, walk.visited) \in SUBSET Finds
      BY <2>1, <2>4, <2>7, SignalsAtTyped, NamedTyped
    <2>10. CASE IsVisited(item, walk.visited)
      <3> DEFINE visits == VisitsAt(item, walk.visited + 1)
                 signals == SignalsAt(item, walk.visited + 1)
                 named == Named(item, walk.visited)
                 left == below \o rest
      <3>1. VisitFirst(walk) = [visited |-> walk.visited + visits,
                                found |-> walk.found \union named \union signals, left |-> left]
        BY <2>2, <2>10
      <3>2. /\ visits \in Nat /\ signals \in SUBSET Finds /\ named \in SUBSET Finds
            /\ left \in Seq(ToVisits) /\ IsPlaced(left)
        BY <2>6, <2>8, <2>9
      <3> HIDE DEF visits, signals, named, left
      <3>3. walk.visited + visits \in Nat /\ walk.found \union named \union signals \in SUBSET Finds
        BY <1>1, <3>2
      <3> QED  BY <3>1, <3>2, <3>3 DEF Walks
    <2>11. CASE ~IsVisited(item, walk.visited)
      <3> DEFINE named == Named(item, walk.visited)
      <3>1. VisitFirst(walk) = [visited |-> walk.visited, found |-> walk.found \union named,
                                left |-> rest]
        BY <2>2, <2>11
      <3>2. named \in SUBSET Finds
        BY <2>9
      <3> HIDE DEF named
      <3>3. walk.found \union named \in SUBSET Finds
        BY <1>1, <3>2
      <3> QED  BY <1>1, <2>1, <2>5, <3>1, <3>3 DEF Walks
    <2> QED  BY <2>10, <2>11
  <1> QED  BY <1>2, <1>3

First(node, base) ==
    [visited |-> 0, found |-> {}, left |-> <<ToVisit(node, base, 0, node, 0)>>]

LEMMA WalkUnfolds ==
    ASSUME NEW node \in Nodes, NEW base \in Pointers
    PROVE  /\ Walk(node, base, 0) = First(node, base)
           /\ \A n \in Nat : /\ Walk(node, base, n) \in Walks
                             /\ Walk(node, base, n + 1) = VisitFirst(Walk(node, base, n))
  <1> DEFINE first == First(node, base)
             step == [nx \in Nat \X Walks |-> VisitFirst(nx[2])]
             IsWalk(f) == f = [n \in Nat |-> IF n = 0 THEN first ELSE VisitFirst(f[n - 1])]
             walk == CHOOSE f : IsWalk(f)
  <1>1. first \in Walks
    <2>1. ToVisit(node, base, 0, node, 0) \in ToVisits /\ ToVisit(node, base, 0, node, 0).i = 0
      BY DEF ToVisit, ToVisits
    <2> DEFINE item == ToVisit(node, base, 0, node, 0)
    <2> HIDE DEF item
    <2>2. item \in ToVisits /\ item.i = 0
      BY <2>1 DEF item
    <2>3. <<item>> \in Seq(ToVisits) /\ \A k \in DOMAIN <<item>> : <<item>>[k].i = 0
      BY <2>2
    <2> QED  BY <2>3 DEF First, Walks, item
  <1>2. step \in [Nat \X Walks -> Walks]
    BY VisitFirstTyped
  <1>3. \A n \in Nat : Walk(node, base, n) = walk[n]
    BY DEF Walk, First
  <1> HIDE DEF first, step
  <1>4. PICK f : IsRecursion(f, Walks, first, step)
    BY <1>1, <1>2, Recursion, Zenon
  <1>5. IsWalk(f)
    <2>1. ASSUME NEW n \in Nat, n # 0 PROVE step[<<n, f[n - 1]>>] = VisitFirst(f[n - 1])
      <3>1. n - 1 \in Nat
        BY <2>1
      <3>2. f[n - 1] \in Walks
        BY <1>4, <3>1 DEF IsRecursion
      <3> QED  BY <3>2 DEF step
    <2> QED  BY <1>4, <2>1 DEF IsRecursion
  <1> HIDE DEF IsWalk
  <1>6. IsWalk(walk)
    BY <1>5, Zenon
  <1> USE DEF IsWalk
  <1> HIDE DEF walk
  <1>7. walk[0] = first /\ \A n \in Nat : walk[n + 1] = VisitFirst(walk[n])
    <2>1. \A n \in Nat : n + 1 \in Nat /\ n + 1 # 0 /\ n + 1 - 1 = n
      OBVIOUS
    <2> QED  BY <1>6, <2>1
  <1> DEFINE S == {n \in Nat : walk[n] \in Walks}
  <1>8. 0 \in S
    BY <1>1, <1>7
  <1>9. \A n \in Nat : n \in S => n + 1 \in S
    BY <1>7, VisitFirstTyped
  <1> HIDE DEF S
  <1>10. \A n \in Nat : n \in S
    BY <1>8, <1>9, EveryNumber
  <1> QED  BY <1>3, <1>7, <1>10 DEF first, S

-----------------------------------------------------------------------------
(* Going through a tree, a node at a time.  What is left to visit are places *)
(* of the tree, none of them in another, and what was taken is not in any.   *)

Known(item, root, base) ==
    /\ Spot(item) \in PlacesOf(root, base) /\ Len(item.path) = Len(base) + item.depth
    /\ item.i # 0 => \E up \in PlacesOf(root, base) :
                        up.node = item.above /\ item.path = Append(up.path, Last(item.path))
AllKnown(left, root, base) == \A k \in DOMAIN left : Known(left[k], root, base)
AllApart(left) ==
    \A j, k \in DOMAIN left : j # k => ~IsPrefix(left[j].path, left[k].path)
Untaken(left, taken) ==
    \A k \in DOMAIN left : \A place \in taken : ~IsPrefix(left[k].path, place.path)

Remains(left, root, base, taken) ==
    /\ taken \in SUBSET PlacesOf(root, base)
    /\ AllKnown(left, root, base) /\ AllApart(left) /\ Untaken(left, taken)

IsAhead(left, place) == \E k \in DOMAIN left : IsPrefix(left[k].path, place.path)

LEMMA PlaceTyped ==
    ASSUME NEW root \in Nodes, NEW base \in Pointers, NEW place \in PlacesOf(root, base)
    PROVE  /\ place \in Places /\ place.node \in Nodes /\ place.path \in Pointers
           /\ Len(base) \in Nat /\ Len(place.path) - Len(base) \in 0 .. Deepest
           /\ Len(place.path) - Len(base) \in Nat /\ Len(place.path) \in Nat
           /\ place \in Level(root, base, Len(place.path) - Len(base))
  <1>1. PICK d \in 0 .. Deepest : place \in Level(root, base, d)
    BY DEF PlacesOf
  <1>2. d \in Nat /\ Len(base) \in Nat
    BY PathsAssumption, LenProperties DEF Pointers
  <1>3. /\ place \in Places /\ place.node \in Nodes /\ place.path \in Pointers
        /\ Len(place.path) = Len(base) + d
    BY <1>1, <1>2, LevelPaths, PlaceIsItself
  <1>4. Len(place.path) - Len(base) = d /\ Len(place.path) \in Nat
    BY <1>2, <1>3
  <1> QED  BY <1>1, <1>2, <1>3, <1>4

LEMMA KnownTyped ==
    ASSUME NEW root \in Nodes, NEW base \in Pointers,
           NEW item \in ToVisits, Known(item, root, base)
    PROVE  /\ item.depth \in Nat /\ item.depth <= Deepest
           /\ Spot(item).path = item.path /\ Spot(item).node = item.node
           /\ Spot(item) \in Places /\ Spot(item) \in PlacesOf(root, base)
           /\ Spot(item) \in Level(root, base, item.depth)
           /\ item.path \in Pointers /\ item.node \in Nodes
  <1>1. Spot(item) \in PlacesOf(root, base) /\ Len(item.path) = Len(base) + item.depth
    BY DEF Known
  <1>2. Spot(item).path = item.path /\ Spot(item).node = item.node
    BY DEF Spot, Place
  <1>3. item.depth \in Nat /\ item.path \in Pointers /\ item.node \in Nodes
    BY DEF ToVisits
  <1>4. /\ Spot(item) \in Places /\ Len(base) \in Nat
        /\ Len(item.path) - Len(base) \in 0 .. Deepest
        /\ Spot(item) \in Level(root, base, Len(item.path) - Len(base))
    BY <1>1, <1>2, PlaceTyped
  <1>5. Len(item.path) - Len(base) = item.depth
    BY <1>1, <1>3, <1>4
  <1> QED  BY <1>1, <1>2, <1>3, <1>4, <1>5, PathsAssumption

\* What is below a known place is known.
LEMMA KnownBelow ==
    ASSUME NEW root \in Nodes, NEW base \in Pointers, NEW item \in ToVisits,
           Known(item, root, base), item.depth < Deepest
    PROVE  AllKnown(VisitedBelow(item), root, base)
  <1> DEFINE below == VisitedBelow(item)
             kids == Children(item.node)
  <1>1. /\ below \in Seq(ToVisits) /\ Len(below) = Len(kids)
        /\ \A i \in 1 .. Len(kids) :
              /\ kids[i][1] \in STRING /\ kids[i][2] \in Nodes
              /\ below[i].node = kids[i][2] /\ below[i].path = Append(item.path, kids[i][1])
              /\ below[i].depth = item.depth + 1 /\ below[i].above = item.node
    BY VisitedBelowTyped
  <1>2. DOMAIN below = 1 .. Len(kids) /\ DOMAIN kids = 1 .. Len(kids)
    BY <1>1, LenProperties, ChildrenTyped, KnownTyped
  <1>3. ASSUME NEW i \in 1 .. Len(kids) PROVE Known(below[i], root, base)
    <2> DEFINE path == Append(item.path, kids[i][1])
               name == kids[i][1]
    <2>1. Spot(below[i]) = Place(kids[i][2], path)
      BY <1>1, <1>3 DEF Spot
    <2>2. /\ name \in STRING /\ item.path \in Pointers /\ path = Append(item.path, name)
          /\ below[i].path = path
      BY <1>1, <1>3, KnownTyped
    <2>3. Spot(below[i]) \in PlacesBelow(Spot(item))
      BY <1>2, <1>3, <2>1, KnownTyped DEF PlacesBelow
    <2>4. Spot(below[i]) \in Level(root, base, item.depth + 1)
      BY <2>3, LevelUnfolds, KnownTyped DEF NextLevel
    <2>5. Spot(below[i]) \in PlacesOf(root, base)
      <3>1. item.depth + 1 \in 0 .. Deepest
        BY KnownTyped, PathsAssumption
      <3> QED  BY <2>4, <3>1 DEF PlacesOf
    <2> HIDE DEF path, name
    <2>6. Len(below[i].path) = Len(base) + below[i].depth
      <3>1. Len(path) = Len(item.path) + 1
        BY <2>2, LongerPath
      <3>2. below[i].depth = item.depth + 1 /\ Len(item.path) = Len(base) + item.depth
        BY <1>1, <1>3 DEF Known
      <3>3. Len(base) \in Nat /\ item.depth \in Nat
        BY KnownTyped, LenProperties DEF Pointers
      <3> QED  BY <2>2, <3>1, <3>2, <3>3
    <2>7. below[i].path = Append(item.path, Last(below[i].path))
      BY <2>2, LongerPath
    <2>8. Spot(item).path = item.path /\ Spot(item).node = below[i].above
          /\ Spot(item) \in PlacesOf(root, base)
      BY <1>1, <1>3, KnownTyped
    <2> HIDE DEF below
    <2> QED  BY <2>5, <2>6, <2>7, <2>8 DEF Known
  <1> HIDE DEF below
  <1>4. AllKnown(below, root, base)
    BY <1>2, <1>3 DEF AllKnown
  <1> QED  BY <1>4 DEF below

LEMMA ConcatEach ==
    ASSUME NEW S, NEW a \in Seq(S), NEW b \in Seq(S), NEW k \in DOMAIN (a \o b)
    PROVE  \/ \E i \in DOMAIN a : k = i /\ (a \o b)[k] = a[i]
           \/ \E i \in DOMAIN b : k = Len(a) + i /\ (a \o b)[k] = b[i]
  <1>1. /\ DOMAIN (a \o b) = 1 .. Len(a) + Len(b)
        /\ Len(a) \in Nat /\ Len(b) \in Nat
        /\ DOMAIN a = 1 .. Len(a) /\ DOMAIN b = 1 .. Len(b)
        /\ \A i \in 1 .. Len(a) : (a \o b)[i] = a[i]
        /\ \A i \in 1 .. Len(b) : (a \o b)[Len(a) + i] = b[i]
    BY ConcatParts
  <1> DEFINE both == a \o b
  <1>2. k \in 1 .. Len(a) + Len(b)
    BY <1>1
  <1> HIDE DEF both
  <1>3. CASE k \in 1 .. Len(a)
    BY <1>1, <1>3
  <1>4. CASE k \notin 1 .. Len(a)
    <2>1. k - Len(a) \in 1 .. Len(b) /\ k = Len(a) + (k - Len(a))
      BY <1>1, <1>2, <1>4
    <2> DEFINE i == k - Len(a)
    <2>2. i \in DOMAIN b /\ k = Len(a) + i
      BY <1>1, <2>1
    <2> HIDE DEF i
    <2> QED  BY <1>1, <2>2
  <1> QED  BY <1>3, <1>4

\* What is visited next is apart from what is left, and from what was taken.
LEMMA BelowApart ==
    ASSUME NEW item \in ToVisits
    PROVE  AllApart(VisitedBelow(item))
  <1> DEFINE below == VisitedBelow(item)
             kids == Children(item.node)
  <1>1. /\ below \in Seq(ToVisits) /\ Len(below) = Len(kids)
        /\ \A i \in 1 .. Len(kids) :
              kids[i][1] \in STRING /\ below[i].path = Append(item.path, kids[i][1])
    BY VisitedBelowTyped
  <1>2. item.node \in Nodes /\ item.path \in Pointers
    BY DEF ToVisits
  <1>3. DOMAIN below = 1 .. Len(kids) /\ DOMAIN kids = 1 .. Len(kids)
    BY <1>1, <1>2, LenProperties, ChildrenTyped
  <1>4. \A i, j \in DOMAIN kids : kids[i][1] = kids[j][1] => i = j
    BY <1>2, NodesAssumption DEF IsClosed
  <1> HIDE DEF below, kids
  <1>5. ASSUME NEW j \in DOMAIN below, NEW k \in DOMAIN below, j # k
        PROVE  ~IsPrefix(below[j].path, below[k].path)
    <2> DEFINE a == kids[j][1]
               b == kids[k][1]
    <2>1. a \in STRING /\ b \in STRING /\ a # b
      BY <1>1, <1>3, <1>4, <1>5
    <2>2. below[j].path = Append(item.path, a) /\ below[k].path = Append(item.path, b)
      BY <1>1, <1>3, <1>5
    <2> HIDE DEF a, b
    <2>3. ~IsPrefix(Append(item.path, a), Append(item.path, b))
      BY <1>2, <2>1, SiblingsApart
    <2> QED  BY <2>2, <2>3
  <1> QED  BY <1>5 DEF AllApart, below

LEMMA VisitApart ==
    ASSUME NEW left \in Seq(ToVisits), left # <<>>, AllApart(left),
           NEW taken \in SUBSET Places, Untaken(left, taken)
    PROVE  LET more == taken \union {Spot(Head(left))}
               next == VisitedBelow(Head(left)) \o Tail(left)
           IN  /\ AllApart(Tail(left)) /\ Untaken(Tail(left), more)
               /\ AllApart(next) /\ Untaken(next, more)
               /\ Spot(Head(left)) \notin taken
  <1> DEFINE item == Head(left)
             rest == Tail(left)
             below == VisitedBelow(item)
             kids == Children(item.node)
             more == taken \union {Spot(item)}
  <1>1. /\ item \in ToVisits /\ rest \in Seq(ToVisits) /\ item = left[1]
        /\ Len(rest) = Len(left) - 1 /\ Len(rest) \in Nat /\ DOMAIN rest = 1 .. Len(rest)
        /\ \A i \in 1 .. Len(rest) : rest[i] = left[i + 1] /\ rest[i] \in ToVisits
        /\ Len(left) \in Nat /\ DOMAIN left = 1 .. Len(left)
    BY HeadTailProperties, LenProperties
  <1>2. item.path \in Pointers /\ Spot(item).path = item.path
    BY <1>1 DEF ToVisits, Spot, Place
  <1>3. \A place \in taken : place.path \in Pointers
    BY PlaceIsItself
  <1> HIDE DEF item, rest
  <1>4. ASSUME NEW k \in 1 .. Len(rest)
        PROVE  /\ k + 1 \in DOMAIN left /\ 1 \in DOMAIN left /\ k + 1 # 1
               /\ rest[k].path \in Pointers
               /\ ~IsPrefix(rest[k].path, item.path) /\ ~IsPrefix(item.path, rest[k].path)
    <2>1. k + 1 \in DOMAIN left /\ 1 \in DOMAIN left /\ k + 1 # 1
      BY <1>1
    <2>2. rest[k] = left[k + 1] /\ item = left[1]
      BY <1>1
    <2>3. rest[k].path \in Pointers
      BY <1>1 DEF ToVisits
    <2> QED  BY <2>1, <2>2, <2>3 DEF AllApart
  <1>5. AllApart(rest)
    <2>1. ASSUME NEW j \in DOMAIN rest, NEW k \in DOMAIN rest, j # k
          PROVE  ~IsPrefix(rest[j].path, rest[k].path)
      <3>1. j + 1 # k + 1 /\ j + 1 \in DOMAIN left /\ k + 1 \in DOMAIN left
        BY <1>1, <2>1
      <3>2. rest[j] = left[j + 1] /\ rest[k] = left[k + 1]
        BY <1>1
      <3> QED  BY <3>1, <3>2 DEF AllApart
    <2> QED  BY <2>1 DEF AllApart
  <1>6. Untaken(rest, more)
    <2>1. ASSUME NEW k \in DOMAIN rest, NEW place \in taken
          PROVE  ~IsPrefix(rest[k].path, place.path)
      <3>1. k + 1 \in DOMAIN left /\ rest[k] = left[k + 1]
        BY <1>1
      <3> QED  BY <3>1 DEF Untaken
    <2>2. \A k \in DOMAIN rest : ~IsPrefix(rest[k].path, Spot(item).path)
      BY <1>1, <1>2, <1>4
    <2> QED  BY <2>1, <2>2 DEF Untaken
  <1>7. /\ below \in Seq(ToVisits) /\ DOMAIN below = 1 .. Len(kids)
        /\ \A i \in 1 .. Len(kids) :
              kids[i][1] \in STRING /\ below[i].path = Append(item.path, kids[i][1])
    <2>1. /\ below \in Seq(ToVisits) /\ Len(below) = Len(kids)
          /\ \A i \in 1 .. Len(kids) :
                kids[i][1] \in STRING /\ below[i].path = Append(item.path, kids[i][1])
      BY <1>1, VisitedBelowTyped
    <2> QED  BY <2>1, LenProperties
  <1>8. AllApart(below)
    BY <1>1, BelowApart
  <1>9. \A place \in taken : ~IsPrefix(item.path, place.path)
    <2>1. 1 \in DOMAIN left
      <3>1. Len(left) # 0
        BY EmptySeq
      <3> QED  BY <1>1, <3>1
    <2> QED  BY <1>1, <2>1 DEF Untaken
  <1> HIDE DEF below, kids
  \* A child goes on from its parent, which is apart from the others.
  <1>10. ASSUME NEW i \in DOMAIN below
         PROVE  /\ ~IsPrefix(below[i].path, item.path)
                /\ \A place \in taken : ~IsPrefix(below[i].path, place.path)
                /\ \A k \in DOMAIN rest : /\ ~IsPrefix(below[i].path, rest[k].path)
                                         /\ ~IsPrefix(rest[k].path, below[i].path)
    <2> DEFINE name == kids[i][1]
    <2>1. name \in STRING /\ below[i].path = Append(item.path, name)
      BY <1>7, <1>10
    <2> HIDE DEF name
    <2> DEFINE path == Append(item.path, name)
    <2>2. /\ ~IsPrefix(path, item.path) /\ path \in Pointers
          /\ \A t \in Pointers : IsPrefix(path, t) => IsPrefix(item.path, t)
          /\ \A t \in Pointers : IsPrefix(t, path) => IsPrefix(t, item.path) \/ t = path
          /\ IsPrefix(item.path, path)
      BY <1>2, <2>1, LongerPath, PrefixGoesOn, PrefixOfLonger, Zenon
    <2>3. below[i].path = path
      BY <2>1
    <2> HIDE DEF path
    <2>4. \A place \in taken : ~IsPrefix(path, place.path)
      BY <1>3, <1>9, <2>2
    <2>5. ASSUME NEW k \in DOMAIN rest
          PROVE  ~IsPrefix(path, rest[k].path) /\ ~IsPrefix(rest[k].path, path)
      <3>1. /\ rest[k].path \in Pointers
            /\ ~IsPrefix(rest[k].path, item.path) /\ ~IsPrefix(item.path, rest[k].path)
        BY <1>1, <1>4
      <3>2. rest[k].path # path
        BY <2>2, <3>1
      <3> QED  BY <2>2, <3>1, <3>2
    <2> QED  BY <2>2, <2>3, <2>4, <2>5
  <1> DEFINE next == below \o rest
  <1>11. ASSUME NEW k \in DOMAIN next
         PROVE  \/ \E i \in DOMAIN below : k = i /\ next[k] = below[i]
                \/ \E i \in DOMAIN rest : k = Len(below) + i /\ next[k] = rest[i]
    BY <1>1, <1>7, <1>11, ConcatEach
  <1> HIDE DEF next
  <1>12. AllApart(next)
    <2>1. ASSUME NEW j \in DOMAIN next, NEW k \in DOMAIN next, j # k
          PROVE  ~IsPrefix(next[j].path, next[k].path)
      <3>1. ASSUME NEW a \in DOMAIN below, j = a, next[j] = below[a]
            PROVE  ~IsPrefix(next[j].path, next[k].path)
        <4>1. ASSUME NEW b \in DOMAIN below, k = b, next[k] = below[b]
              PROVE  ~IsPrefix(next[j].path, next[k].path)
          <5>1. a # b
            BY <2>1, <3>1, <4>1
          <5>2. ~IsPrefix(below[a].path, below[b].path)
            BY <1>8, <5>1 DEF AllApart
          <5> QED  BY <3>1, <4>1, <5>2
        <4>2. ASSUME NEW b \in DOMAIN rest, next[k] = rest[b]
              PROVE  ~IsPrefix(next[j].path, next[k].path)
          BY <1>10, <3>1, <4>2
        <4> QED  BY <1>11, <4>1, <4>2
      <3>2. ASSUME NEW a \in DOMAIN rest, j = Len(below) + a, next[j] = rest[a]
            PROVE  ~IsPrefix(next[j].path, next[k].path)
        <4>1. ASSUME NEW b \in DOMAIN below, next[k] = below[b]
              PROVE  ~IsPrefix(next[j].path, next[k].path)
          BY <1>10, <3>2, <4>1
        <4>2. ASSUME NEW b \in DOMAIN rest, k = Len(below) + b, next[k] = rest[b]
              PROVE  ~IsPrefix(next[j].path, next[k].path)
          <5>1. a # b
            BY <2>1, <3>2, <4>2
          <5>2. ~IsPrefix(rest[a].path, rest[b].path)
            BY <1>5, <5>1 DEF AllApart
          <5> QED  BY <3>2, <4>2, <5>2
        <4> QED  BY <1>11, <4>1, <4>2
      <3> QED  BY <1>11, <3>1, <3>2
    <2> QED  BY <2>1 DEF AllApart
  <1>13. Untaken(next, more)
    <2>1. ASSUME NEW k \in DOMAIN next, NEW place \in more
          PROVE  ~IsPrefix(next[k].path, place.path)
      <3>1. CASE \E i \in DOMAIN below : next[k] = below[i]
        BY <1>2, <1>10, <3>1
      <3>2. CASE \E i \in DOMAIN rest : next[k] = rest[i]
        BY <1>6, <3>2 DEF Untaken
      <3> QED  BY <1>11, <3>1, <3>2
    <2> QED  BY <2>1 DEF Untaken
  <1>14. Spot(item) \notin taken
    BY <1>2, <1>9, PrefixOfItself
  <1> QED  BY <1>5, <1>6, <1>12, <1>13, <1>14, Zenon DEF next, below, more, item, rest

\* A node is taken of what is left: what was ahead is in it, or still ahead.
LEMMA TakeFirst ==
    ASSUME NEW root \in Nodes, NEW base \in Pointers, NEW left \in Seq(ToVisits), left # <<>>,
           NEW taken, Remains(left, root, base, taken)
    PROVE  LET item == Head(left)
               rest == Tail(left)
               more == taken \union {Spot(item)}
           IN  /\ item \in ToVisits /\ rest \in Seq(ToVisits) /\ Known(item, root, base)
               /\ Spot(item) \in PlacesOf(root, base) /\ Spot(item) \notin taken
               /\ Remains(rest, root, base, more)
               /\ VisitedBelow(item) \o rest \in Seq(ToVisits)
               /\ item.depth < Deepest => Remains(VisitedBelow(item) \o rest, root, base, more)
               /\ \A place : IsAhead(left, place) =>
                     IsPrefix(item.path, place.path) \/ IsAhead(rest, place)
               /\ \A place : IsAhead(VisitedBelow(item), place) \/ IsAhead(rest, place) =>
                     IsAhead(VisitedBelow(item) \o rest, place)
  <1> DEFINE item == Head(left)
             rest == Tail(left)
             below == VisitedBelow(item)
             all == PlacesOf(root, base)
             more == taken \union {Spot(item)}
             next == below \o rest
  <1>1. taken \in SUBSET all /\ all \in SUBSET Places
    BY PlacesFinite DEF Remains
  <1>2. /\ item \in ToVisits /\ rest \in Seq(ToVisits) /\ item = left[1]
        /\ Len(rest) = Len(left) - 1 /\ Len(rest) \in Nat /\ DOMAIN rest = 1 .. Len(rest)
        /\ \A i \in 1 .. Len(rest) : rest[i] = left[i + 1]
        /\ Len(left) \in Nat /\ DOMAIN left = 1 .. Len(left)
    BY HeadTailProperties, LenProperties
  <1>3. 1 \in DOMAIN left
    <2>1. Len(left) # 0
      BY EmptySeq
    <2> QED  BY <1>2, <2>1
  <1>4. Known(item, root, base)
    BY <1>2, <1>3 DEF Remains, AllKnown
  <1>5. Spot(item) \in all
    BY <1>4 DEF Known
  <1>6. /\ AllApart(rest) /\ Untaken(rest, more)
        /\ AllApart(next) /\ Untaken(next, more)
        /\ Spot(item) \notin taken
    <2>1. AllApart(left) /\ Untaken(left, taken) /\ taken \in SUBSET Places
      BY <1>1 DEF Remains
    <2> QED  BY <2>1, VisitApart, Zenon
  <1>7. AllKnown(rest, root, base)
    <2>1. ASSUME NEW k \in DOMAIN rest PROVE Known(rest[k], root, base)
      <3>1. k + 1 \in DOMAIN left /\ rest[k] = left[k + 1]
        BY <1>2
      <3> QED  BY <3>1 DEF Remains, AllKnown
    <2> QED  BY <2>1 DEF AllKnown
  <1>8. below \in Seq(ToVisits) /\ (item.depth < Deepest => AllKnown(below, root, base))
    BY <1>2, <1>4, VisitedBelowTyped, KnownBelow
  <1>9. more \in SUBSET all
    BY <1>1, <1>5
  <1>10. ASSUME NEW place, IsAhead(left, place)
         PROVE  IsPrefix(item.path, place.path) \/ IsAhead(rest, place)
    <2>1. PICK k \in DOMAIN left : IsPrefix(left[k].path, place.path)
      BY <1>10 DEF IsAhead
    <2>2. CASE k = 1
      BY <1>2, <2>1, <2>2
    <2>3. CASE k # 1
      <3>1. k - 1 \in DOMAIN rest /\ k - 1 + 1 = k
        BY <1>2, <2>1, <2>3
      <3>2. rest[k - 1] = left[k]
        BY <1>2, <3>1
      <3> QED  BY <2>1, <3>1, <3>2 DEF IsAhead
    <2> QED  BY <2>2, <2>3
  <1> HIDE DEF item, rest, below, all, more
  <1>11. /\ next \in Seq(ToVisits) /\ DOMAIN next = 1 .. Len(below) + Len(rest)
         /\ Len(below) \in Nat /\ Len(rest) \in Nat
         /\ DOMAIN below = 1 .. Len(below) /\ DOMAIN rest = 1 .. Len(rest)
         /\ \A i \in 1 .. Len(below) : next[i] = below[i]
         /\ \A i \in 1 .. Len(rest) : next[Len(below) + i] = rest[i]
    <2>1. below \in Seq(ToVisits) /\ rest \in Seq(ToVisits)
      BY <1>2, <1>8
    <2> QED  BY <2>1, ConcatParts
  <1> HIDE DEF next
  <1>12. ASSUME NEW k \in DOMAIN next
         PROVE  \/ \E i \in DOMAIN below : k = i /\ next[k] = below[i]
                \/ \E i \in DOMAIN rest : k = Len(below) + i /\ next[k] = rest[i]
    <2>1. CASE k <= Len(below)
      BY <1>11, <1>12, <2>1
    <2>2. CASE ~(k <= Len(below))
      <3> DEFINE i == k - Len(below)
      <3>1. i \in DOMAIN rest /\ k = Len(below) + i
        BY <1>11, <1>12, <2>2
      <3> HIDE DEF i
      <3> QED  BY <1>11, <3>1
    <2> QED  BY <2>1, <2>2
  <1>13. ASSUME item.depth < Deepest PROVE AllKnown(next, root, base)
    <2>1. ASSUME NEW k \in DOMAIN next PROVE Known(next[k], root, base)
      BY <1>7, <1>8, <1>12, <1>13, <2>1 DEF AllKnown
    <2> QED  BY <2>1 DEF AllKnown
  <1>14. ASSUME NEW place, IsAhead(below, place) \/ IsAhead(rest, place)
         PROVE  IsAhead(next, place)
    <2>1. CASE IsAhead(below, place)
      <3>1. PICK i \in DOMAIN below : IsPrefix(below[i].path, place.path)
        BY <2>1 DEF IsAhead
      <3>2. i \in DOMAIN next /\ next[i] = below[i]
        BY <1>11
      <3> QED  BY <3>1, <3>2 DEF IsAhead
    <2>2. CASE IsAhead(rest, place)
      <3>1. PICK i \in DOMAIN rest : IsPrefix(rest[i].path, place.path)
        BY <2>2 DEF IsAhead
      <3> DEFINE k == Len(below) + i
      <3>2. k \in DOMAIN next /\ next[k] = rest[i]
        BY <1>11
      <3> HIDE DEF k
      <3> QED  BY <3>1, <3>2 DEF IsAhead
    <2> QED  BY <1>14, <2>1, <2>2
  <1>15. Remains(rest, root, base, more)
         /\ (item.depth < Deepest => Remains(next, root, base, more))
    BY <1>6, <1>7, <1>9, <1>13 DEF Remains, all
  <1> QED  BY <1>2, <1>4, <1>5, <1>6, <1>10, <1>11, <1>14, <1>15, Zenon
           DEF item, rest, below, all, more, next

\* Of the tree at a place, all is below it but the place itself.
LEMMA AheadBelow ==
    ASSUME NEW root \in Nodes, NEW base \in Pointers,
           NEW item \in ToVisits, Known(item, root, base),
           NEW place \in PlacesOf(root, base), IsPrefix(item.path, place.path)
    PROVE  place = Spot(item) \/ (IsAhead(VisitedBelow(item), place) /\ Children(item.node) # <<>>)
  <1> DEFINE kids == Children(item.node)
             below == VisitedBelow(item)
  <1>1. /\ item.depth \in Nat
        /\ Spot(item).path = item.path /\ Spot(item).node = item.node
        /\ Spot(item) \in Level(root, base, item.depth)
        /\ item.path \in Pointers /\ item.node \in Nodes
    BY KnownTyped
  <1>2. place = Spot(item) \/ Passes(Spot(item), place.path)
    <2> DEFINE d == Len(place.path) - Len(base)
    <2>1. d \in Nat /\ place \in Level(root, base, d)
      BY PlaceTyped
    <2> HIDE DEF d
    <2> QED  BY <1>1, <2>1, BelowPlace
  <1>3. ASSUME Passes(Spot(item), place.path)
        PROVE  IsAhead(below, place) /\ kids # <<>>
    <2>1. PICK i \in DOMAIN kids : IsPrefix(Append(item.path, kids[i][1]), place.path)
      BY <1>1, <1>3 DEF Passes
    <2>2. /\ below \in Seq(ToVisits) /\ Len(below) = Len(kids)
          /\ \A j \in 1 .. Len(kids) : below[j].path = Append(item.path, kids[j][1])
      BY VisitedBelowTyped
    <2>3. DOMAIN below = 1 .. Len(kids) /\ DOMAIN kids = 1 .. Len(kids)
      BY <1>1, <2>2, LenProperties, ChildrenTyped
    <2> HIDE DEF below, kids
    <2>4. i \in DOMAIN below /\ below[i].path = Append(item.path, kids[i][1])
      BY <2>2, <2>3
    <2>5. kids # <<>>
      BY <2>1, <2>3, EmptySeq
    <2> QED  BY <2>1, <2>4, <2>5 DEF IsAhead
  <1> QED  BY <1>2, <1>3

\* All is ahead of the first, ...
LEMMA FirstLeft ==
    ASSUME NEW root \in Nodes, NEW base \in Pointers,
           NEW left, left = <<ToVisit(root, base, 0, root, 0)>>
    PROVE  /\ left \in Seq(ToVisits) /\ Remains(left, root, base, {})
           /\ \A place \in PlacesOf(root, base) : IsAhead(left, place)
  <1> DEFINE item == ToVisit(root, base, 0, root, 0)
             all == PlacesOf(root, base)
  <1>1. /\ item.path = base /\ item.depth = 0 /\ item.i = 0 /\ Spot(item) = Place(root, base)
        /\ item \in ToVisits
    BY DEF ToVisit, ToVisits, Spot
  <1>2. Spot(item) \in all
    <2>1. Spot(item) \in Level(root, base, 0)
      BY <1>1, LevelUnfolds
    <2> QED  BY <2>1, PathsAssumption DEF PlacesOf
  <1>3. Len(base) \in Nat
    BY LenProperties DEF Pointers
  <1> HIDE DEF item
  <1>4. Known(item, root, base)
    BY <1>1, <1>2, <1>3 DEF Known, all
  <1>5. DOMAIN left = {1} /\ left[1] = item /\ left \in Seq(ToVisits)
    BY <1>1 DEF item
  <1>6. AllKnown(left, root, base) /\ AllApart(left) /\ Untaken(left, {})
    BY <1>4, <1>5 DEF AllKnown, AllApart, Untaken
  <1>7. ASSUME NEW place \in all PROVE IsAhead(left, place)
    <2>1. PICK d \in 0 .. Deepest : place \in Level(root, base, d)
      BY DEF PlacesOf
    <2>2. d \in Nat
      BY PathsAssumption
    <2> DEFINE top == Place(root, base)
    <2>3. /\ top \in Places /\ place \in LevelOf(top, d) /\ top.path = base
      BY <2>1 DEF Place, Places, LevelOf
    <2> HIDE DEF top
    <2>4. IsPrefix(base, place.path)
      BY <2>2, <2>3, LevelIsBelow
    <2> QED  BY <1>1, <1>5, <2>4 DEF IsAhead
  <1> QED  BY <1>5, <1>6, <1>7 DEF Remains, all

\* ... and nothing is left when all was taken.
LEMMA NothingLeft ==
    ASSUME NEW root \in Nodes, NEW base \in Pointers, NEW left \in Seq(ToVisits),
           NEW taken, Remains(left, root, base, taken),
           left = <<>> \/ Cardinality(taken) = Cardinality(PlacesOf(root, base))
    PROVE  left = <<>>
  <1> DEFINE all == PlacesOf(root, base)
  <1>1. SUFFICES ASSUME left # <<>> PROVE FALSE
    OBVIOUS
  <1>2. IsFiniteSet(all) /\ taken \in SUBSET all
    BY PlacesFinite DEF Remains
  <1>3. Spot(Head(left)) \in all /\ Spot(Head(left)) \notin taken
    BY <1>1, TakeFirst, Zenon
  <1> HIDE DEF all
  <1>4. taken = all
    BY <1>1, <1>2, FS_Subset DEF all
  <1> QED  BY <1>3, <1>4

-----------------------------------------------------------------------------
(* The derivation from a tree that is a payload within the bounds, or in one. *)

IsWhole(payload) == SizeOf(payload) <= MaxNodes /\ ~IsDeeper(payload, MaxDepth)
IsPart(root, base, payload) ==
    /\ root \in Nodes /\ base \in Pointers /\ payload \in Nodes /\ IsWhole(payload)
    /\ PlacesOf(root, base) \subseteq PlacesOf(payload, <<>>)

PartsOf(place) ==
    IF IsText(place) THEN ToSet(place.node.lines) ELSE {Markers(place.node)}
IsReported(place, found) ==
    place.node.type = "string" /\ ~IsArgv(place.path) =>
        \A part \in PartsOf(place) : \A kind \in StringSignal(part) :
            \E finding \in found : finding.path = place.path /\ finding.kind = kind

\* Every place is reported, a copy, or in what is left.
Settled(walk, root, base) ==
    \A place \in PlacesOf(root, base) :
        \/ IsReported(place, walk.found) \/ InCopy(place, PlacesOf(root, base))
        \/ IsAhead(walk.left, place)

Sized(payload) == [place \in PlacesOf(payload, <<>>) |-> LinesOf(place)]

WalkInv(walk, root, base, payload, taken) ==
    /\ Remains(walk.left, root, base, taken) /\ Settled(walk, root, base)
    /\ walk.visited <= SumOver(Sized(payload), taken)

LEMMA Rooted == <<>> \in Pointers /\ Len(<<>>) = 0
  BY EmptySeq DEF Pointers

LEMMA SizedTyped ==
    ASSUME NEW root \in Nodes
    PROVE  /\ Sized(root) \in [PlacesOf(root, <<>>) -> Nat]
           /\ SizeOf(root) = SumOver(Sized(root), PlacesOf(root, <<>>))
  <1>1. \A place \in PlacesOf(root, <<>>) : LinesOf(place) \in Nat
    BY Rooted, PlaceTyped, LinesOfTyped
  <1>2. Sized(root) \in [PlacesOf(root, <<>>) -> Nat]
    BY <1>1 DEF Sized
  <1>3. SizeOf(root) = SumFunctionOnSet(Sized(root), PlacesOf(root, <<>>))
    BY DEF SizeOf, Sized
  <1> QED  BY <1>2, <1>3, SumOfFunction

\* There is room for the visit of what was not taken.
LEMMA RoomIsLeft ==
    ASSUME NEW root \in Nodes, IsWhole(root), NEW taken \in SUBSET PlacesOf(root, <<>>),
           NEW place \in PlacesOf(root, <<>>), place \notin taken,
           NEW visited \in Nat, visited <= SumOver(Sized(root), taken)
    PROVE  /\ visited + LinesOf(place) <= MaxNodes /\ visited < MaxNodes
           /\ visited + LinesOf(place) <= SumOver(Sized(root), taken \union {place})
           /\ visited <= SumOver(Sized(root), taken \union {place})
  <1> DEFINE all == PlacesOf(root, <<>>)
             sized == Sized(root)
             more == taken \union {place}
  <1>1. /\ sized \in [all -> Nat] /\ SizeOf(root) = SumOver(sized, all)
        /\ IsFiniteSet(all) /\ sized[place] = LinesOf(place)
        /\ LinesOf(place) \in Nat /\ 1 <= LinesOf(place)
    BY SizedTyped, Rooted, PlacesFinite, PlaceTyped, LinesOfTyped DEF Sized
  <1>2. SumOver(sized, all) <= MaxNodes
    BY <1>1 DEF IsWhole
  <1> HIDE DEF all, sized
  <1>3. taken \in SUBSET all /\ place \in all
    BY DEF all
  <1>4. more \in SUBSET all /\ place \in more /\ more \ {place} = taken
    BY <1>3
  <1> HIDE DEF more
  <1>5. IsFiniteSet(more) /\ IsFiniteSet(taken)
    BY <1>1, <1>3, <1>4, FS_Subset
  <1>6. SumOver(sized, more) = sized[place] + SumOver(sized, taken)
    BY <1>1, <1>4, <1>5, SumSplits
  <1>7. SumOver(sized, more) <= SumOver(sized, all)
    BY <1>1, <1>4, SumMonotone
  <1>8. SumOver(sized, more) \in Nat /\ SumOver(sized, taken) \in Nat /\ SumOver(sized, all) \in Nat
    BY <1>1, <1>3, <1>4, <1>5, SumType
  <1>9. visited <= SumOver(sized, taken) /\ MaxNodes \in Nat
    BY FindingsAssumption DEF sized
  <1> QED  BY <1>1, <1>2, <1>6, <1>7, <1>8, <1>9 DEF sized, more

LEMMA NotTooDeep ==
    ASSUME NEW root, NEW base, NEW payload, IsPart(root, base, payload),
           NEW item \in ToVisits, Known(item, root, base)
    PROVE  item.depth <= MaxDepth /\ item.depth < Deepest
  <1>1. /\ root \in Nodes /\ base \in Pointers /\ payload \in Nodes /\ IsWhole(payload)
        /\ PlacesOf(root, base) \subseteq PlacesOf(payload, <<>>)
    BY DEF IsPart
  <1>2. /\ item.depth \in Nat /\ Spot(item) \in PlacesOf(root, base)
        /\ Spot(item).path = item.path
    BY <1>1, KnownTyped
  <1>3. Len(item.path) = Len(base) + item.depth /\ Len(base) \in Nat
    BY <1>1, LenProperties DEF Known, Pointers
  <1>4. ~(Len(item.path) > MaxDepth)
    BY <1>1, <1>2 DEF IsWhole, IsDeeper
  <1> QED  BY <1>2, <1>3, <1>4, FindingsAssumption, PathsAssumption

\* A visit within the bounds reports all that a string shows.
LEMMA VisitReports ==
    ASSUME NEW item \in ToVisits, NEW visited \in Nat,
           visited + LinesOf(Spot(item)) <= MaxNodes
    PROVE  IsReported(Spot(item), SignalsAt(item, visited + 1))
  <1> DEFINE node == item.node
             found == SignalsAt(item, visited + 1)
  <1>1. /\ node \in Nodes /\ Spot(item).node = node /\ Spot(item).path = item.path
        /\ Spot(item) \in Places /\ MaxNodes \in Nat
    BY FindingsAssumption DEF Spot, Place, Places, ToVisits
  <1>2. IsText(item) <=> IsText(Spot(item))
    BY <1>1 DEF IsText
  <1>3. SUFFICES ASSUME node.type = "string", ~IsArgv(item.path),
                        NEW part \in PartsOf(Spot(item)), NEW kind \in StringSignal(part)
                 PROVE  \E finding \in found : finding.path = item.path /\ finding.kind = kind
    BY <1>1 DEF IsReported
  <1>4. CASE IsText(item)
    <2> DEFINE lines == node.lines
               seen == LinesSeen(lines, visited + 1)
               shown == UNION {Candidates(item.path, StringSignal(lines[i]), lines[i]) : i \in seen}
    <2>1. lines \in Seq(Texts) /\ Len(lines) \in Nat /\ DOMAIN lines = 1 .. Len(lines)
      BY <1>1, <1>3, LinesTyped
    <2>2. LinesOf(Spot(item)) = Max({1, Len(lines)})
      BY <1>1, <1>2, <1>4, LinesOfTyped
    <2> HIDE DEF lines
    <2>3. visited + Len(lines) <= MaxNodes
      <3>1. Max({1, Len(lines)}) \in Nat /\ Len(lines) <= Max({1, Len(lines)})
        BY <2>1, GreaterOfTwo
      <3> QED  BY <1>1, <2>1, <2>2, <3>1
    <2>4. \A i \in DOMAIN lines : i \in seen
      BY <1>1, <2>1, <2>3 DEF LinesSeen
    <2>5. PICK i \in DOMAIN lines : part = lines[i]
      BY <1>1, <1>2, <1>3, <1>4 DEF PartsOf, ToSet, lines
    <2>6. [path |-> item.path, kind |-> kind, message |-> lines[i]] \in shown
      BY <1>3, <2>4, <2>5 DEF Candidates
    <2>7. found = shown
      <3>1. shown # {}
        BY <2>6
      <3>2. found = TextSignals(item, visited + 1)
        BY <1>3, <1>4 DEF SignalsAt
      <3> HIDE DEF shown
      <3> QED  BY <3>1, <3>2 DEF TextSignals, shown, lines
    <2> HIDE DEF found, shown
    <2> QED  BY <2>6, <2>7
  <1>5. CASE ~IsText(item)
    <2>1. part = Markers(node)
      BY <1>1, <1>2, <1>3, <1>5 DEF PartsOf
    <2>2. found = Candidates(item.path, StringSignal(Markers(node)), Markers(node))
      BY <1>3, <1>5 DEF SignalsAt
    <2>3. [path |-> item.path, kind |-> kind, message |-> Markers(node)] \in found
      <3> HIDE DEF found
      <3> QED  BY <1>3, <2>1, <2>2 DEF Candidates
    <2> HIDE DEF found
    <2> QED  BY <2>3
  <1> QED  BY <1>4, <1>5

\* What is not descended to is said by the name of its field.
LEMMA ClassifiedReports ==
    ASSUME NEW item \in ToVisits, Classified(item), NEW visited, Met(item, visited)
    PROVE  IsReported(Spot(item), Named(item, visited)) /\ Children(item.node) = <<>>
  <1> DEFINE node == item.node
             kinds == NamedKinds(item)
  <1>1. /\ node.type = "string" /\ kinds # {} /\ kinds = StringSignal(Markers(node))
        /\ Spot(item).node = node /\ Spot(item).path = item.path
    BY DEF Classified, Spot, Place
  <1>2. Last(item.path) # "text"
    <2>1. IsField(item) /\ kinds = KeySignal(Last(item.path), node)
      BY <1>1 DEF NamedKinds
    <2>2. KeySignal("text", node) = {}
      BY DEF KeySignal
    <2> QED  BY <1>1, <2>1, <2>2
  <1>3. PartsOf(Spot(item)) = {Markers(node)}
    BY <1>1, <1>2 DEF PartsOf, IsText
  <1>4. Named(item, visited) = Candidates(item.path, kinds, {})
    BY DEF Named
  <1>5. Children(node) = <<>>
    BY <1>1 DEF Children
  <1> HIDE DEF kinds
  <1>6. ASSUME NEW part \in PartsOf(Spot(item)), NEW kind \in StringSignal(part)
        PROVE  \E finding \in Named(item, visited) :
                  finding.path = item.path /\ finding.kind = kind
    <2>1. part = Markers(node)
      BY <1>3, <1>6
    <2>2. kind \in kinds
      BY <1>1, <1>6, <2>1
    <2>3. [path |-> item.path, kind |-> kind, message |-> {}] \in Named(item, visited)
      BY <1>4, <2>2 DEF Candidates
    <2> QED  BY <2>3
  <1> QED  BY <1>1, <1>5, <1>6 DEF IsReported

\* What is not descended to, as the copy of a text or of a run's streams, is one.
LEMMA CopiedIsCopy ==
    ASSUME NEW root, NEW base, NEW item \in ToVisits, Known(item, root, base), IsCopied(item),
           NEW place \in PlacesOf(root, base), IsPrefix(item.path, place.path)
    PROVE  InCopy(place, PlacesOf(root, base))
  <1> DEFINE key == Last(item.path)
  <1>1. item.i # 0 /\ item.above.type = "object" /\ IsCopy(item.above, key)
    BY DEF IsCopied, IsField
  <1>2. PICK up \in PlacesOf(root, base) : up.node = item.above /\ item.path = Append(up.path, key)
    BY <1>1 DEF Known
  <1>3. key \in CopyKeys
    BY <1>1 DEF IsCopy, CopyKeys
  <1> HIDE DEF key
  <1>4. IsWithin(Append(up.path, key), place.path)
    BY <1>2 DEF IsWithin
  <1> QED  BY <1>1, <1>2, <1>3, <1>4 DEF InCopy

LEMMA ReportsGrow ==
    ASSUME NEW place, NEW found, NEW more, found \subseteq more, IsReported(place, found)
    PROVE  IsReported(place, more)
  BY DEF IsReported

\* Of the tree at what is visited next, every place is settled.
LEMMA VisitSettles ==
    ASSUME NEW root, NEW base, NEW payload, IsPart(root, base, payload),
           NEW item \in ToVisits, Known(item, root, base),
           NEW visited \in Nat, visited + LinesOf(Spot(item)) <= MaxNodes, visited < MaxNodes,
           NEW place \in PlacesOf(root, base), IsPrefix(item.path, place.path)
    PROVE  /\ IsVisited(item, visited) =>
                 \/ IsReported(place, SignalsAt(item, visited + 1))
                 \/ IsAhead(VisitedBelow(item), place)
           /\ ~IsVisited(item, visited) =>
                 \/ IsReported(place, Named(item, visited))
                 \/ InCopy(place, PlacesOf(root, base))
  <1> DEFINE kids == Children(item.node)
             below == VisitedBelow(item)
  <1>1. root \in Nodes /\ base \in Pointers
    BY DEF IsPart
  <1>2. item.depth <= MaxDepth
    BY NotTooDeep, Zenon
  <1>3. place = Spot(item) \/ (IsAhead(below, place) /\ kids # <<>>)
    BY <1>1, AheadBelow, Zenon
  <1>4. ASSUME IsVisited(item, visited)
        PROVE  \/ IsReported(place, SignalsAt(item, visited + 1))
               \/ IsAhead(below, place)
    BY <1>3, <1>4, VisitReports
  <1>5. ASSUME ~IsVisited(item, visited)
        PROVE  \/ IsReported(place, Named(item, visited))
               \/ InCopy(place, PlacesOf(root, base))
    <2>1. CASE IsCopied(item)
      BY <2>1, CopiedIsCopy
    <2>2. CASE ~IsCopied(item)
      <3>1. Met(item, visited)
        BY <2>2 DEF Met, IsReached
      <3>2. Classified(item)
        BY <1>2, <1>5, <3>1 DEF IsVisited
      <3>3. IsReported(Spot(item), Named(item, visited)) /\ kids = <<>>
        BY <3>1, <3>2, ClassifiedReports
      <3> QED  BY <1>3, <3>3
    <2> QED  BY <2>1, <2>2
  <1> QED  BY <1>4, <1>5

\* A turn keeps the invariant, and takes a place.
LEMMA TurnSettles ==
    ASSUME NEW root, NEW base, NEW payload, IsPart(root, base, payload),
           NEW walk \in Walks, walk.left # <<>>,
           NEW taken, WalkInv(walk, root, base, payload, taken)
    PROVE  /\ WalkInv(VisitFirst(walk), root, base, payload,
                      taken \union {Spot(Head(walk.left))})
           /\ Spot(Head(walk.left)) \notin taken
  <1> DEFINE item == Head(walk.left)
             rest == Tail(walk.left)
             below == VisitedBelow(item)
             all == PlacesOf(root, base)
             more == taken \union {Spot(item)}
             next == VisitFirst(walk)
             visits == VisitsAt(item, walk.visited + 1)
             signals == SignalsAt(item, walk.visited + 1)
             named == Named(item, walk.visited)
  <1>0. root \in Nodes /\ base \in Pointers
    BY DEF IsPart
  <1>1. /\ walk.visited \in Nat /\ walk.left \in Seq(ToVisits)
        /\ Remains(walk.left, root, base, taken)
    BY DEF Walks, WalkInv
  <1>2. /\ item \in ToVisits /\ Known(item, root, base)
        /\ Spot(item) \in all /\ Spot(item) \notin taken
        /\ Remains(rest, root, base, more)
        /\ item.depth < Deepest => Remains(below \o rest, root, base, more)
        /\ \A place : IsAhead(walk.left, place) =>
              IsPrefix(item.path, place.path) \/ IsAhead(rest, place)
        /\ \A place : IsAhead(below, place) \/ IsAhead(rest, place) =>
              IsAhead(below \o rest, place)
    BY <1>0, <1>1, TakeFirst, Zenon
  <1>3. item.depth < Deepest
    BY <1>2, NotTooDeep, Zenon
  <1>4. taken \in SUBSET PlacesOf(payload, <<>>) /\ Spot(item) \in PlacesOf(payload, <<>>)
        /\ payload \in Nodes /\ IsWhole(payload)
    BY <1>1, <1>2 DEF Remains, IsPart
  <1>5. /\ walk.visited + LinesOf(Spot(item)) <= MaxNodes /\ walk.visited < MaxNodes
        /\ walk.visited + LinesOf(Spot(item)) <= SumOver(Sized(payload), more)
        /\ walk.visited <= SumOver(Sized(payload), more)
    <2>1. walk.visited <= SumOver(Sized(payload), taken)
      BY DEF WalkInv
    <2> QED  BY <1>1, <1>2, <1>4, <2>1, RoomIsLeft, Zenon
  <1>6. /\ IsVisited(item, walk.visited) =>
                next = [visited |-> walk.visited + visits,
                        found |-> walk.found \union named \union signals, left |-> below \o rest]
        /\ ~IsVisited(item, walk.visited) =>
                next = [visited |-> walk.visited, found |-> walk.found \union named, left |-> rest]
    BY VisitFirstParts, Zenon
  <1>7. ASSUME NEW place \in all
        PROVE  \/ IsReported(place, walk.found) \/ InCopy(place, all)
               \/ IsPrefix(item.path, place.path) \/ IsAhead(rest, place)
    <2>1. IsReported(place, walk.found) \/ InCopy(place, all) \/ IsAhead(walk.left, place)
      BY <1>7 DEF WalkInv, Settled
    <2> QED  BY <1>2, <2>1, Zenon
  <1>8. ASSUME NEW place \in all, IsPrefix(item.path, place.path)
        PROVE  /\ IsVisited(item, walk.visited) =>
                      IsReported(place, signals) \/ IsAhead(below, place)
               /\ ~IsVisited(item, walk.visited) =>
                      IsReported(place, named) \/ InCopy(place, all)
    BY <1>1, <1>2, <1>5, <1>8, VisitSettles, Zenon
  <1>9. visits \in Nat /\ visits <= LinesOf(Spot(item)) /\ LinesOf(Spot(item)) \in Nat
    <2>1. walk.visited + 1 \in Nat
      BY <1>1
    <2> QED  BY <1>2, <2>1, VisitsAtTyped, LinesOfTyped
  <1>10. SumOver(Sized(payload), more) \in Nat
    <2> DEFINE whole == PlacesOf(payload, <<>>)
    <2>1. more \in SUBSET whole /\ Sized(payload) \in [whole -> Nat]
      BY <1>4, SizedTyped
    <2>2. IsFiniteSet(whole)
      BY <1>4, Rooted, PlacesFinite
    <2> HIDE DEF whole, more
    <2>3. IsFiniteSet(more)
      BY <2>1, <2>2, FS_Subset
    <2> QED  BY <2>1, <2>3, SumType
  <1> HIDE DEF item, rest, below, all, more, next, visits, signals, named
  <1>11. CASE IsVisited(item, walk.visited)
    <2> DEFINE left == below \o rest
    <2>1. /\ next.visited = walk.visited + visits /\ next.left = left
          /\ next.found = walk.found \union named \union signals
      BY <1>6, <1>11
    <2>2. Remains(left, root, base, more)
          /\ \A place : IsAhead(below, place) \/ IsAhead(rest, place) => IsAhead(left, place)
      BY <1>2, <1>3
    <2> HIDE DEF left
    <2>3. Settled(next, root, base)
      <3>1. ASSUME NEW place \in all
            PROVE  \/ IsReported(place, next.found) \/ InCopy(place, all)
                   \/ IsAhead(next.left, place)
        <4>1. walk.found \subseteq next.found /\ signals \subseteq next.found
          BY <2>1
        <4> QED  BY <1>7, <1>8, <1>11, <2>1, <2>2, <4>1, ReportsGrow
      <3> QED  BY <3>1 DEF Settled, all
    <2>4. next.visited <= SumOver(Sized(payload), more)
      BY <1>1, <1>5, <1>9, <1>10, <2>1
    <2>5. WalkInv(next, root, base, payload, more)
      BY <2>1, <2>2, <2>3, <2>4 DEF WalkInv
    <2> QED  BY <1>2, <2>5 DEF next, more, item
  <1>12. CASE ~IsVisited(item, walk.visited)
    <2>1. /\ next.visited = walk.visited /\ next.left = rest
          /\ next.found = walk.found \union named
      BY <1>6, <1>12
    <2>2. Settled(next, root, base)
      <3>1. ASSUME NEW place \in all
            PROVE  \/ IsReported(place, next.found) \/ InCopy(place, all)
                   \/ IsAhead(next.left, place)
        <4>1. walk.found \subseteq next.found /\ named \subseteq next.found
          BY <2>1
        <4> QED  BY <1>7, <1>8, <1>12, <2>1, <4>1, ReportsGrow
      <3> QED  BY <3>1 DEF Settled, all
    <2>3. next.visited <= SumOver(Sized(payload), more)
      BY <1>5, <2>1
    <2>4. WalkInv(next, root, base, payload, more)
      BY <1>2, <2>1, <2>2, <2>3 DEF WalkInv
    <2> QED  BY <1>2, <2>4 DEF next, more, item
  <1> QED  BY <1>11, <1>12

\* After n turns n places were taken, or nothing is left.
LEMMA WalkSettles ==
    ASSUME NEW root, NEW base, NEW payload, IsPart(root, base, payload), NEW n \in Nat
    PROVE  \E taken : /\ WalkInv(Walk(root, base, n), root, base, payload, taken)
                      /\ \/ Walk(root, base, n).left = <<>> \/ Cardinality(taken) = n
  <1> DEFINE all == PlacesOf(root, base)
             at(k) == Walk(root, base, k)
             Good(k) == \E taken : /\ WalkInv(at(k), root, base, payload, taken)
                                   /\ at(k).left = <<>> \/ Cardinality(taken) = k
             S == {k \in Nat : Good(k)}
  <1>0. root \in Nodes /\ base \in Pointers /\ payload \in Nodes
    BY DEF IsPart
  <1>1. /\ at(0) = First(root, base)
        /\ \A k \in Nat : at(k) \in Walks /\ at(k + 1) = VisitFirst(at(k))
    BY <1>0, WalkUnfolds
  <1>2. IsFiniteSet(all)
    BY <1>0, PlacesFinite
  <1>3. 0 \in S
    <2> DEFINE left == <<ToVisit(root, base, 0, root, 0)>>
    <2>1. at(0).visited = 0 /\ at(0).found = {} /\ at(0).left = left
      BY <1>1 DEF First
    <2>2. Remains(left, root, base, {}) /\ \A place \in all : IsAhead(left, place)
      BY <1>0, FirstLeft, Zenon
    <2> HIDE DEF left
    <2>3. SumOver(Sized(payload), {}) = 0
      BY <1>0, SizedTyped, EmptySum
    <2>4. WalkInv(at(0), root, base, payload, {})
      BY <2>1, <2>2, <2>3 DEF WalkInv, Settled, all
    <2>5. Cardinality({}) = 0
      BY FS_EmptySet
    <2> HIDE DEF at
    <2> QED  BY <2>4, <2>5
  <1>4. ASSUME NEW k \in Nat, k \in S PROVE k + 1 \in S
    <2>1. PICK taken : /\ WalkInv(at(k), root, base, payload, taken)
                       /\ at(k).left = <<>> \/ Cardinality(taken) = k
      BY <1>4
    <2>2. at(k) \in Walks /\ at(k + 1) = VisitFirst(at(k))
      BY <1>1
    <2> HIDE DEF at
    <2>3. CASE at(k).left = <<>>
      <3>1. at(k + 1) = at(k)
        BY <2>2, <2>3 DEF VisitFirst
      <3> QED  BY <2>1, <2>3, <3>1
    <2>4. CASE at(k).left # <<>>
      <3> DEFINE spot == Spot(Head(at(k).left))
      <3>1. WalkInv(VisitFirst(at(k)), root, base, payload, taken \union {spot})
            /\ spot \notin taken
        BY <2>1, <2>2, <2>4, TurnSettles, Zenon
      <3> HIDE DEF spot
      <3>2. IsFiniteSet(taken)
        BY <1>2, <2>1, FS_Subset DEF WalkInv, Remains
      <3>3. Cardinality(taken \union {spot}) = k + 1
        BY <2>1, <2>4, <3>1, <3>2, FS_AddElement
      <3> QED  BY <2>2, <3>1, <3>3
    <2> QED  BY <2>3, <2>4
  <1> HIDE DEF S
  <1>5. n \in S
    BY <1>3, <1>4, EveryNumber
  <1> QED  BY <1>5 DEF S

\* So everything in a payload within the bounds is reported, but for the copies.
LEMMA CollectReports ==
    ASSUME NEW root, NEW base, NEW payload, IsPart(root, base, payload),
           NEW place \in PlacesOf(root, base)
    PROVE  IsReported(place, Collect(root, base)) \/ InCopy(place, PlacesOf(root, base))
  <1> DEFINE all == PlacesOf(root, base)
             n == Cardinality(all)
             walk == Walk(root, base, n)
  <1>0. root \in Nodes /\ base \in Pointers
    BY DEF IsPart
  <1>1. IsFiniteSet(all) /\ n \in Nat
    BY <1>0, PlacesFinite, FS_CardinalityType
  <1>2. PICK taken : /\ WalkInv(walk, root, base, payload, taken)
                     /\ walk.left = <<>> \/ Cardinality(taken) = n
    <2> HIDE DEF n
    <2> QED  BY <1>1, WalkSettles
  <1>3. Collect(root, base) = walk.found
    BY DEF Collect
  <1>4. walk \in Walks
    <2> HIDE DEF n
    <2> QED  BY <1>0, <1>1, WalkUnfolds
  <1> HIDE DEF walk
  <1>5. walk.left = <<>>
    <2>1. walk.left \in Seq(ToVisits) /\ Remains(walk.left, root, base, taken)
      BY <1>2, <1>4 DEF Walks, WalkInv
    <2> QED  BY <1>0, <1>2, <2>1, NothingLeft
  <1>6. ~IsAhead(walk.left, place)
    BY <1>5 DEF IsAhead
  <1> QED  BY <1>2, <1>3, <1>6 DEF WalkInv, Settled

-----------------------------------------------------------------------------
\* What a derivation that is said to be complete found.
DerivedInv ==
    /\ stored \in Trees
    /\ \A d \in derived : /\ d.complete = DerivationIsComplete(stored)
                         /\ Collect(stored, <<>>) \subseteq d.findings

LEMMA ReportsMissNothing ==
    ASSUME DerivedInv PROVE CompleteMissesNothing
  <1> DEFINE all == PlacesOf(stored, <<>>)
  <1>1. SUFFICES ASSUME NEW d \in derived, d.complete,
                        NEW shown \in Strings(stored, <<>>), ~IsArgv(shown.path),
                        NEW part \in shown.parts, NEW kind \in StringSignal(part)
                 PROVE  \E finding \in d.findings :
                           finding.path = shown.path /\ finding.kind = kind
    BY DEF CompleteMissesNothing
  <1>2. stored \in Nodes
    BY FindingsAssumption DEF DerivedInv
  <1>3. IsWhole(stored)
    BY <1>1 DEF DerivedInv, DerivationIsComplete, IsWhole
  <1>4. PICK place \in all : /\ place.node.type = "string" /\ ~InCopy(place, all)
                             /\ shown = Shows(place.path, PartsOf(place))
    BY <1>1 DEF Strings, PartsOf
  <1>5. IsReported(place, Collect(stored, <<>>))
    <2>1. IsPart(stored, <<>>, stored)
      BY <1>2, <1>3, Rooted DEF IsPart
    <2> QED  BY <1>4, <2>1, CollectReports
  <1>6. shown.path = place.path /\ shown.parts = PartsOf(place)
    BY <1>4 DEF Shows
  <1>7. PICK finding \in Collect(stored, <<>>) :
            finding.path = place.path /\ finding.kind = kind
    BY <1>1, <1>4, <1>5, <1>6 DEF IsReported
  <1> QED  BY <1>1, <1>6, <1>7 DEF DerivedInv

\* If the capture of a payload says that its derivation is complete, no string
\* in it that shows a failure is without a finding of that kind where it is,
\* whatever the payload and the bounds (findings.rs, collect_generic_signals and
\* finding_derivation_is_complete).
THEOREM CompleteDerivations == FindingsSpec => []CompleteMissesNothing
  <1>1. FindingsInit => DerivedInv
    BY DEF FindingsInit, DerivedInv
  <1>2. DerivedInv /\ [FindingsNext]_findingVars => DerivedInv'
    <2> SUFFICES ASSUME DerivedInv, [FindingsNext]_findingVars PROVE DerivedInv'
      OBVIOUS
    <2>1. CASE Derive
      <3>1. stored' = stored /\ derived' = {[complete |-> DerivationIsComplete(stored),
                                            findings |-> RankedFindings(stored, <<>>)]}
        BY <2>1 DEF Derive
      <3>2. Collect(stored, <<>>) \subseteq RankedFindings(stored, <<>>)
        BY DEF RankedFindings
      <3> QED  BY <3>1, <3>2 DEF DerivedInv
    <2>2. CASE UNCHANGED findingVars
      BY <2>2 DEF DerivedInv, findingVars
    <2> QED  BY <2>1, <2>2 DEF FindingsNext
  <1>3. DerivedInv => CompleteMissesNothing
    BY ReportsMissNothing
  <1> QED  BY <1>1, <1>2, <1>3, PTL DEF FindingsSpec

-----------------------------------------------------------------------------
(* What a walk that gives up nothing, or says so, comes to: of every place   *)
(* of the tree, it is done with it or it is ahead.                           *)

\* A node is done with when it was visited and what is below it is left, or, if
\* that is not, when all of it is done with.
Goes(left, next, done, more, root, base) ==
    IF left = <<>> THEN next = <<>> /\ done \subseteq more
    ELSE LET item == Head(left)
         IN  \/ /\ next = VisitedBelow(item) \o Tail(left) /\ item.depth < Deepest
                /\ done \union {Spot(item)} \subseteq more
             \/ /\ next = Tail(left)
                /\ done \union {place \in PlacesOf(root, base) :
                                    IsPrefix(item.path, place.path)} \subseteq more

Ahead(left, done, root, base) ==
    \A place \in PlacesOf(root, base) : place \in done \/ IsAhead(left, place)

LEMMA GoesOn ==
    ASSUME NEW root \in Nodes, NEW base \in Pointers, NEW left \in Seq(ToVisits), left # <<>>,
           NEW next, NEW done, NEW more, Goes(left, next, done, more, root, base),
           NEW taken, Remains(left, root, base, taken), Ahead(left, done, root, base)
    PROVE  /\ Remains(next, root, base, taken \union {Spot(Head(left))})
           /\ Ahead(next, more, root, base) /\ Spot(Head(left)) \notin taken
  <1> DEFINE item == Head(left)
             rest == Tail(left)
             below == VisitedBelow(item)
             all == PlacesOf(root, base)
             wide == taken \union {Spot(item)}
  <1>1. /\ item \in ToVisits /\ Known(item, root, base) /\ Spot(item) \notin taken
        /\ Remains(rest, root, base, wide)
        /\ item.depth < Deepest => Remains(below \o rest, root, base, wide)
        /\ \A place : IsAhead(left, place) =>
              IsPrefix(item.path, place.path) \/ IsAhead(rest, place)
        /\ \A place : IsAhead(below, place) \/ IsAhead(rest, place) =>
              IsAhead(below \o rest, place)
    BY TakeFirst, Zenon
  <1>2. \A place \in all : IsPrefix(item.path, place.path) =>
            place = Spot(item) \/ IsAhead(below, place)
    BY <1>1, AheadBelow
  <1>3. \/ /\ next = below \o rest /\ item.depth < Deepest
           /\ done \union {Spot(item)} \subseteq more
        \/ /\ next = rest
           /\ done \union {place \in all : IsPrefix(item.path, place.path)} \subseteq more
    BY DEF Goes
  <1>4. \A place \in all : place \in done \/ IsAhead(left, place)
    BY DEF Ahead
  <1> HIDE DEF item, rest, below, all, wide
  <1>5. CASE /\ next = below \o rest /\ item.depth < Deepest
             /\ done \union {Spot(item)} \subseteq more
    <2>1. \A place \in all : place \in more \/ IsAhead(next, place)
      BY <1>1, <1>2, <1>4, <1>5
    <2>2. Remains(next, root, base, wide)
      BY <1>1, <1>5
    <2> QED  BY <1>1, <2>1, <2>2 DEF Ahead, all, wide, item
  <1>6. CASE /\ next = rest
             /\ done \union {place \in all : IsPrefix(item.path, place.path)} \subseteq more
    <2>1. \A place \in all : place \in more \/ IsAhead(next, place)
      BY <1>1, <1>4, <1>6
    <2>2. Remains(next, root, base, wide)
      BY <1>1, <1>6
    <2> QED  BY <1>1, <2>1, <2>2 DEF Ahead, all, wide, item
  <1> QED  BY <1>3, <1>5, <1>6

LEMMA WalkEnds ==
    ASSUME NEW root \in Nodes, NEW base \in Pointers,
           NEW lefts, NEW dones, lefts[0] = <<ToVisit(root, base, 0, root, 0)>>,
           \A n \in Nat : /\ lefts[n] \in Seq(ToVisits)
                          /\ Goes(lefts[n], lefts[n + 1], dones[n], dones[n + 1], root, base)
    PROVE  /\ \A n \in Nat : lefts[n] # <<>> => Spot(Head(lefts[n])) \in PlacesOf(root, base)
           /\ PlacesOf(root, base) \subseteq dones[Cardinality(PlacesOf(root, base))]
  <1> DEFINE all == PlacesOf(root, base)
             Good(n) == \E taken : /\ Remains(lefts[n], root, base, taken)
                                   /\ Ahead(lefts[n], dones[n], root, base)
                                   /\ lefts[n] = <<>> \/ Cardinality(taken) = n
             S == {n \in Nat : Good(n)}
  <1>1. IsFiniteSet(all)
    BY PlacesFinite
  <1>2. 0 \in S
    <2>1. Remains(lefts[0], root, base, {}) /\ \A place \in all : IsAhead(lefts[0], place)
      BY FirstLeft, Zenon
    <2>2. Cardinality({}) = 0
      BY FS_EmptySet
    <2> QED  BY <2>1, <2>2 DEF Ahead
  <1>3. ASSUME NEW n \in Nat, n \in S PROVE n + 1 \in S
    <2>1. PICK taken : /\ Remains(lefts[n], root, base, taken)
                       /\ Ahead(lefts[n], dones[n], root, base)
                       /\ lefts[n] = <<>> \/ Cardinality(taken) = n
      BY <1>3
    <2>2. lefts[n] \in Seq(ToVisits)
          /\ Goes(lefts[n], lefts[n + 1], dones[n], dones[n + 1], root, base)
      OBVIOUS
    <2>3. CASE lefts[n] = <<>>
      <3>1. lefts[n + 1] = <<>> /\ dones[n] \subseteq dones[n + 1]
        BY <2>2, <2>3 DEF Goes
      <3>2. Ahead(lefts[n + 1], dones[n + 1], root, base)
        BY <2>1, <2>3, <3>1 DEF Ahead
      <3>3. Remains(lefts[n + 1], root, base, taken)
        BY <2>1, <2>3, <3>1
      <3> QED  BY <3>1, <3>2, <3>3
    <2>4. CASE lefts[n] # <<>>
      <3> DEFINE left == lefts[n]
                 next == lefts[n + 1]
                 done == dones[n]
                 more == dones[n + 1]
                 spot == Spot(Head(left))
      <3>1. /\ Remains(next, root, base, taken \union {spot})
            /\ Ahead(next, more, root, base) /\ spot \notin taken
        <4>1. /\ left \in Seq(ToVisits) /\ left # <<>> /\ Goes(left, next, done, more, root, base)
              /\ Remains(left, root, base, taken) /\ Ahead(left, done, root, base)
          BY <2>1, <2>2, <2>4
        <4> HIDE DEF left, next, done, more
        <4> QED  BY <4>1, GoesOn, Zenon
      <3> HIDE DEF spot
      <3>2. IsFiniteSet(taken)
        BY <1>1, <2>1, FS_Subset DEF Remains
      <3>3. Cardinality(taken \union {spot}) = n + 1
        BY <2>1, <2>4, <3>1, <3>2, FS_AddElement
      <3> QED  BY <3>1, <3>3
    <2> QED  BY <2>3, <2>4
  <1>4. \A n \in Nat : Good(n)
    <2> HIDE DEF Good
    <2>1. \A n \in Nat : n \in S => n + 1 \in S
      BY <1>3
    <2> HIDE DEF S
    <2>2. \A n \in Nat : n \in S
      BY <1>2, <2>1, EveryNumber
    <2> QED  BY <2>2 DEF S
  <1>5. ASSUME NEW n \in Nat, lefts[n] # <<>> PROVE Spot(Head(lefts[n])) \in all
    <2>1. PICK taken : Remains(lefts[n], root, base, taken)
      BY <1>4
    <2> QED  BY <1>5, <2>1, TakeFirst, Zenon
  <1>6. all \subseteq dones[Cardinality(all)]
    <2> DEFINE n == Cardinality(all)
    <2>1. n \in Nat
      BY <1>1, FS_CardinalityType
    <2>2. PICK taken : /\ Remains(lefts[n], root, base, taken)
                       /\ Ahead(lefts[n], dones[n], root, base)
                       /\ lefts[n] = <<>> \/ Cardinality(taken) = n
      BY <1>4, <2>1
    <2>3. lefts[n] = <<>>
      BY <2>1, <2>2, NothingLeft
    <2>4. \A place \in all : ~IsAhead(lefts[n], place)
      BY <2>3 DEF IsAhead
    <2> QED  BY <2>2, <2>4 DEF Ahead
  <1> QED  BY <1>5, <1>6

-----------------------------------------------------------------------------
(* Searches and listings. *)

Searches == [visited : Nat, truncated : BOOLEAN, found : SUBSET Pointers, left : Seq(ToVisits)]

\* What a search asks for of a place.
Hits(query, semantic, place) ==
    /\ KindMatches(query.kind, place.path, place.node, semantic)
    /\ Matches(query.query, place.path, place.node)

\* A turn of a search says that it stopped, or goes on below what it visited.
LEMMA SearchTurns ==
    ASSUME NEW walk \in Searches, walk.left # <<>>, NEW query, NEW semantic
    PROVE  LET item == Head(walk.left)
               rest == Tail(walk.left)
               next == SearchFirst(walk, query, semantic)
           IN  /\ next \in Searches /\ item \in ToVisits /\ rest \in Seq(ToVisits)
               /\ walk.found \subseteq next.found /\ (walk.truncated => next.truncated)
               /\ \/ next.truncated /\ next.left = rest
                  \/ /\ next.left = VisitedBelow(item) \o rest /\ item.depth < Deepest
                     /\ Hits(query, semantic, Spot(item)) => item.path \in next.found
  <1> DEFINE item == Head(walk.left)
             rest == Tail(walk.left)
             below == VisitedBelow(item)
             isHit == Hits(query, semantic, Spot(item))
             found == walk.found \union (IF isHit THEN {item.path} ELSE {})
             stops == walk.truncated \/ (item.depth # 0 /\ walk.visited + 1 >= SearchNodes)
             next == SearchFirst(walk, query, semantic)
  <1>1. /\ walk.visited \in Nat /\ walk.truncated \in BOOLEAN
        /\ walk.found \in SUBSET Pointers /\ walk.left \in Seq(ToVisits)
    BY DEF Searches
  <1>2. item \in ToVisits /\ rest \in Seq(ToVisits)
    BY <1>1, HeadTailProperties
  <1>3. below \in Seq(ToVisits)
    BY <1>2, VisitedBelowTyped
  <1>4. /\ item.path \in Pointers /\ item.depth \in Nat
        /\ Spot(item).node = item.node /\ Spot(item).path = item.path
    BY <1>2 DEF ToVisits, Spot, Place
  <1>5. isHit <=> /\ KindMatches(query.kind, item.path, item.node, semantic)
                  /\ Matches(query.query, item.path, item.node)
    BY <1>4 DEF Hits
  <1>6. next = IF walk.visited >= SearchNodes \/ item.depth > SearchDepth
               THEN [walk EXCEPT !.truncated = TRUE, !.left = rest]
               ELSE [visited |-> walk.visited + 1, truncated |-> stops, found |-> found,
                     left |-> below \o rest]
    <2> HIDE DEF isHit
    <2> QED  BY <1>5, Zenon DEF SearchFirst
  <1>7. /\ below \o rest \in Seq(ToVisits) /\ found \in SUBSET Pointers
        /\ isHit => item.path \in found
        /\ stops \in BOOLEAN /\ walk.visited + 1 \in Nat /\ walk.found \subseteq found
        /\ (walk.truncated => stops)
    <2> HIDE DEF isHit, below, item, rest
    <2> QED  BY <1>1, <1>2, <1>3, <1>4, ConcatProperties
  <1>8. SearchDepth \in Nat /\ SearchDepth < Deepest
    BY NavigationAssumption, PathsAssumption
  <1> HIDE DEF isHit, below, item, rest, stops, found, next
  <1>9. CASE walk.visited >= SearchNodes \/ item.depth > SearchDepth
    <2>1. next = [walk EXCEPT !.truncated = TRUE, !.left = rest]
      BY <1>6, <1>9
    <2>2. /\ next \in Searches /\ next.found = walk.found /\ next.truncated /\ next.left = rest
      BY <1>1, <1>2, <2>1 DEF Searches
    <2> QED  BY <1>2, <2>2 DEF next, item, rest
  <1>10. CASE ~(walk.visited >= SearchNodes \/ item.depth > SearchDepth)
    <2>1. next = [visited |-> walk.visited + 1, truncated |-> stops, found |-> found,
                  left |-> below \o rest]
      BY <1>6, <1>10
    <2>2. /\ next \in Searches /\ next.found = found /\ next.truncated = stops
          /\ next.left = below \o rest
      BY <1>7, <2>1 DEF Searches
    <2>3. item.depth < Deepest
      BY <1>4, <1>8, <1>10, PathsAssumption
    <2> QED  BY <1>2, <1>7, <2>2, <2>3 DEF next, item, rest, below, isHit
  <1> QED  BY <1>9, <1>10

LEMMA SearchUnfolds ==
    ASSUME NEW node \in Nodes, NEW query, query.scope \in Pointers, NEW semantic
    PROVE  /\ Search(node, query, semantic, 0) =
                 [visited |-> 0, truncated |-> FALSE, found |-> {},
                  left |-> <<ToVisit(node, query.scope, 0, node, 0)>>]
           /\ \A n \in Nat : /\ Search(node, query, semantic, n) \in Searches
                             /\ Search(node, query, semantic, n + 1) =
                                   SearchFirst(Search(node, query, semantic, n), query, semantic)
  <1> DEFINE first == [visited |-> 0, truncated |-> FALSE, found |-> {},
                       left |-> <<ToVisit(node, query.scope, 0, node, 0)>>]
             turn(walk) == SearchFirst(walk, query, semantic)
             step == [nx \in Nat \X Searches |-> turn(nx[2])]
             IsWalk(f) == f = [n \in Nat |-> IF n = 0 THEN first ELSE turn(f[n - 1])]
             walk == CHOOSE f : IsWalk(f)
  <1>1. first \in Searches
    <2>1. ToVisit(node, query.scope, 0, node, 0) \in ToVisits
      BY DEF ToVisit, ToVisits
    <2> DEFINE item == ToVisit(node, query.scope, 0, node, 0)
    <2> HIDE DEF item
    <2>2. <<item>> \in Seq(ToVisits)
      BY <2>1 DEF item
    <2> QED  BY <2>2 DEF Searches, item
  <1>2. ASSUME NEW w \in Searches PROVE turn(w) \in Searches
    <2>1. CASE w.left = <<>>
      BY <2>1 DEF SearchFirst
    <2>2. CASE w.left # <<>>
      BY <2>2, SearchTurns, Zenon
    <2> QED  BY <2>1, <2>2
  <1>3. \A n \in Nat : Search(node, query, semantic, n) = walk[n]
    BY DEF Search
  <1> HIDE DEF first, turn
  <1>4. step \in [Nat \X Searches -> Searches]
    BY <1>2
  <1> HIDE DEF step
  <1>5. PICK f : IsRecursion(f, Searches, first, step)
    BY <1>1, <1>4, Recursion, Zenon
  <1>6. IsWalk(f)
    <2>1. ASSUME NEW n \in Nat, n # 0 PROVE step[<<n, f[n - 1]>>] = turn(f[n - 1])
      <3>1. n - 1 \in Nat
        BY <2>1
      <3>2. f[n - 1] \in Searches
        BY <1>5, <3>1 DEF IsRecursion
      <3> QED  BY <3>2 DEF step
    <2> QED  BY <1>5, <2>1 DEF IsRecursion
  <1> HIDE DEF IsWalk
  <1>7. IsWalk(walk)
    BY <1>6, Zenon
  <1> USE DEF IsWalk
  <1> HIDE DEF walk
  <1>8. walk[0] = first /\ \A n \in Nat : walk[n + 1] = turn(walk[n])
    <2>1. \A n \in Nat : n + 1 \in Nat /\ n + 1 # 0 /\ n + 1 - 1 = n
      OBVIOUS
    <2> QED  BY <1>7, <2>1
  <1> DEFINE S == {n \in Nat : walk[n] \in Searches}
  <1>9. 0 \in S
    BY <1>1, <1>8
  <1>10. \A n \in Nat : n \in S => n + 1 \in S
    BY <1>2, <1>8
  <1> HIDE DEF S
  <1>11. \A n \in Nat : n \in S
    BY <1>9, <1>10, EveryNumber
  <1> QED  BY <1>3, <1>8, <1>11 DEF first, turn, S

\* A search that does not say that it stopped has found all that it asks for.
LEMMA SearchHits ==
    ASSUME NEW root \in Nodes, NEW query, query.scope \in Pointers, NEW semantic,
           NEW searched,
           searched = Search(root, query, semantic, Cardinality(PlacesOf(root, query.scope))),
           ~searched.truncated,
           NEW place \in PlacesOf(root, query.scope), Hits(query, semantic, place)
    PROVE  place.path \in searched.found
  <1> DEFINE base == query.scope
             all == PlacesOf(root, base)
             walk(n) == Search(root, query, semantic, n)
             done(w) == {p \in Places : w.truncated \/ (Hits(query, semantic, p) => p.path \in w.found)}
             lefts == [n \in Nat |-> walk(n).left]
             dones == [n \in Nat |-> done(walk(n))]
  <1>1. \A n \in Nat : walk(n) \in Searches /\ walk(n + 1) = SearchFirst(walk(n), query, semantic)
    BY SearchUnfolds
  <1>2. walk(0).left = <<ToVisit(root, base, 0, root, 0)>>
    BY SearchUnfolds
  <1>3. ASSUME NEW w \in Searches, NEW next, next = SearchFirst(w, query, semantic)
        PROVE  Goes(w.left, next.left, done(w), done(next), root, base)
    <2>1. CASE w.left = <<>>
      <3>1. next = w
        BY <1>3, <2>1 DEF SearchFirst
      <3> QED  BY <2>1, <3>1 DEF Goes
    <2>2. CASE w.left # <<>>
      <3> DEFINE item == Head(w.left)
                 rest == Tail(w.left)
      <3>1. /\ item \in ToVisits
            /\ w.found \subseteq next.found /\ (w.truncated => next.truncated)
            /\ \/ next.truncated /\ next.left = rest
               \/ /\ next.left = VisitedBelow(item) \o rest /\ item.depth < Deepest
                  /\ Hits(query, semantic, Spot(item)) => item.path \in next.found
        BY <1>3, <2>2, SearchTurns, Zenon
      <3> HIDE DEF item, rest
      <3>2. Spot(item) \in Places /\ Spot(item).path = item.path
        BY <3>1 DEF Spot, Place, Places, ToVisits
      <3>3. done(w) \subseteq done(next)
        BY <3>1
      <3>4. CASE next.truncated /\ next.left = rest
        <4>1. done(next) = Places
          BY <3>4
        <4>2. all \subseteq Places
          BY PlacesFinite
        <4> HIDE DEF done
        <4> QED  BY <2>2, <3>3, <3>4, <4>1, <4>2 DEF Goes, item, rest
      <3>5. CASE /\ next.left = VisitedBelow(item) \o rest /\ item.depth < Deepest
                 /\ Hits(query, semantic, Spot(item)) => item.path \in next.found
        <4>1. Spot(item) \in done(next)
          BY <3>2, <3>5
        <4> HIDE DEF done
        <4> QED  BY <2>2, <3>3, <3>5, <4>1 DEF Goes, item, rest
      <3> QED  BY <3>1, <3>4, <3>5
    <2> QED  BY <2>1, <2>2
  <1> HIDE DEF walk, done
  <1>4. \A n \in Nat : walk(n).left \in Seq(ToVisits)
    BY <1>1 DEF Searches
  <1>5. \A n \in Nat : /\ lefts[n] \in Seq(ToVisits)
                       /\ Goes(lefts[n], lefts[n + 1], dones[n], dones[n + 1], root, base)
    BY <1>1, <1>3, <1>4
  <1>6. lefts[0] = <<ToVisit(root, base, 0, root, 0)>>
    BY <1>2
  <1>7. IsFiniteSet(all) /\ Cardinality(all) \in Nat
    BY PlacesFinite, FS_CardinalityType
  <1>8. all \subseteq dones[Cardinality(all)]
    <2> HIDE DEF lefts, dones
    <2> QED  BY <1>5, <1>6, WalkEnds
  <1>9. place \in done(searched)
    BY <1>7, <1>8 DEF walk
  <1> QED  BY <1>9 DEF done

Listed == {v \in ToVisits : v.depth <= PathsDepth}
Listings == [truncated : BOOLEAN, found : SUBSET Pointers, left : Seq(Listed)]

\* A turn of a listing has the path of what it visited, or says that it stopped.
LEMMA ListingTurns ==
    ASSUME NEW walk \in Listings, walk.left # <<>>, NEW most
    PROVE  LET item == Head(walk.left)
               rest == Tail(walk.left)
               next == CollectFirst(walk, most)
           IN  /\ next \in Listings /\ item \in ToVisits /\ rest \in Seq(ToVisits)
               /\ walk.found \subseteq next.found /\ (walk.truncated => next.truncated)
               /\ next.found \subseteq walk.found \union {item.path}
               /\ \/ next.truncated /\ next.left = rest
                  \/ /\ next.left = VisitedBelow(item) \o rest /\ item.depth < Deepest
                     /\ item.path \in next.found
  <1> DEFINE item == Head(walk.left)
             rest == Tail(walk.left)
             below == VisitedBelow(item)
             found == walk.found \union {item.path}
             kids == Children(item.node)
             stops == walk.truncated \/ kids # <<>>
             next == CollectFirst(walk, most)
             isFull == Cardinality(walk.found) >= most
  <1>1. /\ walk.truncated \in BOOLEAN /\ walk.found \in SUBSET Pointers
        /\ walk.left \in Seq(Listed)
    BY DEF Listings
  <1>2. item \in Listed /\ rest \in Seq(Listed)
    BY <1>1, HeadTailProperties
  <1>3. /\ item \in ToVisits /\ item.depth <= PathsDepth /\ rest \in Seq(ToVisits)
    <2>1. Listed \subseteq ToVisits
      BY DEF Listed
    <2>2. Seq(Listed) \subseteq Seq(ToVisits)
      BY <2>1
    <2> QED  BY <1>2, <2>2 DEF Listed
  <1>4. /\ item.path \in Pointers /\ item.depth \in Nat /\ item.node \in Nodes
        /\ PathsDepth \in Nat /\ PathsDepth < Deepest
    BY <1>3, NavigationAssumption, PathsAssumption DEF ToVisits
  <1>5. next = IF isFull THEN [walk EXCEPT !.truncated = TRUE, !.left = rest]
               ELSE IF item.depth = PathsDepth
               THEN [truncated |-> stops, found |-> found, left |-> rest]
               ELSE [truncated |-> walk.truncated, found |-> found, left |-> below \o rest]
    BY Zenon DEF CollectFirst
  <1>6. /\ below \in Seq(ToVisits) /\ Len(below) = Len(kids) /\ Len(kids) \in Nat
        /\ \A i \in 1 .. Len(kids) : below[i].depth = item.depth + 1
        /\ kids \in Seq(STRING \X Nodes)
    BY <1>3, <1>4, VisitedBelowTyped, ChildrenTyped
  <1>7. kids = <<>> => below \o rest = rest
    <2> HIDE DEF rest, below, kids
    <2>1. ASSUME kids = <<>> PROVE Len(below) = 0
      BY <1>6, <2>1
    <2>2. Len(below) = 0 => below = <<>>
      BY <1>6, EmptySeq
    <2>3. <<>> \o rest = rest
      BY <1>3, ConcatEmptySeq
    <2> QED  BY <2>1, <2>2, <2>3
  <1> HIDE DEF isFull, below, item, rest, kids
  <1>8. ASSUME item.depth # PathsDepth PROVE below \o rest \in Seq(Listed)
    <2>1. \A i \in 1 .. Len(below) : below[i] \in Listed
      BY <1>3, <1>4, <1>6, <1>8 DEF Listed
    <2>2. below \in Seq(Listed)
      BY <1>6, <2>1
    <2> QED  BY <1>2, <2>2, ConcatProperties
  <1>9. found \in SUBSET Pointers /\ stops \in BOOLEAN
    BY <1>1, <1>4
  <1> HIDE DEF found, stops, next
  <1>10. CASE isFull
    <2>1. /\ next \in Listings /\ next.found = walk.found /\ next.truncated /\ next.left = rest
      BY <1>1, <1>2, <1>5, <1>10 DEF Listings
    <2> QED  BY <1>3, <2>1 DEF next, item, rest
  <1>11. CASE ~isFull /\ item.depth = PathsDepth
    <2>1. next = [truncated |-> stops, found |-> found, left |-> rest]
      BY <1>5, <1>11
    <2>2. /\ next \in Listings /\ next.found = found /\ next.truncated = stops
          /\ next.left = rest
      BY <1>2, <1>9, <2>1 DEF Listings
    <2>3. \/ next.truncated /\ next.left = rest
          \/ next.left = below \o rest /\ item.depth < Deepest /\ item.path \in next.found
      BY <1>4, <1>7, <1>11, <2>2 DEF stops, found
    <2>4. /\ walk.found \subseteq next.found /\ (walk.truncated => next.truncated)
          /\ next.found \subseteq walk.found \union {item.path}
      BY <2>2 DEF found, stops
    <2> QED  BY <1>3, <2>2, <2>3, <2>4 DEF next, item, rest, below
  <1>12. CASE ~isFull /\ item.depth # PathsDepth
    <2>1. next = [truncated |-> walk.truncated, found |-> found, left |-> below \o rest]
      BY <1>5, <1>12
    <2>2. /\ next \in Listings /\ next.found = found /\ next.truncated = walk.truncated
          /\ next.left = below \o rest
      BY <1>1, <1>8, <1>9, <1>12, <2>1 DEF Listings
    <2>3. item.depth < Deepest
      BY <1>3, <1>4, PathsAssumption
    <2>4. /\ walk.found \subseteq next.found /\ (walk.truncated => next.truncated)
          /\ next.found \subseteq walk.found \union {item.path} /\ item.path \in next.found
      BY <2>2 DEF found
    <2> QED  BY <1>3, <2>2, <2>3, <2>4 DEF next, item, rest, below
  <1> QED  BY <1>10, <1>11, <1>12

LEMMA ListingUnfolds ==
    ASSUME NEW node \in Nodes, NEW base \in Pointers, NEW most
    PROVE  /\ CollectPaths(node, base, most, 0) =
                 [truncated |-> FALSE, found |-> {}, left |-> <<ToVisit(node, base, 0, node, 0)>>]
           /\ \A n \in Nat : /\ CollectPaths(node, base, most, n) \in Listings
                             /\ CollectPaths(node, base, most, n + 1) =
                                   CollectFirst(CollectPaths(node, base, most, n), most)
  <1> DEFINE first == [truncated |-> FALSE, found |-> {},
                       left |-> <<ToVisit(node, base, 0, node, 0)>>]
             turn(walk) == CollectFirst(walk, most)
             step == [nx \in Nat \X Listings |-> turn(nx[2])]
             IsWalk(f) == f = [n \in Nat |-> IF n = 0 THEN first ELSE turn(f[n - 1])]
             walk == CHOOSE f : IsWalk(f)
  <1>1. first \in Listings
    <2> DEFINE item == ToVisit(node, base, 0, node, 0)
    <2>1. item \in ToVisits /\ item.depth = 0
      BY DEF ToVisit, ToVisits
    <2>2. 0 <= PathsDepth
      BY NavigationAssumption, PathsAssumption
    <2> HIDE DEF item
    <2>3. item \in Listed
      BY <2>1, <2>2 DEF Listed
    <2>4. <<item>> \in Seq(Listed)
      BY <2>3
    <2> QED  BY <2>4 DEF Listings, item
  <1>2. ASSUME NEW w \in Listings PROVE turn(w) \in Listings
    <2>1. CASE w.left = <<>>
      BY <2>1 DEF CollectFirst
    <2>2. CASE w.left # <<>>
      BY <2>2, ListingTurns, Zenon
    <2> QED  BY <2>1, <2>2
  <1>3. \A n \in Nat : CollectPaths(node, base, most, n) = walk[n]
    BY DEF CollectPaths
  <1> HIDE DEF first, turn
  <1>4. step \in [Nat \X Listings -> Listings]
    BY <1>2
  <1> HIDE DEF step
  <1>5. PICK f : IsRecursion(f, Listings, first, step)
    BY <1>1, <1>4, Recursion, Zenon
  <1>6. IsWalk(f)
    <2>1. ASSUME NEW n \in Nat, n # 0 PROVE step[<<n, f[n - 1]>>] = turn(f[n - 1])
      <3>1. n - 1 \in Nat
        BY <2>1
      <3>2. f[n - 1] \in Listings
        BY <1>5, <3>1 DEF IsRecursion
      <3> QED  BY <3>2 DEF step
    <2> QED  BY <1>5, <2>1 DEF IsRecursion
  <1> HIDE DEF IsWalk
  <1>7. IsWalk(walk)
    BY <1>6, Zenon
  <1> USE DEF IsWalk
  <1> HIDE DEF walk
  <1>8. walk[0] = first /\ \A n \in Nat : walk[n + 1] = turn(walk[n])
    <2>1. \A n \in Nat : n + 1 \in Nat /\ n + 1 # 0 /\ n + 1 - 1 = n
      OBVIOUS
    <2> QED  BY <1>7, <2>1
  <1> DEFINE S == {n \in Nat : walk[n] \in Listings}
  <1>9. 0 \in S
    BY <1>1, <1>8
  <1>10. \A n \in Nat : n \in S => n + 1 \in S
    BY <1>2, <1>8
  <1> HIDE DEF S
  <1>11. \A n \in Nat : n \in S
    BY <1>9, <1>10, EveryNumber
  <1> QED  BY <1>3, <1>8, <1>11 DEF first, turn, S

\* A listing that does not say that it stopped has all the paths, and no others.
LEMMA ListsAll ==
    ASSUME NEW root \in Nodes, NEW base \in Pointers, NEW most, NEW collected,
           collected = CollectPaths(root, base, most, Cardinality(PlacesOf(root, base))),
           ~collected.truncated
    PROVE  collected.found = PathsOf(root, base)
  <1> DEFINE all == PlacesOf(root, base)
             walk(n) == CollectPaths(root, base, most, n)
             done(w) == {p \in Places : w.truncated \/ p.path \in w.found}
             lefts == [n \in Nat |-> walk(n).left]
             dones == [n \in Nat |-> done(walk(n))]
  <1>1. \A n \in Nat : walk(n) \in Listings /\ walk(n + 1) = CollectFirst(walk(n), most)
    BY ListingUnfolds
  <1>2. walk(0).left = <<ToVisit(root, base, 0, root, 0)>> /\ walk(0).found = {}
    BY ListingUnfolds
  <1>3. ASSUME NEW w \in Listings, NEW next, next = CollectFirst(w, most)
        PROVE  /\ Goes(w.left, next.left, done(w), done(next), root, base)
               /\ next.found \subseteq w.found \union (IF w.left = <<>> THEN {}
                                                       ELSE {Spot(Head(w.left)).path})
    <2>1. CASE w.left = <<>>
      <3>1. next = w
        BY <1>3, <2>1 DEF CollectFirst
      <3> QED  BY <2>1, <3>1 DEF Goes
    <2>2. CASE w.left # <<>>
      <3> DEFINE item == Head(w.left)
                 rest == Tail(w.left)
      <3>1. /\ item \in ToVisits
            /\ w.found \subseteq next.found /\ (w.truncated => next.truncated)
            /\ next.found \subseteq w.found \union {item.path}
            /\ \/ next.truncated /\ next.left = rest
               \/ /\ next.left = VisitedBelow(item) \o rest /\ item.depth < Deepest
                  /\ item.path \in next.found
        BY <1>3, <2>2, ListingTurns, Zenon
      <3> HIDE DEF item, rest
      <3>2. Spot(item) \in Places /\ Spot(item).path = item.path
        BY <3>1 DEF Spot, Place, Places, ToVisits
      <3>3. done(w) \subseteq done(next)
        BY <3>1
      <3>6. next.found \subseteq w.found \union (IF w.left = <<>> THEN {}
                                                 ELSE {Spot(Head(w.left)).path})
        BY <2>2, <3>1, <3>2 DEF item
      <3>4. CASE next.truncated /\ next.left = rest
        <4>1. done(next) = Places
          BY <3>4
        <4>2. all \subseteq Places
          BY PlacesFinite
        <4> HIDE DEF done
        <4> QED  BY <2>2, <3>3, <3>4, <3>6, <4>1, <4>2 DEF Goes, item, rest
      <3>5. CASE /\ next.left = VisitedBelow(item) \o rest /\ item.depth < Deepest
                 /\ item.path \in next.found
        <4>1. Spot(item) \in done(next)
          BY <3>2, <3>5
        <4> HIDE DEF done
        <4> QED  BY <2>2, <3>3, <3>5, <3>6, <4>1 DEF Goes, item, rest
      <3> QED  BY <3>1, <3>4, <3>5
    <2> QED  BY <2>1, <2>2
  <1> HIDE DEF walk, done
  <1>4. \A n \in Nat : walk(n).left \in Seq(ToVisits)
    <2>1. Seq(Listed) \subseteq Seq(ToVisits)
      <3>1. Listed \subseteq ToVisits
        BY DEF Listed
      <3> QED  BY <3>1
    <2> QED  BY <1>1, <2>1 DEF Listings
  <1>5. \A n \in Nat : /\ lefts[n] \in Seq(ToVisits)
                       /\ Goes(lefts[n], lefts[n + 1], dones[n], dones[n + 1], root, base)
    BY <1>1, <1>3, <1>4
  <1>6. lefts[0] = <<ToVisit(root, base, 0, root, 0)>>
    BY <1>2
  <1>7. IsFiniteSet(all) /\ Cardinality(all) \in Nat
    BY PlacesFinite, FS_CardinalityType
  <1>8. /\ all \subseteq dones[Cardinality(all)]
        /\ \A n \in Nat : lefts[n] # <<>> => Spot(Head(lefts[n])) \in all
    <2> HIDE DEF lefts, dones
    <2> QED  BY <1>5, <1>6, WalkEnds
  <1>9. PathsOf(root, base) \subseteq collected.found
    <2>1. all \subseteq done(collected)
      BY <1>7, <1>8 DEF walk
    <2> QED  BY <2>1 DEF done, PathsOf
  <1> DEFINE S == {n \in Nat : walk(n).found \subseteq PathsOf(root, base)}
  <1>10. 0 \in S
    BY <1>2
  <1>11. ASSUME NEW n \in Nat, n \in S PROVE n + 1 \in S
    <2>1. walk(n + 1).found \subseteq
              walk(n).found \union (IF walk(n).left = <<>> THEN {}
                                    ELSE {Spot(Head(walk(n).left)).path})
      BY <1>1, <1>3
    <2>2. walk(n).left # <<>> => Spot(Head(walk(n).left)).path \in PathsOf(root, base)
      BY <1>8 DEF PathsOf
    <2> QED  BY <1>11, <2>1, <2>2
  <1> HIDE DEF S
  <1>12. \A n \in Nat : n \in S
    BY <1>10, <1>11, EveryNumber
  <1>13. collected.found \subseteq PathsOf(root, base)
    BY <1>7, <1>12 DEF S, walk
  <1> QED  BY <1>9, <1>13

\* What is at a path is in the tree, as deep as the path is long.
LEMMA NodesAtPlaces ==
    ASSUME NEW root \in Nodes, NEW path \in Pointers, NEW node \in NodesAt(root, path)
    PROVE  node \in Nodes /\ Place(node, path) \in Level(root, <<>>, Len(path))
  <1> DEFINE named(n, key) == {Children(n)[i][2] :
                                  i \in {j \in DOMAIN Children(n) : Children(n)[j][1] = key}}
             next(i, nodes) == UNION {named(n, path[i]) : n \in nodes}
             IsAt(f) == f = [i \in 0 .. Len(path) |-> IF i = 0 THEN {root} ELSE next(i, f[i - 1])]
             at == CHOOSE f : IsAt(f)
             step == [nx \in Nat \X SUBSET Nodes |-> next(nx[1], nx[2])]
             cut(i) == SubSeq(path, 1, i)
             Is(i, n) == n \in Nodes /\ Place(n, cut(i)) \in Level(root, <<>>, i)
  <1>1. path \in Seq(STRING) /\ Len(path) \in Nat
    BY LenProperties DEF Pointers
  <1>2. NodesAt(root, path) = at[Len(path)]
    BY DEF NodesAt
  <1>3. ASSUME NEW n \in Nodes, NEW key, NEW below \in named(n, key)
        PROVE  /\ below \in Nodes /\ key \in STRING
               /\ \E j \in DOMAIN Children(n) : Children(n)[j][1] = key /\ Children(n)[j][2] = below
    <2>1. PICK j \in DOMAIN Children(n) : Children(n)[j][1] = key /\ Children(n)[j][2] = below
      BY <1>3
    <2> QED  BY <2>1, ChildrenTyped
  <1> HIDE DEF named
  <1>4. step \in [Nat \X SUBSET Nodes -> SUBSET Nodes]
    BY <1>3
  <1>5. {root} \in SUBSET Nodes
    OBVIOUS
  <1> HIDE DEF step
  <1>6. PICK f : IsRecursionUpTo(f, Len(path), SUBSET Nodes, {root}, step)
    BY <1>1, <1>4, <1>5, RecursionUpTo, Zenon
  <1>7. IsAt(f)
    <2>1. ASSUME NEW i \in 0 .. Len(path), i # 0 PROVE step[<<i, f[i - 1]>>] = next(i, f[i - 1])
      <3>1. i \in Nat /\ i - 1 \in 0 .. Len(path)
        BY <1>1, <2>1
      <3>2. f[i - 1] \in SUBSET Nodes
        BY <1>6, <3>1 DEF IsRecursionUpTo
      <3> QED  BY <3>1, <3>2 DEF step
    <2> HIDE DEF next
    <2> QED  BY <1>6, <2>1 DEF IsRecursionUpTo
  <1> HIDE DEF IsAt
  <1>8. IsAt(at)
    BY <1>7, Zenon
  <1> USE DEF IsAt
  <1> HIDE DEF at, next
  <1>9. at[0] = {root} /\ \A i \in 0 .. Len(path) : i # 0 => at[i] = next(i, at[i - 1])
    <2>1. 0 \in 0 .. Len(path)
      BY <1>1
    <2> QED  BY <1>8, <2>1
  <1>10. /\ cut(0) = <<>> /\ cut(Len(path)) = path
         /\ \A i \in 0 .. Len(path) : /\ cut(i) \in Seq(STRING)
                                      /\ i # Len(path) => cut(i + 1) = Append(cut(i), path[i + 1])
    BY <1>1
  <1> HIDE DEF cut
  <1>11. /\ Level(root, <<>>, 0) = {Place(root, <<>>)}
         /\ \A n \in Nat : Level(root, <<>>, n + 1) = NextLevel(Level(root, <<>>, n))
    BY Rooted, LevelUnfolds
  <1> DEFINE S == {i \in 0 .. Len(path) : \A n \in at[i] : Is(i, n)}
  <1>12. 0 \in S
    BY <1>1, <1>9, <1>10, <1>11
  <1>13. ASSUME NEW i \in 0 .. Len(path), i # Len(path), i \in S PROVE i + 1 \in S
    <2>1. /\ i + 1 \in 0 .. Len(path) /\ i + 1 # 0 /\ i + 1 - 1 = i /\ i \in Nat
      BY <1>1, <1>13
    <2>2. at[i + 1] = next(i + 1, at[i])
      BY <1>9, <2>1
    <2>3. ASSUME NEW n \in at[i + 1] PROVE Is(i + 1, n)
      <3>1. PICK up \in at[i] : n \in named(up, path[i + 1])
        BY <2>2 DEF next
      <3>2. up \in Nodes /\ Place(up, cut(i)) \in Level(root, <<>>, i)
        BY <1>13, <3>1
      <3>3. /\ n \in Nodes
            /\ \E j \in DOMAIN Children(up) :
                  Children(up)[j][1] = path[i + 1] /\ Children(up)[j][2] = n
        BY <1>3, <3>1, <3>2
      <3>4. Place(n, Append(cut(i), path[i + 1])) \in PlacesBelow(Place(up, cut(i)))
        <4>1. PICK j \in DOMAIN Children(up) :
                  Children(up)[j][1] = path[i + 1] /\ Children(up)[j][2] = n
          BY <3>3
        <4>2. Place(up, cut(i)).node = up /\ Place(up, cut(i)).path = cut(i)
          BY DEF Place
        <4> QED  BY <4>1, <4>2 DEF PlacesBelow
      <3>5. Place(n, cut(i + 1)) \in Level(root, <<>>, i + 1)
        <4>1. cut(i + 1) = Append(cut(i), path[i + 1])
          BY <1>10, <1>13
        <4>2. Level(root, <<>>, i + 1) = NextLevel(Level(root, <<>>, i))
          BY <1>11, <2>1
        <4>3. Place(n, cut(i + 1)) \in PlacesBelow(Place(up, cut(i)))
          BY <3>4, <4>1
        <4> QED  BY <3>2, <4>2, <4>3, Zenon DEF NextLevel
      <3> QED  BY <3>3, <3>5
    <2> HIDE DEF Is
    <2> QED  BY <2>1, <2>3
  <1> HIDE DEF S
  <1>14. \A i \in 0 .. Len(path) : i \in S
    BY <1>1, <1>12, <1>13, EveryNumberUpTo
  <1>15. Len(path) \in S
    BY <1>1, <1>14
  <1> QED  BY <1>2, <1>10, <1>15 DEF S

\* The tree at a place of a payload within the bounds is part of it.
LEMMA PartOfPayload ==
    ASSUME NEW payload \in Nodes, IsWhole(payload), NEW base \in Pointers,
           NEW root \in Nodes, Place(root, base) \in Level(payload, <<>>, Len(base))
    PROVE  IsPart(root, base, payload)
  <1>1. /\ Len(base) \in Nat /\ <<>> \in Pointers
    BY Rooted, LenProperties DEF Pointers
  <1>2. /\ Level(root, base, 0) = {Place(root, base)}
        /\ \A n \in Nat : Level(root, base, n + 1) = NextLevel(Level(root, base, n))
        /\ \A n \in Nat : Level(payload, <<>>, n + 1) = NextLevel(Level(payload, <<>>, n))
    BY <1>1, LevelUnfolds
  <1> DEFINE S == {n \in Nat : Level(root, base, n) \subseteq Level(payload, <<>>, Len(base) + n)}
  <1>3. 0 \in S
    BY <1>1, <1>2
  <1>4. ASSUME NEW n \in Nat, n \in S PROVE n + 1 \in S
    <2>1. Len(base) + (n + 1) = (Len(base) + n) + 1 /\ Len(base) + n \in Nat
      BY <1>1
    <2> QED  BY <1>2, <1>4, <2>1 DEF NextLevel
  <1> HIDE DEF S
  <1>5. \A n \in Nat : n \in S
    BY <1>3, <1>4, EveryNumber
  <1> DEFINE E == {n \in Nat : Level(payload, <<>>, MaxDepth + 1 + n) = {}}
  <1>6. MaxDepth \in Nat /\ MaxDepth + 1 \in 0 .. Deepest /\ MaxDepth + 1 \in Nat /\ Deepest \in Nat
    BY FindingsAssumption, PathsAssumption
  <1>7. 0 \in E
    <2>1. SUFFICES ASSUME NEW place \in Level(payload, <<>>, MaxDepth + 1) PROVE FALSE
      BY <1>6
    <2>2. place \in PlacesOf(payload, <<>>)
      BY <1>6 DEF PlacesOf
    <2>3. Len(place.path) = MaxDepth + 1
      BY <1>1, <1>6, LevelPaths, Rooted
    <2> QED  BY <1>6, <2>2, <2>3 DEF IsWhole, IsDeeper
  <1>8. ASSUME NEW n \in Nat, n \in E PROVE n + 1 \in E
    <2>1. MaxDepth + 1 + (n + 1) = (MaxDepth + 1 + n) + 1 /\ MaxDepth + 1 + n \in Nat
      BY <1>6
    <2> QED  BY <1>2, <1>8, <2>1 DEF NextLevel
  <1> HIDE DEF E
  <1>9. \A n \in Nat : n \in E
    BY <1>7, <1>8, EveryNumber
  <1>10. ASSUME NEW d \in 0 .. Deepest, NEW place \in Level(root, base, d)
         PROVE  place \in PlacesOf(payload, <<>>)
    <2>1. d \in Nat /\ Len(base) + d \in Nat
      BY <1>1, <1>6
    <2>2. place \in Level(payload, <<>>, Len(base) + d)
      BY <1>5, <1>10, <2>1 DEF S
    <2>3. Len(base) + d <= MaxDepth
      <3>1. SUFFICES ASSUME ~(Len(base) + d <= MaxDepth) PROVE FALSE
        OBVIOUS
      <3> DEFINE n == Len(base) + d - (MaxDepth + 1)
      <3>2. n \in Nat /\ MaxDepth + 1 + n = Len(base) + d
        BY <1>6, <2>1, <3>1
      <3> HIDE DEF n
      <3> QED  BY <1>9, <2>2, <3>2 DEF E
    <2>4. Len(base) + d \in 0 .. Deepest
      BY <1>6, <2>1, <2>3
    <2> QED  BY <2>2, <2>4 DEF PlacesOf
  <1>11. PlacesOf(root, base) \subseteq PlacesOf(payload, <<>>)
    BY <1>10 DEF PlacesOf
  <1> QED  BY <1>11 DEF IsPart

-----------------------------------------------------------------------------
(* Findings are finitely many, and ranked. *)

LEMMA CandidatesFinite ==
    ASSUME NEW path, NEW kinds, IsFiniteSet(kinds), NEW message
    PROVE  IsFiniteSet(Candidates(path, kinds, message))
  <1> DEFINE f == [kind \in kinds |-> [path |-> path, kind |-> kind, message |-> message]]
             found == Candidates(path, kinds, message)
  <1>1. DOMAIN f = kinds /\ found = {f[kind] : kind \in kinds}
    BY DEF Candidates
  <1> HIDE DEF f, found
  <1>2. IsFiniteSet(found)
    BY <1>1, ImageFinite
  <1> QED  BY <1>2 DEF found

LEMMA SignalsFinite ==
    /\ \A markers : IsFiniteSet(StringSignal(markers))
    /\ \A key, n : IsFiniteSet(KeySignal(key, n))
    /\ \A n : IsFiniteSet(SeveritySignal(n)) /\ IsFiniteSet(SectionSignal(n))
  <1>0. IsFiniteSet({}) /\ \A kind : IsFiniteSet({kind})
    BY FS_EmptySet, FS_Singleton
  <1>1. ASSUME NEW markers PROVE IsFiniteSet(StringSignal(markers))
    <2> DEFINE present == SelectSeq(StringKinds, LAMBDA kind : kind \in markers)
    <2>1. StringSignal(markers) = IF present = <<>> THEN {} ELSE {present[1]}
      BY Zenon DEF StringSignal
    <2> HIDE DEF present
    <2> QED  BY <1>0, <2>1
  <1>2. ASSUME NEW key, NEW n PROVE IsFiniteSet(KeySignal(key, n))
    <2> DEFINE shown == StringSignal(Markers(n))
    <2>1. IsFiniteSet(shown)
      BY <1>1
    <2> HIDE DEF shown
    <2>2. \/ KeySignal(key, n) = {} \/ \E kind : KeySignal(key, n) = {kind}
          \/ KeySignal(key, n) = shown
      BY DEF KeySignal, shown
    <2> QED  BY <1>0, <2>1, <2>2
  <1>3. ASSUME NEW n PROVE IsFiniteSet(SeveritySignal(n))
    BY <1>0 DEF SeveritySignal
  <1>4. ASSUME NEW n PROVE IsFiniteSet(SectionSignal(n))
    <2> DEFINE markers == IF HasField(n, "lines")
                          THEN UNION {Markers(FieldOf(n, "lines").items[i]) :
                                         i \in DOMAIN FieldOf(n, "lines").items}
                          ELSE {}
               shown == StringSignal(markers \ {"test_reference", "log_fatal", "log_error",
                                                "stderr_error", "diff_hunk", "warning"})
    <2>1. IsFiniteSet(shown)
      BY <1>1
    <2>2. SectionSignal(n) = CASE n.format = "timeout" -> {"command_timeout"}
                               [] n.format = "spawn_error" -> {"command_spawn_error"}
                               [] shown = {} -> {"stderr_error"}
                               [] shown = {"stack_trace"} -> {"python_traceback"}
                               [] OTHER -> shown
      BY Zenon DEF SectionSignal
    <2> HIDE DEF shown
    <2>3. (\E kind : SectionSignal(n) = {kind}) \/ SectionSignal(n) = shown
      BY <2>2
    <2> QED  BY <1>0, <2>1, <2>3
  <1> QED  BY <1>1, <1>2, <1>3, <1>4

LEMMA UnionFinite ==
    ASSUME NEW S, IsFiniteSet(S), NEW f, DOMAIN f = S, \A x \in S : IsFiniteSet(f[x])
    PROVE  IsFiniteSet(UNION {f[x] : x \in S})
  <1> DEFINE T == {f[x] : x \in S}
  <1>1. \A t \in T : IsFiniteSet(t)
    OBVIOUS
  <1>2. T = {f[x] : x \in S}
    OBVIOUS
  <1> HIDE DEF T
  <1>3. IsFiniteSet(T)
    BY <1>2, ImageFinite, Zenon
  <1>4. IsFiniteSet(UNION T)
    BY <1>1, <1>3, FS_UNION, Zenon
  <1> QED  BY <1>2, <1>4

LEMMA SignalsAtFinite ==
    ASSUME NEW item \in ToVisits, NEW visited \in Nat
    PROVE  IsFiniteSet(SignalsAt(item, visited)) /\ IsFiniteSet(Named(item, visited))
  <1> DEFINE node == item.node
             seen == LinesSeen(node.lines, visited)
             f == [i \in seen |-> Candidates(item.path, StringSignal(node.lines[i]), node.lines[i])]
             shown == UNION {Candidates(item.path, StringSignal(node.lines[i]), node.lines[i]) :
                                i \in seen}
             whole == Candidates(item.path, StringSignal(Markers(node)), Markers(node))
             other == Candidates(item.path, SeveritySignal(node), {})
  <1>1. IsFiniteSet(whole) /\ IsFiniteSet(other)
    BY SignalsFinite, CandidatesFinite
  <1>2. ASSUME node.type = "string" PROVE IsFiniteSet(SignalsAt(item, visited))
    <2>1. node \in Nodes
      BY DEF ToVisits
    <2>2. node.lines \in Seq(Texts) /\ Len(node.lines) \in Nat
      BY <1>2, <2>1, LinesTyped
    <2>3. IsFiniteSet(seen)
      <3>1. seen \in SUBSET (1 .. Len(node.lines))
        BY <2>2, LinesSeenTyped
      <3>2. IsFiniteSet(1 .. Len(node.lines))
        BY <2>2, FS_Interval
      <3> QED  BY <3>1, <3>2, FS_Subset
    <2> HIDE DEF seen
    <2>4. DOMAIN f = seen /\ (\A i \in seen : IsFiniteSet(f[i])) /\ shown = UNION {f[i] : i \in seen}
      BY SignalsFinite, CandidatesFinite
    <2> HIDE DEF f, shown
    <2>5. IsFiniteSet(UNION {f[i] : i \in seen})
      BY <2>3, <2>4, UnionFinite
    <2>6. IsFiniteSet(shown)
      BY <2>4, <2>5
    <2>7. SignalsAt(item, visited) \in {shown, whole, other}
      <3> HIDE DEF whole, other
      <3> QED  BY Zenon DEF SignalsAt, TextSignals, shown, whole, other, seen
    <2> QED  BY <1>1, <2>6, <2>7
  <1>3. ASSUME node.type # "string" PROVE IsFiniteSet(SignalsAt(item, visited))
    <2>1. SignalsAt(item, visited) = other
      BY <1>3 DEF SignalsAt
    <2> QED  BY <1>1, <2>1
  <1>4. IsFiniteSet(Named(item, visited))
    <2>1. IsFiniteSet(NamedKinds(item)) /\ IsFiniteSet({})
      BY SignalsFinite, FS_EmptySet DEF NamedKinds
    <2> QED  BY <2>1, CandidatesFinite DEF Named
  <1> QED  BY <1>2, <1>3, <1>4

LEMMA CollectFinite ==
    ASSUME NEW root \in Nodes, NEW base \in Pointers
    PROVE  IsFiniteSet(Collect(root, base))
  <1> DEFINE S == {n \in Nat : IsFiniteSet(Walk(root, base, n).found)}
  <1>1. 0 \in S
    <2>1. Walk(root, base, 0) = First(root, base)
      BY WalkUnfolds, Zenon
    <2>2. First(root, base).found = {}
      BY DEF First
    <2> QED  BY <2>1, <2>2, FS_EmptySet
  <1>2. ASSUME NEW n \in Nat, n \in S PROVE n + 1 \in S
    <2> DEFINE walk == Walk(root, base, n)
               item == Head(walk.left)
    <2>1. walk \in Walks /\ Walk(root, base, n + 1) = VisitFirst(walk)
      BY WalkUnfolds
    <2>2. walk.visited \in Nat /\ walk.left \in Seq(ToVisits) /\ IsFiniteSet(walk.found)
      BY <1>2, <2>1 DEF Walks
    <2> HIDE DEF walk
    <2>3. IsFiniteSet(VisitFirst(walk).found)
      <3>1. CASE walk.left = <<>>
        BY <2>2, <3>1 DEF VisitFirst
      <3>2. CASE walk.left # <<>>
        <4>1. item \in ToVisits /\ walk.visited + 1 \in Nat
          BY <2>2, <3>2, HeadTailProperties
        <4> DEFINE named == Named(item, walk.visited)
                   signals == SignalsAt(item, walk.visited + 1)
        <4>2. IsFiniteSet(named) /\ IsFiniteSet(signals)
          BY <2>2, <4>1, SignalsAtFinite
        <4>3. VisitFirst(walk).found \in {walk.found \union named,
                                          walk.found \union named \union signals}
          <5> DEFINE next == VisitFirst(walk)
                     visits == VisitsAt(item, walk.visited + 1)
                     below == VisitedBelow(item) \o Tail(walk.left)
                     rest == Tail(walk.left)
                     isVisited == IsVisited(item, walk.visited)
          <5>1. /\ isVisited => next = [visited |-> walk.visited + visits,
                                        found |-> walk.found \union named \union signals,
                                        left |-> below]
                /\ ~isVisited => next = [visited |-> walk.visited,
                                         found |-> walk.found \union named, left |-> rest]
            BY <3>2, VisitFirstParts, Zenon
          <5> HIDE DEF next, visits, below, rest, isVisited, named, signals
          <5>2. next.found \in {walk.found \union named, walk.found \union named \union signals}
            BY <5>1
          <5> QED  BY <5>2 DEF next
        <4> HIDE DEF named, signals
        <4>4. IsFiniteSet(walk.found \union named) /\ IsFiniteSet(walk.found \union named \union signals)
          BY <2>2, <4>2, FS_Union
        <4> QED  BY <4>3, <4>4
      <3> QED  BY <3>1, <3>2
    <2> QED  BY <2>1, <2>3
  <1> HIDE DEF S
  <1>3. \A n \in Nat : n \in S
    BY <1>1, <1>2, EveryNumber
  <1>4. Cardinality(PlacesOf(root, base)) \in Nat
    BY PlacesFinite, FS_CardinalityType
  <1> QED  BY <1>3, <1>4 DEF S, Collect

LEMMA RankedFinite ==
    ASSUME NEW root \in Nodes, NEW base \in Pointers
    PROVE  IsFiniteSet(RankedFindings(root, base))
  <1>1. IsFiniteSet(CommandSignals(root, base))
    <2> DEFINE path == Append(base, "command")
               signals == {<<"timed_out", "command_timeout", path>>,
                           <<"spawn_error", "command_spawn_error",
                             Append(path, "spawn_error")>>,
                           <<"unsuccessful", "nonzero_exit", path>>}
               said == {t \in signals : HasField(FieldOf(root, "command"), t[1])}
               f == [s \in said |-> [path |-> s[3], kind |-> s[2], message |-> {}]]
               T == {f[s] : s \in said}
    <2>1. IsFiniteSet(signals)
      <3>1. signals = {<<"timed_out", "command_timeout", path>>}
                      \union {<<"spawn_error", "command_spawn_error",
                                Append(path, "spawn_error")>>}
                      \union {<<"unsuccessful", "nonzero_exit", path>>}
        OBVIOUS
      <3> HIDE DEF signals
      <3> QED  BY <3>1, FS_Singleton, FS_Union
    <2> HIDE DEF signals
    <2>2. IsFiniteSet(said)
      BY <2>1, FS_Subset
    <2> HIDE DEF said
    <2>3. DOMAIN f = said /\ T = {f[s] : s \in said}
      OBVIOUS
    <2>4. HasField(root, "command") => CommandSignals(root, base) = T
      <3>1. T = {[path |-> s[3], kind |-> s[2], message |-> {}] : s \in said}
        OBVIOUS
      <3> HIDE DEF T
      <3> QED  BY <3>1 DEF CommandSignals, said, signals
    <2> HIDE DEF f, T
    <2>5. IsFiniteSet(T)
      BY <2>2, <2>3, ImageFinite
    <2>6. ~HasField(root, "command") => CommandSignals(root, base) = {}
      BY DEF CommandSignals
    <2> QED  BY <2>4, <2>5, <2>6, FS_EmptySet
  <1>2. IsFiniteSet(SectionCandidates(root, base))
    <2> DEFINE sections == FieldOf(root, "failure_sections").items
               taken == {i \in 1 .. MaxNodes : i \in DOMAIN sections}
               of == {j \in taken : sections[j].type = "object"}
               f == [i \in of |-> Candidates(base \o <<"failure_sections", IndexName[i]>>,
                                             SectionSignal(sections[i]), {})]
               T == UNION {f[i] : i \in of}
    <2>1. IsFiniteSet(of)
      <3>1. IsFiniteSet(1 .. MaxNodes)
        BY FindingsAssumption, FS_Interval
      <3>2. of \in SUBSET (1 .. MaxNodes)
        OBVIOUS
      <3> QED  BY <3>1, <3>2, FS_Subset
    <2> HIDE DEF of
    <2>2. DOMAIN f = of /\ \A i \in of : IsFiniteSet(f[i])
      BY SignalsFinite, CandidatesFinite
    <2>3. SectionCandidates(root, base) \in {{}, T}
      <3>1. T = UNION {Candidates(base \o <<"failure_sections", IndexName[i]>>,
                                  SectionSignal(sections[i]), {}) : i \in of}
        OBVIOUS
      <3> HIDE DEF T
      <3> QED  BY <3>1, Zenon DEF SectionCandidates, of
    <2> HIDE DEF f
    <2>4. IsFiniteSet(T)
      BY <2>1, <2>2, UnionFinite
    <2> QED  BY <2>3, <2>4, FS_EmptySet
  <1> QED  BY <1>1, <1>2, CollectFinite, FS_Union DEF RankedFindings

LEMMA RankTyped == \A kind : RankOf(kind) \in Nat
  <1>1. DOMAIN Confidences = 1 .. 19
    BY DEF Confidences
  <1>2. IsFiniteSet(1 .. 19)
    BY FS_Interval, 1 \in Int, 19 \in Int, Zenon
  <1>3. ASSUME NEW kind PROVE RankOf(kind) \in Nat
    <2> DEFINE above == {i \in DOMAIN Confidences : \A j \in 1 .. i : Confidences[j] # kind}
    <2>1. IsFiniteSet(above)
      BY <1>1, <1>2, FS_Subset
    <2> QED  BY <2>1, FS_CardinalityType DEF RankOf
  <1> QED  BY <1>3

\* There are as many as asked for, none of them less confident than another.
IsForemost(some, findings, most) ==
    /\ some \in SUBSET findings /\ Cardinality(some) = most
    /\ \A f \in some, g \in findings \ some : RankOf(f.kind) <= RankOf(g.kind)

LEMMA ForemostExist ==
    ASSUME NEW findings, IsFiniteSet(findings), NEW most \in Nat, most <= Cardinality(findings)
    PROVE  \E some : IsForemost(some, findings, most)
  <1> DEFINE S == {n \in Nat : n <= Cardinality(findings) =>
                                   \E some : IsForemost(some, findings, n)}
  <1>1. 0 \in S
    <2>1. IsForemost({}, findings, 0)
      BY FS_EmptySet DEF IsForemost
    <2> QED  BY <2>1
  <1>2. ASSUME NEW n \in Nat, n \in S PROVE n + 1 \in S
    <2>1. SUFFICES ASSUME n + 1 <= Cardinality(findings)
                   PROVE  \E some : IsForemost(some, findings, n + 1)
      OBVIOUS
    <2>2. Cardinality(findings) \in Nat
      BY FS_CardinalityType
    <2>3. PICK some : IsForemost(some, findings, n)
      BY <1>2, <2>1, <2>2
    <2> DEFINE rest == findings \ some
               N == {RankOf(g.kind) : g \in rest}
    <2>4. IsFiniteSet(some) /\ Cardinality(some) = n
      BY <2>3, FS_Subset DEF IsForemost
    <2>5. rest # {}
      <3>1. some # findings
        BY <2>1, <2>2, <2>4
      <3> QED  BY <2>3, <3>1 DEF IsForemost
    <2>6. N \in SUBSET Nat /\ N # {}
      BY <2>5, RankTyped
    <2>7. PICK x \in rest : \A g \in rest : RankOf(x.kind) <= RankOf(g.kind)
      <3>1. PICK k \in N : \A m \in N : k <= m
        <4> HIDE DEF N
        <4> QED  BY <2>6, LeastNumber
      <3> QED  BY <3>1
    <2>8. Cardinality(some \union {x}) = n + 1
      BY <2>4, <2>7, FS_AddElement
    <2>9. IsForemost(some \union {x}, findings, n + 1)
      BY <2>3, <2>7, <2>8 DEF IsForemost
    <2> QED  BY <2>9
  <1> HIDE DEF S
  <1>3. most \in S
    BY <1>1, <1>2, EveryNumber
  <1> QED  BY <1>3 DEF S

\* Fewer than asked for are all there are.
LEMMA FewerAreAll ==
    ASSUME NEW findings, IsFiniteSet(findings), NEW most \in Nat,
           Cardinality(Foremost(findings, most)) < most
    PROVE  Foremost(findings, most) = findings
  <1>1. SUFFICES ASSUME ~(Cardinality(findings) <= most) PROVE FALSE
    BY DEF Foremost
  <1>2. Cardinality(findings) \in Nat
    BY FS_CardinalityType
  <1>3. most <= Cardinality(findings)
    BY <1>1, <1>2
  <1>4. PICK some : IsForemost(some, findings, most)
    BY <1>3, ForemostExist
  <1> DEFINE P(s) == /\ Cardinality(s) = most
                     /\ \A f \in s, g \in findings \ s : RankOf(f.kind) <= RankOf(g.kind)
             chosen == CHOOSE s \in SUBSET findings : P(s)
  <1>5. some \in SUBSET findings /\ P(some)
    BY <1>4 DEF IsForemost
  <1>6. Foremost(findings, most) = chosen
    BY <1>1, Zenon DEF Foremost
  <1> HIDE DEF P
  <1>7. P(chosen)
    BY <1>5, Zenon
  <1> QED  BY <1>6, <1>7 DEF P

-----------------------------------------------------------------------------
(* Replies. *)

IsAsked == stored \in Trees /\ question \in Questions /\ NodesAt(stored, question.scope) # {}

LEMMA ScopedTyped ==
    ASSUME IsAsked
    PROVE  /\ stored \in Nodes /\ question.scope \in Pointers /\ question.limit \in Nat
           /\ Scoped \in Nodes
           /\ Place(Scoped, question.scope) \in Level(stored, <<>>, Len(question.scope))
           /\ IsFiniteSet(ScopedFindings(question.scope))
  <1>1. stored \in Nodes /\ question.scope \in Pointers /\ question.limit \in Nat
    BY FindingsAssumption, NavigationAssumption DEF IsAsked
  <1>2. Scoped \in NodesAt(stored, question.scope)
    BY Zenon DEF Scoped, Target, IsAsked
  <1>3. /\ Scoped \in Nodes
        /\ Place(Scoped, question.scope) \in Level(stored, <<>>, Len(question.scope))
    BY <1>1, <1>2, NodesAtPlaces, Zenon
  <1>4. IsFiniteSet(ScopedFindings(question.scope))
    BY <1>1, <1>3, RankedFinite DEF ScopedFindings, Scoped
  <1> QED  BY <1>1, <1>3, <1>4

\* What is asked for is found where it is, if the derivation is complete.
LEMMA AskedFound ==
    ASSUME IsAsked, DerivationIsComplete(stored), NEW shown \in Asked
    PROVE  \E place \in PlacesOf(Scoped, question.scope), f \in ScopedFindings(question.scope) :
              /\ shown.path = place.path /\ f.path = place.path
              /\ IsKind(question.kind, f.kind)
              /\ \A g \in ScopedFindings(question.scope) :
                    g.path = f.path => RankOf(f.kind) <= RankOf(g.kind)
  <1> DEFINE all == PlacesOf(Scoped, question.scope)
             findings == ScopedFindings(question.scope)
  <1>1. /\ shown \in Strings(Scoped, question.scope) /\ ~IsArgv(shown.path)
        /\ \E part \in shown.parts : \E kind \in StringSignal(part) :
              /\ IsKind(question.kind, kind)
              /\ \A f \in findings : f.path = shown.path => RankOf(kind) <= RankOf(f.kind)
    BY DEF Asked
  <1>2. PICK part \in shown.parts : \E kind \in StringSignal(part) :
              /\ IsKind(question.kind, kind)
              /\ \A f \in findings : f.path = shown.path => RankOf(kind) <= RankOf(f.kind)
    BY <1>1
  <1>3. PICK kind \in StringSignal(part) :
              /\ IsKind(question.kind, kind)
              /\ \A f \in findings : f.path = shown.path => RankOf(kind) <= RankOf(f.kind)
    BY <1>2
  <1>4. PICK place \in all : /\ place.node.type = "string" /\ ~InCopy(place, all)
                             /\ shown = Shows(place.path, PartsOf(place))
    BY <1>1 DEF Strings, PartsOf
  <1>5. IsPart(Scoped, question.scope, stored)
    <2>1. IsWhole(stored)
      BY DEF DerivationIsComplete, IsWhole
    <2> QED  BY <2>1, ScopedTyped, PartOfPayload
  <1>6. IsReported(place, Collect(Scoped, question.scope))
    BY <1>4, <1>5, CollectReports
  <1>7. shown.path = place.path /\ shown.parts = PartsOf(place)
    BY <1>4 DEF Shows
  <1>8. PICK f \in Collect(Scoped, question.scope) : f.path = place.path /\ f.kind = kind
    BY <1>1, <1>3, <1>4, <1>6, <1>7 DEF IsReported
  <1>9. f \in findings
    BY <1>8 DEF ScopedFindings, RankedFindings, Scoped
  <1> HIDE DEF all, findings
  <1>10. \A g \in findings : g.path = f.path => RankOf(f.kind) <= RankOf(g.kind)
    BY <1>3, <1>7, <1>8
  <1> QED  BY <1>3, <1>4, <1>7, <1>8, <1>9, <1>10 DEF all, findings

LEMMA BoundedShows ==
    ASSUME NEW hits, NEW omitted, NEW most, ~Bounded(hits, omitted, most).omitted
    PROVE  Bounded(hits, omitted, most).hits = hits /\ ~omitted
  BY DEF Bounded

LEMMA PathsAccount ==
    ASSUME IsAsked, NEW r, r = PathsReply(question), ~r.omitted
    PROVE  r.hits = PathsOf(Scoped, question.scope)
  <1> DEFINE collected == CollectPaths(Scoped, question.scope, question.limit,
                                       Cardinality(PlacesOf(Scoped, question.scope)))
  <1>1. r = [hits |-> collected.found, omitted |-> collected.truncated]
    BY DEF PathsReply, Scoped
  <1> HIDE DEF collected
  <1>2. ~collected.truncated /\ r.hits = collected.found
    BY <1>1
  <1> QED  BY <1>2, ScopedTyped, ListsAll DEF collected

LEMMA SearchAccounts ==
    ASSUME IsAsked, NEW r, r = SearchReply(question), ~r.omitted
    PROVE  /\ question.kind = NoKind =>
                 \A place \in PlacesOf(Scoped, question.scope) :
                     Matches(question.query, place.path, place.node) => place.path \in r.hits
           /\ (/\ question.query = NoQuery /\ DerivationIsComplete(stored)
               /\ Cardinality(ScopedFindings(question.scope)) <= MostSemantic) =>
                 \A shown \in Asked : shown.path \in r.hits
  <1> DEFINE semantic == SemanticFindings(question.scope)
             searched == Search(Scoped, question, semantic,
                                Cardinality(PlacesOf(Scoped, question.scope)))
             limited == Bounded(searched.found, searched.truncated, question.limit)
  <1>1. r = Bounded(limited.hits, limited.omitted, question.fits)
    BY DEF SearchReply, Scoped
  <1> HIDE DEF searched
  <1>2. ~limited.omitted /\ r.hits = limited.hits
    <2> HIDE DEF limited
    <2> QED  BY <1>1, BoundedShows
  <1>3. ~searched.truncated /\ r.hits = searched.found
    BY <1>2, BoundedShows
  <1> HIDE DEF limited, semantic
  <1>4. ASSUME NEW place \in PlacesOf(Scoped, question.scope), Hits(question, semantic, place)
        PROVE  place.path \in r.hits
    BY <1>3, <1>4, ScopedTyped, SearchHits DEF searched
  <1>5. ASSUME question.kind = NoKind, NEW place \in PlacesOf(Scoped, question.scope),
               Matches(question.query, place.path, place.node)
        PROVE  place.path \in r.hits
    BY <1>4, <1>5 DEF Hits, KindMatches
  <1>6. ASSUME question.query = NoQuery, DerivationIsComplete(stored),
               Cardinality(ScopedFindings(question.scope)) <= MostSemantic,
               NEW shown \in Asked
        PROVE  shown.path \in r.hits
    <2>1. PICK place \in PlacesOf(Scoped, question.scope), f \in ScopedFindings(question.scope) :
              /\ shown.path = place.path /\ f.path = place.path
              /\ IsKind(question.kind, f.kind)
              /\ \A g \in ScopedFindings(question.scope) :
                    g.path = f.path => RankOf(f.kind) <= RankOf(g.kind)
      BY <1>6, AskedFound
    <2>2. f \in semantic
      BY <1>6, <2>1 DEF semantic, SemanticFindings, Foremost
    <2>3. Hits(question, semantic, place)
      BY <1>6, <2>1, <2>2 DEF Hits, KindMatches, Matches
    <2> QED  BY <1>4, <2>1, <2>3
  <1> QED  BY <1>5, <1>6

LEMMA InspectAccounts ==
    ASSUME IsAsked, NEW r, r = InspectReply(question), ~r.omitted,
           Cardinality(r.hits) < question.limit, DerivationIsComplete(stored),
           Cardinality(ScopedFindings(question.scope)) <= InspectedOf(question),
           NEW shown \in Asked
    PROVE  \E f \in r.hits : f.path = shown.path
  <1> DEFINE inspected == Foremost(ScopedFindings(question.scope), InspectedOf(question))
             found == {f \in inspected :
                          question.kind = NoKind \/ IsKind(question.kind, f.kind)}
  <1>1. inspected = ScopedFindings(question.scope)
    BY DEF Foremost
  <1>2. r = Bounded(Foremost(found, question.limit),
                    ExceedsNodeBudget(Target(question.scope)), question.fits)
    BY DEF InspectReply
  <1>3. IsFiniteSet(found)
    <2>1. IsFiniteSet(inspected)
      BY <1>1, ScopedTyped
    <2> HIDE DEF inspected
    <2> QED  BY <2>1, FS_Subset
  <1> HIDE DEF inspected, found
  <1>4. r.hits = Foremost(found, question.limit)
    BY <1>2, BoundedShows
  <1>5. r.hits = found
    BY <1>3, <1>4, ScopedTyped, FewerAreAll
  <1>6. PICK place \in PlacesOf(Scoped, question.scope), f \in ScopedFindings(question.scope) :
            /\ shown.path = place.path /\ f.path = place.path
            /\ IsKind(question.kind, f.kind)
            /\ \A g \in ScopedFindings(question.scope) :
                  g.path = f.path => RankOf(f.kind) <= RankOf(g.kind)
    BY AskedFound
  <1>7. f \in found
    BY <1>1, <1>6 DEF found
  <1> QED  BY <1>5, <1>6, <1>7

NavigationInvariant == IsAsked /\ NavigationAccounts

\* Whatever the payload, its bounds and those of a traversal: a listing of paths
\* that does not say it stopped has them all, a search every node that its query
\* matches; and of a payload that is derived from completely a find has every
\* string that shows what it asks for, and an inspection each of their findings
\* (navigation.rs, SearchTraversal::visit and semantic_findings, commands/paths.rs
\* and inspect_cursor).
THEOREM SearchesAccount == NavigationSpec => []NavigationAccounts
  <1>1. NavigationInit => NavigationInvariant
    BY DEF NavigationInit, FindingsInit, NavigationInvariant, IsAsked, NavigationAccounts
  <1>2. NavigationInvariant /\ [NavigationNext]_navigationVars => NavigationInvariant'
    <2> SUFFICES ASSUME NavigationInvariant, [NavigationNext]_navigationVars
                 PROVE  NavigationInvariant'
      OBVIOUS
    <2>1. CASE Ask
      <3>1. stored' = stored /\ question' = question /\ IsAsked
        BY <2>1 DEF Ask, NavigationInvariant
      <3>2. IsAsked'
        BY <3>1 DEF IsAsked
      <3>3. SUFFICES ASSUME NEW r, reply' = {r}, ~r.omitted,
                            question.what = "search" => r = SearchReply(question),
                            question.what = "inspect" => r = InspectReply(question),
                            question.what = "paths" => r = PathsReply(question)
                     PROVE  NavigationAccounts'
        <4>1. PICK r : /\ reply' = {r}
                       /\ question.what = "search" => r = SearchReply(question)
                       /\ question.what = "inspect" => r = InspectReply(question)
                       /\ question.what = "paths" => r = PathsReply(question)
          BY <2>1 DEF Ask
        <4>2. ASSUME r.omitted PROVE NavigationAccounts'
          BY <4>1, <4>2 DEF NavigationAccounts
        <4> QED  BY <3>2, <4>1, <4>2 DEF NavigationInvariant
      <3>4. question.what = "paths" => r.hits = PathsOf(Scoped, question.scope)
        BY <3>1, <3>3, PathsAccount
      <3>5. question.what = "search" /\ question.kind = NoKind =>
               \A place \in PlacesOf(Scoped, question.scope) :
                   Matches(question.query, place.path, place.node) => place.path \in r.hits
        BY <3>1, <3>3, SearchAccounts
      <3>6. (/\ question.what = "search" /\ question.query = NoQuery
             /\ DerivationIsComplete(stored)
             /\ Cardinality(ScopedFindings(question.scope)) <= MostSemantic) =>
               \A shown \in Asked : shown.path \in r.hits
        BY <3>1, <3>3, SearchAccounts
      <3>7. (/\ question.what = "inspect" /\ Cardinality(r.hits) < question.limit
             /\ DerivationIsComplete(stored)
             /\ Cardinality(ScopedFindings(question.scope)) <= InspectedOf(question)) =>
               \A shown \in Asked : \E f \in r.hits : f.path = shown.path
        BY <3>1, <3>3, InspectAccounts
      <3>8. /\ Scoped' = Scoped /\ Asked' = Asked
            /\ ScopedFindings(question.scope)' = ScopedFindings(question.scope)
        BY <3>1 DEF Scoped, Asked, ScopedFindings, Target
      <3> QED  BY <3>1, <3>3, <3>4, <3>5, <3>6, <3>7, <3>8 DEF NavigationAccounts
    <2>2. CASE UNCHANGED navigationVars
      <3>1. stored' = stored /\ question' = question /\ reply' = reply
        BY <2>2 DEF navigationVars
      <3>2. /\ Scoped' = Scoped /\ Asked' = Asked
            /\ ScopedFindings(question.scope)' = ScopedFindings(question.scope)
        BY <3>1 DEF Scoped, Asked, ScopedFindings, Target
      <3> QED  BY <3>1, <3>2 DEF NavigationInvariant, IsAsked, NavigationAccounts
    <2> QED  BY <2>1, <2>2 DEF NavigationNext
  <1>3. NavigationInvariant => NavigationAccounts
    BY DEF NavigationInvariant
  <1> QED  BY <1>1, <1>2, <1>3, PTL DEF NavigationSpec
=============================================================================
