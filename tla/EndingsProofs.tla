----------------------------- MODULE EndingsProofs -----------------------------
(***************************************************************************)
(* Theorems about the programs of MCEndings that must come to an end: the  *)
(* deadline guardian, for every project, the debate bridge, for every      *)
(* debate, and the amoCRM client that serves one call at a time; and of    *)
(* those that read a registry once.                                        *)
(***************************************************************************)
EXTENDS MCEndings, TLAPS, FiniteSetTheorems, SequenceTheorems, WellFoundedInduction

-----------------------------------------------------------------------------
(* The deadline guardian.  A comment is accounted for by a move of its     *)
(* card: by one that the project shows, or by one that somebody undid.     *)

\* A project of finitely many cards, read in pages, with times from 0 on.
Project == IsFiniteSet(Card) /\ PageSize \in Nat /\ MaxNow \in Nat

Listing == [1 .. Cardinality(Card) -> Card]
Found   == [card : Card, due : Nat, expired : BOOLEAN]
Counts  == [Card -> Nat]
Position == {"idle", "list", "card", "status", "comment", "assign"}

RunType == [pc : Position, now : Nat, page : Seq(Found), cursor : Card \cup {0},
            more : BOOLEAN, user : BOOLEAN]

BoardTyped ==
  /\ now \in Nat
  /\ expired \in SUBSET Card
  /\ due \in Counts
  /\ order \in Listing
  /\ comments \in Counts
  /\ returned \in Counts
  /\ run \in RunType

\* The project lists a card once, and so does a page; the cursor is a card of the project.
ListedOnce == \A m, n \in DOMAIN order : order[m] = order[n] => m = n
PageOnce   == \A m, n \in DOMAIN run.page : run.page[m].card = run.page[n].card => m = n
CursorListed == run.cursor # 0 => \E n \in DOMAIN order : order[n] = run.cursor

\* In the middle of a card there is one, and it was not in "Expired" when it was read.
InHand ==
  run.pc \in {"status", "comment", "assign"} =>
    run.page # <<>> /\ ~run.page[1].expired

\* The comments that card i has had an occasion for.
Occasions(i) == returned[i] + (IF i \in expired THEN 1 ELSE 0)

\* A card that is still to be moved has had no comment since it last went back.
Fresh(i) == comments[i] <= returned[i]

CommentsEarned == \A i \in Card : comments[i] <= Occasions(i)

PendingFresh ==
  \A n \in DOMAIN run.page :
    ~run.page[n].expired /\ (n > 1 \/ run.pc \in {"card", "status"}) => Fresh(run.page[n].card)

\* The comment to write next is one that the card has an occasion for.
CommentDue ==
  run.pc = "comment" => comments[run.page[1].card] + 1 <= Occasions(run.page[1].card)

GuardianInv ==
  /\ BoardTyped
  /\ ListedOnce /\ PageOnce /\ CursorListed
  /\ InHand
  /\ CommentsEarned /\ PendingFresh /\ CommentDue

BoardVars == <<now, expired, due, order, comments, assigned, run, moves, fails, returned>>

\* A page is listed once, and what it says is what was found.
LEMMA ListingSeq ==
  ASSUME Project, BoardTyped
  PROVE  /\ order \in Seq(Card)
         /\ Len(order) = Cardinality(Card)
         /\ Len(order) \in Nat
         /\ DOMAIN order = 1 .. Len(order)
<1>1. Cardinality(Card) \in Nat
  BY FS_CardinalityType DEF Project
<1>2. order \in [1 .. Cardinality(Card) -> Card]
  BY DEF BoardTyped, Listing
<1> QED
  BY <1>1, <1>2

\* SetToSeq lists a card once.
LEMMA FirstListing ==
  ASSUME Project
  PROVE  /\ Guardian!SetToSeq(Card) \in Listing
         /\ \A m, n \in DOMAIN Guardian!SetToSeq(Card) :
              Guardian!SetToSeq(Card)[m] = Guardian!SetToSeq(Card)[n] => m = n
<1>1. ExistsBijection(1 .. Cardinality(Card), Card)
  BY FS_CardinalityType DEF Project
<1>2. PICK f \in Bijection(1 .. Cardinality(Card), Card) : TRUE
  BY <1>1 DEF ExistsBijection
<1>3. f \in Listing /\ \A m, n \in DOMAIN f : f[m] = f[n] => m = n
  BY <1>2 DEF Bijection, Injection, IsInjective, Listing
<1>4. \E g \in Listing : Guardian!IsInjective(g)
  BY <1>3 DEF Guardian!IsInjective
<1>0. Guardian!Cardinality(Card) = Cardinality(Card)
  BY DEF Cardinality, Guardian!Cardinality
<1>5. /\ Guardian!SetToSeq(Card) \in Listing
      /\ Guardian!IsInjective(Guardian!SetToSeq(Card))
  BY <1>0, <1>4, Zenon DEF Guardian!SetToSeq, Listing
<1> QED
  BY <1>5 DEF Guardian!IsInjective

\* The cards after the cursor, and where they are listed.
LEMMA AfterFacts ==
  ASSUME Project, BoardTyped, CursorListed
  PROVE  LET rest == Guardian!After(run.cursor)
         IN  /\ rest \in Seq(Card)
             /\ \E d \in Nat : \A n \in 1 .. Len(rest) : n + d \in DOMAIN order /\ rest[n] = order[n + d]
<1>1. /\ order \in Seq(Card) /\ Len(order) \in Nat /\ DOMAIN order = 1 .. Len(order)
      /\ \A n \in 1 .. Len(order) : order[n] \in Card
  BY ListingSeq
<1>2. CASE run.cursor = 0
  <2>1. Guardian!After(run.cursor) = order
    BY <1>2 DEF Guardian!After
  <2>2. \A n \in 1 .. Len(order) : n + 0 \in DOMAIN order /\ order[n] = order[n + 0]
    BY <1>1
  <2> QED
    BY <2>1, <2>2, <1>1
<1>3. CASE run.cursor # 0
  <2> DEFINE k == CHOOSE n \in DOMAIN order : order[n] = run.cursor
  <2>1. k \in 1 .. Len(order)
    BY <1>1, <1>3 DEF CursorListed
  <2> HIDE DEF k
  <2>2. Guardian!After(run.cursor) = SubSeq(order, 1 + k, Len(order))
    BY <1>3 DEF Guardian!After, k
  <2>3. \A n \in 1 + k .. Len(order) : order[n] \in Card
    BY <1>1, <2>1
  <2>4. /\ SubSeq(order, 1 + k, Len(order)) \in Seq(Card)
        /\ Len(SubSeq(order, 1 + k, Len(order))) = IF 1 + k <= Len(order) THEN Len(order) - (1 + k) + 1 ELSE 0
        /\ \A n \in 1 .. Len(order) - (1 + k) + 1 : SubSeq(order, 1 + k, Len(order))[n] = order[1 + k + n - 1]
    <3>1. 1 + k \in Int /\ Len(order) \in Int
      BY <1>1, <2>1
    <3> QED
      BY <2>3, <3>1, SubSeqProperties
  <2>5. /\ Len(SubSeq(order, 1 + k, Len(order))) = Len(order) - k
        /\ \A n \in 1 .. Len(order) - k : SubSeq(order, 1 + k, Len(order))[n] = order[n + k]
    <3> DEFINE rest == SubSeq(order, 1 + k, Len(order))
    <3>1. /\ Len(rest) = IF 1 + k <= Len(order) THEN Len(order) - (1 + k) + 1 ELSE 0
          /\ \A n \in 1 .. Len(order) - (1 + k) + 1 : rest[n] = order[1 + k + n - 1]
      BY <2>4
    <3> HIDE DEF rest
    <3>2. Len(rest) = Len(order) - k
      <4>1. k \in Int /\ Len(order) \in Int /\ k <= Len(order)
        BY <1>1, <2>1
      <4>2. CASE 1 + k <= Len(order)
        <5>1. Len(rest) = Len(order) - (1 + k) + 1
          BY <3>1, <4>2
        <5> QED
          BY <4>1, <5>1
      <4>3. CASE ~(1 + k <= Len(order))
        <5>1. Len(rest) = 0
          BY <3>1, <4>3
        <5> QED
          BY <4>1, <4>3, <5>1
      <4> QED
        BY <4>2, <4>3
    <3>3. ASSUME NEW n \in 1 .. Len(order) - k PROVE rest[n] = order[n + k]
      <4>1. n \in 1 .. Len(order) - (1 + k) + 1 /\ 1 + k + n - 1 = n + k
        BY <1>1, <2>1
      <4> QED
        BY <3>1, <4>1
    <3> QED
      BY <3>2, <3>3 DEF rest
  <2>6. \A n \in 1 .. Len(order) - k : n + k \in DOMAIN order
    BY <1>1, <2>1
  <2> DEFINE rest == SubSeq(order, 1 + k, Len(order))
  <2>7. \A n \in 1 .. Len(rest) : n + k \in DOMAIN order /\ rest[n] = order[n + k]
    BY <2>5, <2>6
  <2>8. k \in Nat /\ rest \in Seq(Card)
    BY <1>1, <2>1, <2>4
  <2> HIDE DEF rest
  <2>9. \E d \in Nat : \A n \in 1 .. Len(rest) : n + d \in DOMAIN order /\ rest[n] = order[n + d]
    BY <2>7, <2>8
  <2>10. Guardian!After(run.cursor) = rest
    BY <2>2 DEF rest
  <2> QED
    BY <2>8, <2>9, <2>10
<1> QED
  BY <1>2, <1>3

\* A page, and what is read into it.
PageOf(rest) ==
  [n \in {n \in DOMAIN rest : n <= PageSize} |->
     [card |-> rest[n], due |-> due[rest[n]], expired |-> rest[n] \in expired]]

\* A page says of each card what is so, each card once, and ends with a card of the project.
LEMMA PageFacts ==
  ASSUME Project, BoardTyped, ListedOnce, CursorListed
  PROVE  LET page == PageOf(Guardian!After(run.cursor))
         IN  /\ page \in Seq(Found)
             /\ \A m, n \in DOMAIN page : page[m].card = page[n].card => m = n
             /\ \A n \in DOMAIN page :
                  /\ page[n].card \in Card /\ page[n].expired = (page[n].card \in expired)
                  /\ \E l \in DOMAIN order : order[l] = page[n].card
<1> DEFINE rest == Guardian!After(run.cursor)
           page == PageOf(rest)
<1>1. rest \in Seq(Card) /\ Len(rest) \in Nat /\ DOMAIN rest = 1 .. Len(rest)
  BY AfterFacts
<1>2. PICK d \in Nat : \A n \in 1 .. Len(rest) : n + d \in DOMAIN order /\ rest[n] = order[n + d]
  BY AfterFacts
<1> HIDE DEF rest
<1> DEFINE k == IF Len(rest) <= PageSize THEN Len(rest) ELSE PageSize
<1>3. k \in Nat /\ k <= Len(rest) /\ {n \in DOMAIN rest : n <= PageSize} = 1 .. k
  BY <1>1 DEF Project
<1> HIDE DEF k
<1>4. page = [n \in 1 .. k |-> [card |-> rest[n], due |-> due[rest[n]], expired |-> rest[n] \in expired]]
  BY <1>3 DEF PageOf
<1>5. \A n \in 1 .. k : rest[n] \in Card
  BY <1>1, <1>3
<1>6. \A n \in 1 .. k : [card |-> rest[n], due |-> due[rest[n]], expired |-> rest[n] \in expired] \in Found
  BY <1>5 DEF BoardTyped, Counts, Found
<1>7. page \in [1 .. k -> Found]
  BY <1>4, <1>6
<1>8. page \in Seq(Found)
  BY <1>3, <1>7
<1>9. ASSUME NEW n \in 1 .. k
      PROVE  /\ page[n].card = rest[n] /\ rest[n] \in Card /\ page[n].expired = (rest[n] \in expired)
             /\ n + d \in DOMAIN order /\ rest[n] = order[n + d]
  BY <1>2, <1>3, <1>4, <1>5
<1>10. DOMAIN page = 1 .. k
  BY <1>4
<1> HIDE DEF page
<1>11. ASSUME NEW m \in 1 .. k, NEW n \in 1 .. k, page[m].card = page[n].card PROVE m = n
  <2>1. m + d \in DOMAIN order /\ n + d \in DOMAIN order /\ order[m + d] = order[n + d]
    BY <1>9, <1>11
  <2>2. m + d = n + d
    BY <2>1 DEF ListedOnce
  <2> QED
    BY <1>2, <1>3, <2>2
<1>12. \A n \in 1 .. k :
         /\ page[n].card \in Card /\ page[n].expired = (page[n].card \in expired)
         /\ \E l \in DOMAIN order : order[l] = page[n].card
  BY <1>9
<1> QED
  BY <1>8, <1>10, <1>11, <1>12 DEF page, rest

\* ReadPage leaves the cursor on a card of the project.
LEMMA ReadPageTyped ==
  ASSUME Project, BoardTyped, ListedOnce, CursorListed, Guardian!ReadPage
  PROVE  /\ run'.page = PageOf(Guardian!After(run.cursor))
         /\ run' \in RunType /\ CursorListed' /\ run'.pc = "card"
<1> DEFINE page == PageOf(Guardian!After(run.cursor))
<1>1. /\ page \in Seq(Found)
      /\ \A n \in DOMAIN page : page[n].card \in Card /\ \E l \in DOMAIN order : order[l] = page[n].card
  BY PageFacts
<1>2. Guardian!After(run.cursor) \in Seq(Card)
  BY AfterFacts
<1> DEFINE next == IF page = <<>> THEN run.cursor ELSE Guardian!Last(page).card
           more == Len(Guardian!After(run.cursor)) > PageSize
<1>0. run' = [run EXCEPT !.page = page, !.more = more, !.pc = "card", !.cursor = next]
  <2>1. run' = [run EXCEPT !.page = page, !.more = more, !.pc = "card",
                           !.cursor = IF page = <<>> THEN @ ELSE Guardian!Last(page).card]
    BY Zenon DEF Guardian!ReadPage, Guardian!Listed, PageOf
  <2> HIDE DEF page, more
  <2> QED
    BY <2>1
<1>3. PICK b \in BOOLEAN : run' = [run EXCEPT !.page = page, !.more = b, !.pc = "card", !.cursor = next]
  <2>1. more \in BOOLEAN
    OBVIOUS
  <2> HIDE DEF page, more, next
  <2> QED
    BY <1>0, <2>1, Zenon
<1>4. order' = order
  BY DEF Guardian!ReadPage, Guardian!cards
<1>7. "card" \in Position /\ run \in RunType
  BY DEF Position, BoardTyped
<1> HIDE DEF page, more
<1>5. CASE page = <<>>
  <2>1. next = run.cursor /\ next \in Card \cup {0}
    BY <1>5, <1>7 DEF RunType
  <2> HIDE DEF next
  <2>2. run' \in RunType /\ run'.page = page /\ run'.pc = "card" /\ run'.cursor = next
    <3>1. page \in Seq(Found)
      BY <1>1
    <3> QED
      BY <1>3, <1>7, <2>1, <3>1 DEF RunType, Position
  <2> QED
    BY <2>1, <2>2, <1>4 DEF CursorListed, page
<1>6. CASE page # <<>>
  <2>1. Len(page) \in DOMAIN page
    BY <1>1, <1>6
  <2>2. Guardian!Last(page) = page[Len(page)]
    BY DEF Guardian!Last
  <2>3. PICK c \in Card : c = Guardian!Last(page).card /\ \E l \in DOMAIN order : order[l] = c
    BY <1>1, <2>1, <2>2
  <2>4. next = c /\ next \in Card \cup {0}
    BY <1>6, <2>3
  <2> HIDE DEF next
  <2>5. run' \in RunType /\ run'.page = page /\ run'.pc = "card" /\ run'.cursor = next
    <3>1. page \in Seq(Found)
      BY <1>1
    <3> QED
      BY <1>3, <1>7, <2>4, <3>1 DEF RunType, Position
  <2> QED
    BY <2>3, <2>4, <2>5, <1>4 DEF CursorListed, page
<1> QED
  BY <1>5, <1>6

LEMMA PageRest ==
  ASSUME BoardTyped, run.page # <<>>
  PROVE  /\ 1 \in DOMAIN run.page /\ run.page[1] \in Found /\ Guardian!Item = run.page[1]
         /\ Tail(run.page) \in Seq(Found)
         /\ \A n \in DOMAIN Tail(run.page) : n \in Nat /\ n >= 1 /\ n + 1 \in DOMAIN run.page /\ Tail(run.page)[n] = run.page[n + 1]
<1>1. run.page \in Seq(Found)
  BY DEF BoardTyped, RunType
<1>2. /\ Len(run.page) \in Nat \ {0} /\ DOMAIN run.page = 1 .. Len(run.page)
      /\ \A n \in 1 .. Len(run.page) : run.page[n] \in Found
      /\ Head(run.page) = run.page[1]
  BY <1>1
<1>3. /\ Tail(run.page) \in Seq(Found) /\ Len(Tail(run.page)) = Len(run.page) - 1
      /\ \A n \in 1 .. Len(Tail(run.page)) : Tail(run.page)[n] = run.page[n + 1]
  BY <1>1, HeadTailProperties
<1>4. DOMAIN Tail(run.page) = 1 .. Len(run.page) - 1
  BY <1>3
<1>5. 1 \in DOMAIN run.page /\ run.page[1] \in Found /\ Guardian!Item = run.page[1]
  BY <1>2 DEF Guardian!Item
<1>6. ASSUME NEW n \in DOMAIN Tail(run.page)
      PROVE  n \in Nat /\ n >= 1 /\ n + 1 \in DOMAIN run.page /\ Tail(run.page)[n] = run.page[n + 1]
  <2>1. n \in 1 .. Len(run.page) - 1 /\ n \in 1 .. Len(Tail(run.page))
    BY <1>3, <1>4, <1>6
  <2>2. n \in Nat /\ n >= 1 /\ n + 1 \in 1 .. Len(run.page)
    BY <1>2, <2>1
  <2> QED
    BY <1>2, <1>3, <2>1, <2>2
<1> QED
  BY <1>3, <1>5, <1>6

\* What the run has to keep.
RunInv == run \in RunType /\ PageOnce /\ CursorListed /\ InHand /\ PendingFresh /\ CommentDue

LEMMA DoneKeeps ==
  ASSUME GuardianInv, run.page # <<>>, Guardian!Done, order' = order, returned' = returned,
         \A i \in Card : i # run.page[1].card => comments'[i] = comments[i]
  PROVE  RunInv'
<1>1. run' \in RunType /\ run'.page = Tail(run.page) /\ run'.pc = "card" /\ run'.cursor = run.cursor
  BY PageRest DEF GuardianInv, BoardTyped, RunType, Position, Guardian!Done
<1>2. /\ 1 \in DOMAIN run.page
      /\ \A n \in DOMAIN run'.page : n \in Nat /\ n >= 1 /\ n + 1 \in DOMAIN run.page /\ run'.page[n] = run.page[n + 1]
  BY <1>1, PageRest DEF GuardianInv
<1>3. PageOnce'
  <2>1. ASSUME NEW m \in DOMAIN run'.page, NEW n \in DOMAIN run'.page, run'.page[m].card = run'.page[n].card
        PROVE  m = n
    <3>1. m \in Nat /\ n \in Nat
      BY <1>2
    <3>2. m + 1 = n + 1
      BY <1>2, <2>1 DEF GuardianInv, PageOnce
    <3> QED
      BY <3>1, <3>2
  <2> QED
    BY <2>1 DEF PageOnce
<1>4. ASSUME NEW n \in DOMAIN run'.page, ~run'.page[n].expired
      PROVE  comments'[run'.page[n].card] <= returned'[run'.page[n].card]
  <2> DEFINE c == run.page[n + 1].card
  <2>1. n + 1 \in DOMAIN run.page /\ run'.page[n] = run.page[n + 1] /\ n + 1 > 1 /\ n + 1 # 1
    BY <1>2, <1>4
  <2>2. comments[c] <= returned[c]
    BY <1>4, <2>1 DEF GuardianInv, PendingFresh, Fresh
  <2>3. c # run.page[1].card
    BY <1>2, <2>1 DEF GuardianInv, PageOnce
  <2>4. c \in Card
    <3>1. run.page \in Seq(Found)
      BY DEF GuardianInv, BoardTyped, RunType
    <3>2. run.page[n + 1] \in Found
      BY <2>1, <3>1
    <3> QED
      BY <3>2 DEF Found
  <2> QED
    BY <2>1, <2>2, <2>3, <2>4
<1> QED
  BY <1>1, <1>3, <1>4 DEF GuardianInv, RunInv, CursorListed, InHand, PendingFresh, Fresh, CommentDue

\* A run that is over has nothing in hand.
LEMMA IdleKeeps == ASSUME Project, run' = Guardian!Idle PROVE RunInv'
<1>1. /\ run'.pc = "idle" /\ run'.now = 0 /\ run'.page = <<>> /\ run'.cursor = 0
      /\ run' \in RunType
  BY DEF Guardian!Idle, RunType, Position
<1> QED
  BY <1>1 DEF RunInv, PageOnce, CursorListed, InHand, PendingFresh, CommentDue

\* A call that leads to the next one of the same card.
LEMMA GotoKeeps ==
  ASSUME GuardianInv, NEW p \in {"status", "comment", "assign"}, Guardian!Goto(p), order' = order,
         run.page # <<>>, ~run.page[1].expired, returned' = returned,
         \A i \in Card : i # run.page[1].card => comments'[i] = comments[i],
         p = "status" => run.pc = "card" /\ comments' = comments,
         p = "comment" => CommentDue'
  PROVE  RunInv'
<1>1. run' \in RunType /\ run'.page = run.page /\ run'.pc = p /\ run'.cursor = run.cursor
  BY DEF GuardianInv, BoardTyped, RunType, Position, Guardian!Goto
<1>2. 1 \in DOMAIN run.page
  BY PageRest DEF GuardianInv
<1>3. ASSUME NEW n \in DOMAIN run.page, ~run.page[n].expired, n > 1 \/ p = "status"
      PROVE  comments'[run.page[n].card] <= returned'[run.page[n].card]
  <2>1. comments[run.page[n].card] <= returned[run.page[n].card]
    BY <1>3 DEF GuardianInv, PendingFresh, Fresh
  <2>2. run.page[n].card \in Card /\ n \in Nat
    <3>1. run.page \in Seq(Found)
      BY DEF GuardianInv, BoardTyped, RunType
    <3>2. run.page[n] \in Found /\ n \in Nat
      BY <1>3, <3>1
    <3> QED
      BY <3>2 DEF Found
  <2>3. CASE p = "status"
    BY <2>1, <2>3
  <2>4. CASE n > 1
    <3>1. run.page[n].card # run.page[1].card
      BY <1>2, <2>2, <2>4 DEF GuardianInv, PageOnce
    <3> QED
      BY <2>1, <2>2, <3>1
  <2> QED
    BY <1>3, <2>3, <2>4
<1>4. PendingFresh'
  BY <1>1, <1>3 DEF PendingFresh, Fresh
<1>5. CommentDue'
  BY <1>1 DEF CommentDue
<1> QED
  BY <1>1, <1>4, <1>5 DEF GuardianInv, RunInv, PageOnce, CursorListed, InHand

\* What gives a card no less occasion for comments takes nothing from the run.
LEMMA OnwardKeeps ==
  ASSUME GuardianInv, UNCHANGED <<now, order, comments, run>>,
         expired' \in SUBSET Card, due' \in Counts, returned' \in Counts,
         \A c \in Card : Occasions(c)' >= Occasions(c) /\ returned'[c] >= returned[c]
  PROVE  GuardianInv'
<1>1. /\ run.page \in Seq(Found) /\ comments \in Counts /\ returned \in Counts
      /\ \A n \in DOMAIN run.page : run.page[n].card \in Card
  <2>1. run.page \in Seq(Found) /\ comments \in Counts /\ returned \in Counts
    BY DEF GuardianInv, BoardTyped, RunType
  <2>2. \A n \in DOMAIN run.page : run.page[n] \in Found
    BY <2>1
  <2> QED
    BY <2>1, <2>2 DEF Found
<1>2. \A c \in Card : /\ comments[c] \in Nat /\ returned[c] \in Nat /\ returned'[c] \in Nat
                      /\ Occasions(c) \in Nat /\ Occasions(c)' \in Nat
  BY <1>1 DEF Counts, Occasions
<1>3. BoardTyped' /\ ListedOnce' /\ PageOnce' /\ CursorListed' /\ InHand'
  BY DEF GuardianInv, BoardTyped, ListedOnce, PageOnce, CursorListed, InHand
<1>4. CommentsEarned'
  <2>1. ASSUME NEW c \in Card PROVE comments'[c] <= Occasions(c)'
    <3>1. comments[c] <= Occasions(c) /\ Occasions(c)' >= Occasions(c)
      BY DEF GuardianInv, CommentsEarned
    <3> HIDE DEF Occasions
    <3> QED
      BY <1>2, <3>1
  <2> QED
    BY <2>1 DEF CommentsEarned
<1>5. PendingFresh'
  <2>1. ASSUME NEW c \in Card, comments[c] <= returned[c] PROVE comments'[c] <= returned'[c]
    BY <1>2, <2>1
  <2> QED
    BY <1>1, <2>1 DEF GuardianInv, PendingFresh, Fresh
<1>6. CommentDue'
  <2>1. ASSUME run.pc = "comment" PROVE comments[run.page[1].card] + 1 <= Occasions(run.page[1].card)'
    <3> DEFINE c == run.page[1].card
    <3>1. c \in Card
      BY <1>1, <2>1, PageRest DEF GuardianInv, InHand
    <3>2. comments[c] + 1 <= Occasions(c) /\ Occasions(c)' >= Occasions(c)
      BY <2>1, <3>1 DEF GuardianInv, CommentDue
    <3> QED
      BY <1>2, <3>1, <3>2
  <2> QED
    BY <2>1 DEF CommentDue, Occasions
<1> QED
  BY <1>3, <1>4, <1>5, <1>6 DEF GuardianInv

\* A card that is put first changes places with none but those before it.
LEMMA MoveKeeps ==
  ASSUME Project, GuardianInv, NEW n \in DOMAIN order, order' = Guardian!ToFront(n), run' = run
  PROVE  order' \in Listing /\ ListedOnce' /\ CursorListed'
<1> DEFINE g(k) == IF k = 1 THEN n ELSE IF k <= n THEN k - 1 ELSE k
           last == Len(order)
<1>1. last \in Nat /\ last = Cardinality(Card) /\ DOMAIN order = 1 .. last /\ order \in Listing /\ n \in 1 .. last
  BY ListingSeq DEF GuardianInv, BoardTyped
<1> HIDE DEF last
<1>2. ASSUME NEW k \in 1 .. last PROVE g(k) \in 1 .. last
  BY <1>1
<1>3. ASSUME NEW j \in 1 .. last, NEW k \in 1 .. last, g(j) = g(k) PROVE j = k
  BY <1>1, <1>3
<1>4. ASSUME NEW m \in 1 .. last PROVE \E k \in 1 .. last : g(k) = m
  <2>1. CASE m = n
    <3>1. 1 \in 1 .. last /\ g(1) = m
      BY <1>1, <2>1
    <3> QED
      BY <3>1
  <2>2. CASE m < n
    <3>1. m + 1 \in 1 .. last /\ g(m + 1) = m
      BY <1>1, <2>2
    <3> QED
      BY <3>1
  <2>3. CASE m > n
    <3>1. g(m) = m
      BY <1>1, <2>3
    <3> QED
      BY <3>1
  <2> QED
    BY <1>1, <2>1, <2>2, <2>3
<1>5. order' = [k \in 1 .. last |-> order[g(k)]]
  BY <1>1 DEF Guardian!ToFront
<1> HIDE DEF g
<1>6. DOMAIN order' = 1 .. last /\ \A k \in 1 .. last : order'[k] = order[g(k)] /\ order'[k] \in Card
  BY <1>1, <1>2, <1>5 DEF Listing
<1>7. order' \in Listing
  BY <1>1, <1>5, <1>6 DEF Listing
<1>8. ListedOnce'
  <2>1. ASSUME NEW j \in 1 .. last, NEW k \in 1 .. last, order'[j] = order'[k] PROVE j = k
    <3>1. g(j) = g(k)
      BY <1>1, <1>2, <1>6, <2>1 DEF GuardianInv, ListedOnce
    <3> QED
      BY <1>3, <3>1
  <2> QED
    BY <1>6, <2>1 DEF ListedOnce
<1>9. ASSUME run.cursor # 0 PROVE \E k \in DOMAIN order' : order'[k] = run.cursor
  <2>1. PICK m \in 1 .. last : order[m] = run.cursor
    BY <1>1, <1>9 DEF GuardianInv, CursorListed
  <2>2. PICK k \in 1 .. last : g(k) = m
    BY <1>4
  <2> QED
    BY <1>6, <2>1, <2>2
<1> QED
  BY <1>7, <1>8, <1>9 DEF CursorListed

LEMMA PersonKeeps ==
  ASSUME Project, GuardianInv, NEW i \in Card, Guardian!Person(i)
  PROVE  GuardianInv'
<1>1. /\ now' = now /\ comments' = comments /\ run' = run
      /\ now \in Nat /\ expired \in SUBSET Card /\ due \in Counts /\ order \in Listing
      /\ comments \in Counts /\ returned \in Counts /\ run \in RunType
  BY DEF Guardian!Person, GuardianInv, BoardTyped
<1>2. CASE i \in expired /\ expired' = expired \ {i} /\ returned' = [returned EXCEPT ![i] = @ + 1]
           /\ UNCHANGED <<due, order>>
  <2>1. /\ returned' \in Counts
        /\ \A c \in Card : returned'[c] = IF c = i THEN returned[c] + 1 ELSE returned[c]
    BY <1>1, <1>2 DEF Counts
  <2>2. \A c \in Card : Occasions(c)' >= Occasions(c) /\ returned'[c] >= returned[c]
    BY <1>1, <1>2, <2>1 DEF Occasions, Counts
  <2> QED
    BY <1>1, <1>2, <2>1, <2>2, OnwardKeeps
<1>3. CASE i \notin expired /\ expired' = expired \cup {i} /\ UNCHANGED <<due, order, returned>>
  <2>1. \A c \in Card : Occasions(c)' >= Occasions(c) /\ returned'[c] >= returned[c]
    BY <1>1, <1>3 DEF Occasions, Counts
  <2> QED
    BY <1>1, <1>3, <2>1, OnwardKeeps
<1>4. CASE /\ due' = [due EXCEPT ![i] = IF @ = Guardian!None THEN now ELSE Guardian!None]
           /\ UNCHANGED <<expired, order, returned>>
  <2>1. due' \in Counts
    BY <1>1, <1>4 DEF Counts, Guardian!None, Project
  <2>2. \A c \in Card : Occasions(c)' >= Occasions(c) /\ returned'[c] >= returned[c]
    BY <1>1, <1>4 DEF Occasions, Counts
  <2> QED
    BY <1>1, <1>4, <2>1, <2>2, OnwardKeeps
<1>5. ASSUME NEW n \in DOMAIN order, order' = Guardian!ToFront(n), UNCHANGED <<expired, due, returned>>
      PROVE  GuardianInv'
  <2>1. order' \in Listing /\ ListedOnce' /\ CursorListed'
    BY <1>1, <1>5, MoveKeeps
  <2>2. /\ PageOnce' /\ InHand' /\ CommentsEarned' /\ PendingFresh' /\ CommentDue'
    BY <1>1, <1>5 DEF GuardianInv, PageOnce, InHand, CommentsEarned, PendingFresh, CommentDue, Fresh, Occasions
  <2> QED
    BY <1>1, <1>5, <2>1, <2>2 DEF GuardianInv, BoardTyped
<1> QED
  BY <1>2, <1>3, <1>4, <1>5 DEF Guardian!Person

\* The steps of the run that write no comment.
LEMMA QuietKeeps ==
  ASSUME GuardianInv, RunInv', UNCHANGED <<now, due, order, comments, returned>>,
         expired' \in SUBSET Card, expired \subseteq expired'
  PROVE  GuardianInv'
<1>1. BoardTyped' /\ ListedOnce'
  BY DEF GuardianInv, BoardTyped, RunInv, ListedOnce
<1>2. ASSUME NEW c \in Card PROVE comments'[c] <= Occasions(c)'
  <2>1. comments[c] \in Nat /\ returned[c] \in Nat /\ comments[c] <= Occasions(c)
    BY DEF GuardianInv, BoardTyped, Counts, CommentsEarned
  <2> QED
    BY <2>1 DEF Occasions
<1> QED
  BY <1>1, <1>2 DEF GuardianInv, RunInv, CommentsEarned

\* A comment that is due, written or not.
LEMMA CommentKeeps ==
  ASSUME GuardianInv, run.pc = "comment", RunInv', UNCHANGED <<now, expired, due, order, returned>>,
         comments' = comments \/ comments' = Guardian!Commented(Guardian!Item.card)
  PROVE  GuardianInv'
<1> DEFINE c == run.page[1].card
<1>1. c \in Card /\ Guardian!Item.card = c
  BY PageRest DEF GuardianInv, InHand, Found
<1>2. comments \in Counts /\ returned \in Counts
  BY DEF GuardianInv, BoardTyped
<1>3. /\ comments' \in Counts
      /\ comments'[c] = comments[c] \/ comments'[c] = comments[c] + 1
      /\ \A i \in Card : i # c => comments'[i] = comments[i]
  BY <1>1, <1>2 DEF Guardian!Commented, Counts
<1>4. BoardTyped' /\ ListedOnce'
  BY <1>3 DEF GuardianInv, BoardTyped, RunInv, ListedOnce
<1>5. ASSUME NEW i \in Card PROVE comments'[i] <= Occasions(i)'
  <2>1. /\ comments[i] <= Occasions(i) /\ comments[i] \in Nat
        /\ returned[i] \in Nat /\ Occasions(i) \in Nat /\ Occasions(i)' = Occasions(i)
    BY <1>2 DEF GuardianInv, CommentsEarned, Counts, Occasions
  <2>2. CASE i = c
    <3>1. comments[i] + 1 <= Occasions(i)
      BY <2>2 DEF GuardianInv, CommentDue
    <3> QED
      BY <1>3, <2>1, <2>2, <3>1
  <2> QED
    BY <1>3, <2>1, <2>2
<1> QED
  BY <1>4, <1>5 DEF GuardianInv, RunInv, CommentsEarned

\* Every call of the job, done, failed or lost.
LEMMA RunKeeps ==
  ASSUME Project, GuardianInv, Guardian!Start \/ Guardian!Work \/ Guardian!CallFails
  PROVE  GuardianInv'
<1> USE DEF Guardian!cards
<1>1. BoardTyped /\ ListedOnce /\ PageOnce /\ CursorListed /\ run \in RunType
  BY DEF GuardianInv, BoardTyped
<1>2. \A c \in Card : comments'[c] = comments[c] => comments'[c] = comments[c]
  OBVIOUS
<1>3. CASE Guardian!Start
  <2>1. PICK user \in BOOLEAN : run' = [Guardian!Idle EXCEPT !.pc = "list", !.now = now, !.user = user]
    BY <1>3 DEF Guardian!Start
  <2>2. run'.pc = "list" /\ run'.page = <<>> /\ run'.cursor = 0 /\ run' \in RunType
    <3>1. Guardian!Idle \in RunType /\ Guardian!Idle.page = <<>> /\ Guardian!Idle.cursor = 0
      BY DEF Guardian!Idle, RunType, Position
    <3>2. now \in Nat /\ "list" \in Position
      BY <1>1 DEF BoardTyped, Position
    <3> QED
      BY <2>1, <3>1, <3>2 DEF RunType
  <2>3. RunInv'
    BY <2>2 DEF RunInv, PageOnce, CursorListed, InHand, PendingFresh, CommentDue
  <2> QED
    BY <1>1, <1>3, <2>3, QuietKeeps DEF Guardian!Start, BoardTyped
<1>4. CASE Guardian!ReadPage
  <2>1. run'.page = PageOf(Guardian!After(run.cursor)) /\ run' \in RunType /\ CursorListed' /\ run'.pc = "card"
    BY <1>1, <1>4, ReadPageTyped
  <2>2. UNCHANGED <<now, expired, due, order, comments, returned>>
    BY <1>4 DEF Guardian!ReadPage
  <2>3. /\ \A m, n \in DOMAIN run'.page : run'.page[m].card = run'.page[n].card => m = n
        /\ \A n \in DOMAIN run'.page : run'.page[n].card \in Card /\ run'.page[n].expired = (run'.page[n].card \in expired)
    BY <1>1, <2>1, PageFacts
  <2>4. ASSUME NEW n \in DOMAIN run'.page, ~run'.page[n].expired
        PROVE  comments[run'.page[n].card] <= returned[run'.page[n].card]
    <3> DEFINE c == run'.page[n].card
    <3>1. c \in Card /\ c \notin expired
      BY <2>3, <2>4
    <3>2. comments[c] <= Occasions(c) /\ returned[c] \in Nat
      BY <3>1 DEF GuardianInv, CommentsEarned, BoardTyped, Counts
    <3> QED
      BY <3>1, <3>2 DEF Occasions
  <2>5. RunInv'
    BY <2>1, <2>2, <2>3, <2>4 DEF RunInv, PageOnce, InHand, PendingFresh, Fresh, CommentDue
  <2> QED
    BY <1>1, <2>2, <2>5, QuietKeeps DEF BoardTyped
<1>5. CASE Guardian!PageDone
  <2>1. UNCHANGED <<now, expired, due, order, comments, returned>> /\ run.page = <<>>
    BY <1>5 DEF Guardian!PageDone
  <2>2. CASE run' = Guardian!Idle
    BY <1>1, <2>1, <2>2, IdleKeeps, QuietKeeps DEF BoardTyped
  <2>3. CASE Guardian!Goto("list")
    <3>1. run'.pc = "list" /\ run'.page = <<>> /\ run'.cursor = run.cursor /\ run' \in RunType
      BY <1>1, <2>1, <2>3 DEF Guardian!Goto, RunType, Position
    <3>2. RunInv'
      BY <1>1, <2>1, <3>1 DEF RunInv, PageOnce, CursorListed, InHand, PendingFresh, CommentDue
    <3> QED
      BY <1>1, <2>1, <3>2, QuietKeeps DEF BoardTyped
  <2> QED
    BY <1>5, <2>2, <2>3 DEF Guardian!PageDone
<1>6. CASE Guardian!Examine
  <2>1. UNCHANGED <<now, expired, due, order, comments, returned>> /\ run.page # <<>> /\ run.pc = "card"
    BY <1>6 DEF Guardian!Examine
  <2>2. CASE Guardian!Done
    BY <1>1, <2>1, <2>2, DoneKeeps, QuietKeeps DEF BoardTyped
  <2>3. CASE Guardian!Late /\ Guardian!Goto("status")
    <3>1. ~run.page[1].expired
      BY <1>1, <2>1, <2>3, PageRest DEF Guardian!Late
    <3>2. RunInv'
      BY <2>1, <2>3, <3>1, GotoKeeps
    <3> QED
      BY <1>1, <2>1, <3>2, QuietKeeps DEF BoardTyped
  <2> QED
    BY <1>6, <2>2, <2>3 DEF Guardian!Examine
<1>7. CASE Guardian!SetStatus
  <2>1. /\ UNCHANGED <<now, due, order, comments, returned>> /\ run.pc = "status"
        /\ run.page # <<>> /\ ~run.page[1].expired
        /\ expired' = expired \cup {Guardian!Item.card}
    BY <1>7 DEF Guardian!SetStatus, GuardianInv, InHand
  <2>2. run.page[1].card \in Card /\ Guardian!Item.card = run.page[1].card
    BY <1>1, <2>1, PageRest DEF Found
  <2>3. expired' \in SUBSET Card /\ expired \subseteq expired' /\ run.page[1].card \in expired'
    BY <1>1, <2>1, <2>2 DEF BoardTyped
  <2>4. CASE Guardian!Done
    BY <1>1, <2>1, <2>3, <2>4, DoneKeeps, QuietKeeps
  <2>5. CASE Guardian!Goto("comment")
    <3>1. run'.page = run.page
      BY <1>1, <2>5 DEF Guardian!Goto, RunType
    <3>2. comments[run.page[1].card] <= returned[run.page[1].card]
      BY <1>1, <2>1, PageRest DEF GuardianInv, PendingFresh, Fresh
    <3>3. comments[run.page[1].card] \in Nat /\ returned[run.page[1].card] \in Nat
      BY <1>1, <2>2 DEF BoardTyped, Counts
    <3>4. CommentDue'
      BY <2>1, <2>3, <3>1, <3>2, <3>3 DEF CommentDue, Occasions
    <3>5. RunInv'
      BY <2>1, <2>5, <3>4, GotoKeeps
    <3> QED
      BY <2>1, <2>3, <3>5, QuietKeeps
  <2> QED
    BY <1>7, <2>4, <2>5 DEF Guardian!SetStatus
<1>8. CASE Guardian!Comment
  <2>1. /\ UNCHANGED <<now, expired, due, order, returned>> /\ run.pc = "comment"
        /\ run.page # <<>> /\ ~run.page[1].expired
        /\ comments' = Guardian!Commented(Guardian!Item.card)
    BY <1>8 DEF Guardian!Comment, GuardianInv, InHand
  <2>2. \A i \in Card : i # run.page[1].card => comments'[i] = comments[i]
    BY <1>1, <2>1, PageRest DEF Guardian!Commented, BoardTyped, Counts
  <2>3. CASE Guardian!Done
    BY <2>1, <2>2, <2>3, DoneKeeps, CommentKeeps
  <2>4. CASE Guardian!Goto("assign")
    <3>1. RunInv'
      BY <2>1, <2>2, <2>4, GotoKeeps
    <3> QED
      BY <2>1, <3>1, CommentKeeps
  <2> QED
    BY <1>8, <2>3, <2>4 DEF Guardian!Comment
<1>9. CASE Guardian!Assign
  <2>1. UNCHANGED <<now, expired, due, order, comments, returned>> /\ run.page # <<>> /\ Guardian!Done
    BY <1>9 DEF Guardian!Assign, GuardianInv, InHand
  <2> QED
    BY <1>1, <2>1, DoneKeeps, QuietKeeps DEF BoardTyped
<1>10. CASE Guardian!Refuse
  <2>1. UNCHANGED <<now, expired, due, order, comments, returned>> /\ run' = Guardian!Idle
    BY <1>10 DEF Guardian!Refuse
  <2> QED
    BY <1>1, <2>1, IdleKeeps, QuietKeeps DEF BoardTyped
<1>11. CASE Guardian!CallFails
  <2>1. UNCHANGED <<now, due, order, returned>> /\ run' = Guardian!Idle
    BY <1>11 DEF Guardian!CallFails
  <2>2. RunInv'
    BY <2>1, IdleKeeps
  <2>3. \/ comments' = comments /\ expired' = expired
        \/ comments' = comments /\ run.pc = "status" /\ expired' = expired \cup {Guardian!Item.card}
        \/ expired' = expired /\ run.pc = "comment" /\ comments' = Guardian!Commented(Guardian!Item.card)
    BY <1>11 DEF Guardian!CallFails
  <2>4. CASE comments' = comments /\ expired' = expired
    BY <1>1, <2>1, <2>2, <2>4, QuietKeeps DEF BoardTyped
  <2>5. CASE comments' = comments /\ run.pc = "status" /\ expired' = expired \cup {Guardian!Item.card}
    <3>1. Guardian!Item.card \in Card
      BY <1>1, <2>5, PageRest DEF GuardianInv, InHand, Found
    <3>2. expired' \in SUBSET Card /\ expired \subseteq expired'
      BY <1>1, <2>5, <3>1 DEF BoardTyped
    <3> QED
      BY <2>1, <2>2, <2>5, <3>2, QuietKeeps
  <2>6. CASE expired' = expired /\ run.pc = "comment" /\ comments' = Guardian!Commented(Guardian!Item.card)
    BY <2>1, <2>2, <2>6, CommentKeeps
  <2> QED
    BY <2>3, <2>4, <2>5, <2>6
<1> QED
  BY <1>3, <1>4, <1>5, <1>6, <1>7, <1>8, <1>9, <1>10, <1>11 DEF Guardian!Work

LEMMA GuardianInit == ASSUME Project, Guardian!Init PROVE GuardianInv
<1>1. order \in Listing /\ ListedOnce
  BY FirstListing DEF Guardian!Init, ListedOnce
<1>2. run.pc = "idle" /\ run.page = <<>> /\ run.cursor = 0 /\ run \in RunType
  BY DEF Guardian!Init, Guardian!Idle, RunType, Position
<1>3. BoardTyped
  BY <1>1, <1>2 DEF BoardTyped, Guardian!Init, Guardian!None, Counts, Project
<1>4. CommentsEarned
  BY DEF Guardian!Init, CommentsEarned, Occasions
<1> QED
  BY <1>1, <1>2, <1>3, <1>4 DEF GuardianInv, PageOnce, CursorListed, InHand, PendingFresh, CommentDue

LEMMA GuardianStep == Project /\ GuardianInv /\ [Guardian!Next]_(Guardian!vars) => GuardianInv'
<1> SUFFICES ASSUME Project, GuardianInv, [Guardian!Next]_(Guardian!vars) PROVE GuardianInv'
  OBVIOUS
<1>1. CASE Guardian!Tick
  <2>1. now \in Nat /\ now' = now + 1 /\ UNCHANGED <<expired, due, order, comments, run, returned>>
    BY <1>1 DEF Guardian!Tick, Guardian!cards, GuardianInv, BoardTyped
  <2>2. BoardTyped'
    BY <2>1 DEF GuardianInv, BoardTyped
  <2> QED
    BY <2>1, <2>2 DEF GuardianInv, ListedOnce, PageOnce, CursorListed, InHand, CommentsEarned,
                      PendingFresh, CommentDue, Fresh, Occasions
<1>2. CASE UNCHANGED Guardian!vars
  BY <1>2 DEF Guardian!vars, Guardian!cards, GuardianInv, BoardTyped, ListedOnce, PageOnce, CursorListed,
              InHand, CommentsEarned, PendingFresh, CommentDue, Fresh, Occasions
<1> QED
  BY <1>1, <1>2, PersonKeeps, RunKeeps DEF Guardian!Next

\* The occasions of a card are at most one more than its moves back.
LEMMA GuardianMeans == GuardianInv => Guardian!CommentsExplained
<1>1. ASSUME GuardianInv, NEW i \in Card PROVE comments[i] <= 1 + returned[i]
  <2>1. comments[i] \in Nat /\ returned[i] \in Nat /\ comments[i] <= Occasions(i)
    BY <1>1 DEF GuardianInv, BoardTyped, Counts, CommentsEarned
  <2> QED
    BY <2>1 DEF Occasions
<1> QED
  BY <1>1 DEF Guardian!CommentsExplained

\* add_overdue_comment: for any project, pages and schedule, an issue is
\* commented on once for each time that its card has to be moved; failures, lost
\* answers and stale pages repeat no comment.
THEOREM CommentsAreExplained == Spec => []CommentsExplained
<1> DEFINE Safe == program = "guardian" => GuardianInv
<1>0. Project
  BY ProjectAssumption DEF Project
<1>1. Init => Safe
  BY <1>0, GuardianInit DEF Init
<1>2. ASSUME Safe, [Next]_vars PROVE Safe'
  <2>1. CASE Next
    <3>1. program' = program
      BY <2>1 DEF Next
    <3>2. ASSUME program = "guardian" PROVE GuardianInv'
      <4>1. GuardianInv /\ [Guardian!Next]_(Guardian!vars)
        BY <1>2, <2>1, <3>2 DEF Next
      <4> QED
        BY <1>0, <4>1, GuardianStep
    <3> QED
      BY <3>1, <3>2
  <2>2. CASE UNCHANGED vars
    <3>1. program' = program /\ UNCHANGED project
      BY <2>2 DEF vars
    <3>2. ASSUME GuardianInv PROVE GuardianInv'
      <4>1. UNCHANGED Guardian!vars
        BY <3>1 DEF project, Guardian!vars, Guardian!cards
      <4> QED
        BY <1>0, <3>2, <4>1, GuardianStep
    <3> QED
      BY <1>2, <3>1, <3>2
  <2> QED
    BY <1>2, <2>1, <2>2
<1>3. Safe => CommentsExplained
  BY GuardianMeans DEF CommentsExplained
<1> QED
  BY <1>1, <1>2, <1>3, PTL DEF Spec

-----------------------------------------------------------------------------
(* The debate bridge.  What an agent has said is, in order, relayed, lost, *)
(* buffered, in the pipe or still owed, and no half of a line stands alone *)

Debate == Preface \in Nat /\ Rounds \in Nat /\ Chunks \in Nat /\ Lines \in Nat

HalfLine == [text : Nat, half : {1, 2}]
Turn     == [do : {"send", "hear"}, who : Bridge!Who, final : BOOLEAN]
Stream   == Seq(HalfLine)

BridgeTyped ==
  /\ stdout \in [Bridge!Who -> Stream]
  /\ owed \in [Bridge!Who -> Stream]
  /\ said \in [Bridge!Who -> Nat]
  /\ todo \in Seq(Turn)
  /\ buf \in Stream
  /\ handled \in [Bridge!Who -> SUBSET Nat]
  /\ lost \in [Bridge!Who -> SUBSET Nat]
  /\ texts \in SUBSET Nat

Hearing(x) == step = "hear" /\ Bridge!Now.who = x

\* What x has said and the bridge has not heard to its end, and what it has.
Unheard(x) == ((IF Hearing(x) THEN buf ELSE <<>>) \o stdout[x]) \o owed[x]
Heard(x)   == handled[x] \cup lost[x] \cup (IF Hearing(x) THEN texts ELSE {})

\* A second half comes after its first, unless its text is heard or lost.
Paired(s, T) ==
  \A i \in DOMAIN s :
    s[i].half = 2 /\ s[i].text # 0 =>
      \/ s[i].text \in T
      \/ i > 1 /\ s[i - 1].half = 1 /\ s[i - 1].text = s[i].text

\* A text is heard, lost or still to come.
Complete(n, s, T) == \A m \in 1 .. n : m \in T \cup Bridge!CutTexts(s)

SpeakerSafe(x) == Paired(Unheard(x), Heard(x)) /\ Complete(said[x], Unheard(x), Heard(x))

BridgeInv ==
  /\ BridgeTyped
  /\ step = "hear" => todo # <<>>
  /\ step # "hear" => buf = <<>> /\ texts = {}
  /\ \A x \in Bridge!Who : SpeakerSafe(x)

-----------------------------------------------------------------------------
\* A part of a concatenation, by its place.
LEMMA Parts ==
  ASSUME NEW S, NEW s \in Seq(S), NEW t \in Seq(S)
  PROVE  /\ s \o t \in Seq(S)
         /\ Len(s) \in Nat /\ Len(t) \in Nat
         /\ DOMAIN s = 1 .. Len(s) /\ DOMAIN t = 1 .. Len(t)
         /\ DOMAIN (s \o t) = 1 .. Len(s) + Len(t)
         /\ \A i \in 1 .. Len(s) : (s \o t)[i] = s[i] /\ s[i] \in S
         /\ \A i \in 1 .. Len(t) : (s \o t)[i + Len(s)] = t[i] /\ t[i] \in S
<1>1. Len(s) \in Nat /\ Len(t) \in Nat /\ DOMAIN s = 1 .. Len(s) /\ DOMAIN t = 1 .. Len(t)
  OBVIOUS
<1>2. /\ s \o t \in Seq(S) /\ Len(s \o t) = Len(s) + Len(t)
      /\ \A i \in 1 .. Len(s) + Len(t) : (s \o t)[i] = IF i <= Len(s) THEN s[i] ELSE t[i - Len(s)]
  BY ConcatProperties
<1>3. \A i \in 1 .. Len(s) : (s \o t)[i] = s[i] /\ s[i] \in S
  BY <1>1, <1>2, ElementOfSeq
<1>4. ASSUME NEW i \in 1 .. Len(t) PROVE (s \o t)[i + Len(s)] = t[i] /\ t[i] \in S
  <2>1. i + Len(s) \in 1 .. Len(s) + Len(t) /\ ~(i + Len(s) <= Len(s)) /\ i + Len(s) - Len(s) = i
    BY <1>1
  <2> QED
    BY <1>2, <2>1, ElementOfSeq
<1>5. DOMAIN (s \o t) = 1 .. Len(s) + Len(t)
  BY <1>2
<1> QED
  BY <1>1, <1>2, <1>3, <1>4, <1>5

LEMMA CutParts ==
  ASSUME NEW s \in Stream, NEW t \in Stream
  PROVE  Bridge!CutTexts(s \o t) = Bridge!CutTexts(s) \cup Bridge!CutTexts(t)
<1> DEFINE u == s \o t
<1>1. /\ Len(s) \in Nat /\ Len(t) \in Nat
      /\ DOMAIN s = 1 .. Len(s) /\ DOMAIN t = 1 .. Len(t) /\ DOMAIN u = 1 .. Len(s) + Len(t)
      /\ \A i \in 1 .. Len(s) : u[i] = s[i]
      /\ \A i \in 1 .. Len(t) : u[i + Len(s)] = t[i]
  BY Parts DEF Stream
<1> HIDE DEF u
<1>2. ASSUME NEW i \in DOMAIN u
      PROVE  (\E j \in DOMAIN s : u[i] = s[j]) \/ (\E j \in DOMAIN t : u[i] = t[j])
  <2>1. CASE i <= Len(s)
    BY <1>1, <2>1
  <2>2. CASE i > Len(s)
    <3>1. i - Len(s) \in 1 .. Len(t) /\ i - Len(s) + Len(s) = i
      BY <1>1, <2>2
    <3> QED
      BY <1>1, <3>1
  <2> QED
    BY <1>1, <2>1, <2>2
<1>3. ASSUME NEW i \in DOMAIN s PROVE i \in DOMAIN u /\ u[i] = s[i]
  BY <1>1
<1>4. ASSUME NEW i \in DOMAIN t PROVE i + Len(s) \in DOMAIN u /\ u[i + Len(s)] = t[i]
  BY <1>1
<1>5. Bridge!CutTexts(u) \subseteq Bridge!CutTexts(s) \cup Bridge!CutTexts(t)
  BY <1>2 DEF Bridge!CutTexts
<1>6. Bridge!CutTexts(s) \subseteq Bridge!CutTexts(u)
  BY <1>3 DEF Bridge!CutTexts
<1>7. Bridge!CutTexts(t) \subseteq Bridge!CutTexts(u)
  BY <1>4 DEF Bridge!CutTexts
<1> QED
  BY <1>5, <1>6, <1>7 DEF u

\* What is heard of a stream leaves the rest paired and complete.
LEMMA HeardRest ==
  ASSUME NEW s \in Stream, NEW t \in Stream, NEW T, NEW U, NEW n \in Nat,
         Paired(s \o t, T), Complete(n, s \o t, T), T \cup Bridge!CutTexts(s) \subseteq U
  PROVE  Paired(t, U) /\ Complete(n, t, U)
<1> DEFINE u == s \o t
<1>1. /\ Len(s) \in Nat /\ Len(t) \in Nat
      /\ DOMAIN s = 1 .. Len(s) /\ DOMAIN t = 1 .. Len(t) /\ DOMAIN u = 1 .. Len(s) + Len(t)
      /\ \A i \in 1 .. Len(s) : u[i] = s[i]
      /\ \A i \in 1 .. Len(t) : u[i + Len(s)] = t[i]
  BY Parts DEF Stream
<1>2. Bridge!CutTexts(u) = Bridge!CutTexts(s) \cup Bridge!CutTexts(t)
  BY CutParts
<1>3. Complete(n, t, U)
  BY <1>2 DEF Complete
<1>4. Paired(u, T)
  OBVIOUS
<1> HIDE DEF u
<1>5. ASSUME NEW i \in DOMAIN t, t[i].half = 2, t[i].text # 0, t[i].text \notin U
      PROVE  i > 1 /\ t[i - 1].half = 1 /\ t[i - 1].text = t[i].text
  <2> DEFINE k == i + Len(s)
  <2>1. k \in DOMAIN u /\ u[k] = t[i] /\ t[i].text \notin T
    BY <1>1, <1>5
  <2>2. k > 1 /\ u[k - 1].half = 1 /\ u[k - 1].text = t[i].text
    BY <1>4, <1>5, <2>1 DEF Paired
  <2>3. CASE i = 1
    <3>1. k - 1 = Len(s) /\ Len(s) \in DOMAIN s /\ u[Len(s)] = s[Len(s)]
      BY <1>1, <2>2, <2>3
    <3>2. t[i].text \in Bridge!CutTexts(s)
      BY <1>5, <2>2, <3>1 DEF Bridge!CutTexts
    <3> QED
      BY <1>5, <3>2
  <2>4. CASE i > 1
    <3>1. i - 1 \in 1 .. Len(t) /\ k - 1 = (i - 1) + Len(s)
      BY <1>1, <2>4
    <3>2. u[k - 1] = t[i - 1]
      BY <1>1, <3>1
    <3> QED
      BY <2>2, <2>4, <3>2
  <2> QED
    BY <1>1, <2>3, <2>4
<1> QED
  BY <1>3, <1>5 DEF Paired

\* What is lost of a stream's end leaves its beginning paired and complete.
LEMMA LostEnd ==
  ASSUME NEW s \in Stream, NEW t \in Stream, NEW T, NEW U, NEW n \in Nat,
         Paired(s \o t, T), Complete(n, s \o t, T), T \cup Bridge!CutTexts(t) \subseteq U
  PROVE  Paired(s, U) /\ Complete(n, s, U)
<1> DEFINE u == s \o t
<1>1. /\ Len(s) \in Nat /\ Len(t) \in Nat
      /\ DOMAIN s = 1 .. Len(s) /\ DOMAIN u = 1 .. Len(s) + Len(t)
      /\ \A i \in 1 .. Len(s) : u[i] = s[i]
  BY Parts DEF Stream
<1>2. Bridge!CutTexts(u) = Bridge!CutTexts(s) \cup Bridge!CutTexts(t)
  BY CutParts
<1>3. Complete(n, s, U)
  BY <1>2 DEF Complete
<1>4. Paired(u, T)
  OBVIOUS
<1> HIDE DEF u
<1>5. ASSUME NEW i \in DOMAIN s, s[i].half = 2, s[i].text # 0, s[i].text \notin U
      PROVE  i > 1 /\ s[i - 1].half = 1 /\ s[i - 1].text = s[i].text
  <2>1. i \in DOMAIN u /\ u[i] = s[i]
    BY <1>1
  <2>2. i > 1 /\ u[i - 1].half = 1 /\ u[i - 1].text = s[i].text
    BY <1>4, <1>5, <2>1 DEF Paired
  <2>3. u[i - 1] = s[i - 1]
    BY <1>1, <2>2
  <2> QED
    BY <2>2, <2>3
<1> QED
  BY <1>3, <1>5 DEF Paired

\* What is added to a stream keeps it paired.
LEMMA SaidMore ==
  ASSUME NEW s \in Stream, NEW t \in Stream, NEW T, Paired(s, T), Paired(t, T)
  PROVE  Paired(s \o t, T)
<1> DEFINE u == s \o t
<1>1. /\ Len(s) \in Nat /\ Len(t) \in Nat
      /\ DOMAIN s = 1 .. Len(s) /\ DOMAIN t = 1 .. Len(t) /\ DOMAIN u = 1 .. Len(s) + Len(t)
      /\ \A i \in 1 .. Len(s) : u[i] = s[i]
      /\ \A i \in 1 .. Len(t) : u[i + Len(s)] = t[i]
  BY Parts DEF Stream
<1> HIDE DEF u
<1>2. ASSUME NEW i \in DOMAIN u, u[i].half = 2, u[i].text # 0, u[i].text \notin T
      PROVE  i > 1 /\ u[i - 1].half = 1 /\ u[i - 1].text = u[i].text
  <2>1. CASE i <= Len(s)
    <3>1. i \in DOMAIN s /\ u[i] = s[i]
      BY <1>1, <2>1
    <3>2. i > 1 /\ s[i - 1].half = 1 /\ s[i - 1].text = u[i].text
      BY <1>2, <3>1 DEF Paired
    <3>3. u[i - 1] = s[i - 1]
      BY <1>1, <3>1, <3>2
    <3> QED
      BY <3>2, <3>3
  <2>2. CASE i > Len(s)
    <3> DEFINE j == i - Len(s)
    <3>1. j \in DOMAIN t /\ j \in Int /\ i = j + Len(s) /\ u[i] = t[j]
      BY <1>1, <2>2
    <3> HIDE DEF j
    <3>2. j > 1 /\ t[j - 1].half = 1 /\ t[j - 1].text = u[i].text
      BY <1>2, <3>1 DEF Paired
    <3>3. j - 1 \in 1 .. Len(t) /\ i - 1 = (j - 1) + Len(s) /\ i > 1
      <4>1. j \in 1 .. Len(t) /\ j > 1 /\ j \in Int
        BY <1>1, <3>1, <3>2
      <4> QED
        BY <1>1, <3>1, <4>1
    <3>4. u[i - 1] = t[j - 1]
      BY <1>1, <3>3
    <3> QED
      BY <3>2, <3>3, <3>4
  <2> QED
    BY <1>1, <2>1, <2>2
<1> QED
  BY <1>2 DEF Paired, u

\* The beginning of what is paired is paired.
LEMMA Beginning ==
  ASSUME NEW s \in Stream, NEW t \in Stream, NEW T, Paired(s \o t, T)
  PROVE  Paired(s, T)
<1> DEFINE u == s \o t
<1>1. /\ Len(s) \in Nat
      /\ DOMAIN s = 1 .. Len(s) /\ DOMAIN u = 1 .. Len(s) + Len(t) /\ Len(t) \in Nat
      /\ \A i \in 1 .. Len(s) : u[i] = s[i]
  BY Parts DEF Stream
<1>2. Paired(u, T)
  OBVIOUS
<1> HIDE DEF u
<1>3. ASSUME NEW i \in DOMAIN s, s[i].half = 2, s[i].text # 0, s[i].text \notin T
      PROVE  i > 1 /\ s[i - 1].half = 1 /\ s[i - 1].text = s[i].text
  <2>1. i \in DOMAIN u /\ u[i] = s[i]
    BY <1>1
  <2>2. i > 1 /\ u[i - 1].half = 1 /\ u[i - 1].text = s[i].text
    BY <1>2, <1>3, <2>1 DEF Paired
  <2>3. u[i - 1] = s[i - 1]
    BY <1>1, <2>2
  <2> QED
    BY <2>2, <2>3
<1> QED
  BY <1>3 DEF Paired

\* read_reply_chunked finds every text of which it got more than a beginning.
LEMMA ParsedAll ==
  ASSUME NEW s \in Stream, NEW T, Paired(s, T),
         NEW i \in DOMAIN s, i < Len(s) \/ s[i].half = 2, s[i].text # 0
  PROVE  s[i].text \in T \cup Bridge!Parsed(s)
<1>1. Len(s) \in Nat /\ DOMAIN s = 1 .. Len(s) /\ s[i].half \in {1, 2} /\ i \in 1 .. Len(s)
  <2>1. Len(s) \in Nat /\ DOMAIN s = 1 .. Len(s) /\ s[i] \in HalfLine
    BY DEF Stream
  <2> QED
    BY <2>1 DEF HalfLine
<1>2. CASE s[i].half = 1
  <2>1. i \in 1 .. Len(s) - 1
    BY <1>1, <1>2
  <2> QED
    BY <1>2, <2>1 DEF Bridge!Parsed
<1>3. CASE s[i].half = 2 /\ s[i].text \notin T
  <2>1. i > 1 /\ s[i - 1].half = 1 /\ s[i - 1].text = s[i].text
    BY <1>3 DEF Paired
  <2>2. i - 1 \in 1 .. Len(s) - 1 /\ s[i - 1].text # 0
    BY <1>1, <2>1
  <2> QED
    BY <2>1, <2>2 DEF Bridge!Parsed
<1> QED
  BY <1>1, <1>2, <1>3

\* What a read leaves in the buffer, and what it has dealt with.
LEMMA ReadSplit ==
  ASSUME NEW s \in Stream, NEW r \in Stream, NEW T, s # <<>>, Paired(s \o r, T)
  PROVE  \E d \in Stream :
            /\ s \o r = d \o (Bridge!Remainder(s) \o r)
            /\ Bridge!Remainder(s) \in Stream
            /\ Bridge!CutTexts(d) \subseteq T \cup Bridge!Parsed(s)
<1>1. Len(s) \in Nat \ {0} /\ DOMAIN s = 1 .. Len(s) /\ \A i \in 1 .. Len(s) : s[i] \in HalfLine
  BY DEF Stream
<1>2. Paired(s, T)
  BY Beginning
<1>3. CASE s[Len(s)].half # 1
  <2>1. Bridge!Remainder(s) = <<>>
    BY <1>1, <1>3 DEF Bridge!Remainder
  <2>2. s[Len(s)].half = 2
    BY <1>1, <1>3 DEF HalfLine
  <2>3. \A i \in DOMAIN s : i < Len(s) \/ s[i].half = 2
    BY <1>1, <2>2
  <2>4. Bridge!CutTexts(s) \subseteq T \cup Bridge!Parsed(s)
    BY <1>2, <2>3, ParsedAll DEF Bridge!CutTexts
  <2>5. <<>> \in Stream /\ <<>> \o r = r
    BY ConcatEmptySeq DEF Stream
  <2> QED
    BY <2>1, <2>4, <2>5
<1>4. CASE s[Len(s)].half = 1
  <2> DEFINE d == SubSeq(s, 1, Len(s) - 1)
             l == <<s[Len(s)]>>
  <2>1. Bridge!Remainder(s) = l
    BY <1>1, <1>4 DEF Bridge!Remainder
  <2>2. l \in Stream /\ Len(l) = 1 /\ l[1] = s[Len(s)]
    BY <1>1 DEF Stream
  <2>3. d \in Stream /\ Len(d) = Len(s) - 1 /\ DOMAIN d = 1 .. Len(s) - 1
        /\ \A i \in 1 .. Len(s) - 1 : d[i] = s[i]
    BY <1>1 DEF Stream
  <2> HIDE DEF d, l
  <2>4. d \o l = s
    <3>1. /\ d \o l \in Stream /\ DOMAIN (d \o l) = 1 .. Len(d) + Len(l)
          /\ \A i \in 1 .. Len(d) : (d \o l)[i] = d[i]
          /\ \A i \in 1 .. Len(l) : (d \o l)[i + Len(d)] = l[i]
      <4>1. d \in Seq(HalfLine) /\ l \in Seq(HalfLine)
        BY <2>2, <2>3 DEF Stream
      <4> QED
        BY <4>1, Parts DEF Stream
    <3> DEFINE u == d \o l
    <3> HIDE DEF u
    <3>2. /\ u \in Stream /\ DOMAIN u = 1 .. Len(s)
          /\ \A i \in 1 .. Len(s) - 1 : u[i] = s[i]
          /\ u[Len(s)] = s[Len(s)]
      <4>1. Len(d) + Len(l) = Len(s) /\ 1 \in 1 .. Len(l) /\ 1 + Len(d) = Len(s)
        BY <1>1, <2>2, <2>3
      <4>2. \A i \in 1 .. Len(s) - 1 : u[i] = s[i]
        BY <2>3, <3>1 DEF u
      <4> QED
        BY <2>2, <3>1, <4>1, <4>2 DEF u
    <3>3. \A i \in 1 .. Len(s) : u[i] = s[i]
      BY <1>1, <3>2
    <3>4. Len(u) = Len(s)
      BY <1>1, <3>2 DEF Stream
    <3> QED
      BY <3>2, <3>3, <3>4, SeqEqual DEF Stream, u
  <2>5. s \o r = d \o (l \o r)
    <3>1. (d \o l) \o r = d \o (l \o r)
      <4>1. d \in Seq(HalfLine) /\ l \in Seq(HalfLine) /\ r \in Seq(HalfLine)
        BY <2>2, <2>3 DEF Stream
      <4> QED
        BY <4>1, ConcatAssociative
    <3> QED
      BY <2>4, <3>1
  <2>6. \A i \in DOMAIN d : i \in DOMAIN s /\ i < Len(s) /\ d[i] = s[i]
    BY <1>1, <2>3
  <2>7. Bridge!CutTexts(d) \subseteq T \cup Bridge!Parsed(s)
    BY <1>2, <2>6, ParsedAll DEF Bridge!CutTexts
  <2> QED
    BY <2>1, <2>2, <2>3, <2>5, <2>7
<1> QED
  BY <1>3, <1>4

\* Two sequences one after the other, cut anywhere.
LEMMA CutAt ==
  ASSUME NEW s \in Stream, NEW n \in 0 .. Len(s)
  PROVE  /\ SubSeq(s, 1, n) \in Stream /\ SubSeq(s, n + 1, Len(s)) \in Stream
         /\ s = SubSeq(s, 1, n) \o SubSeq(s, n + 1, Len(s))
         /\ n > 0 => SubSeq(s, 1, n) # <<>>
<1>1. s \in Seq(HalfLine) /\ Len(s) \in Nat /\ 1 \in 1 .. Len(s) + 1 /\ n \in 1 - 1 .. Len(s) /\ Len(s) \in n .. Len(s)
  BY DEF Stream
<1>2. SubSeq(s, 1, n) \o SubSeq(s, n + 1, Len(s)) = SubSeq(s, 1, Len(s))
  BY <1>1, ConcatAdjacentSubSeq
<1>3. SubSeq(s, 1, Len(s)) = s
  BY <1>1, SubSeqFull
<1>4. SubSeq(s, 1, n) \in Stream /\ SubSeq(s, n + 1, Len(s)) \in Stream /\ (n > 0 => SubSeq(s, 1, n) # <<>>)
  BY <1>1 DEF Stream
<1> QED
  BY <1>2, <1>3, <1>4

LEMMA Thrice ==
  ASSUME NEW s \in Stream, NEW t \in Stream, NEW u \in Stream
  PROVE  (s \o t) \o u = s \o (t \o u)
BY ConcatAssociative DEF Stream

LEMMA StreamsTyped ==
  ASSUME BridgeTyped, NEW x \in Bridge!Who
  PROVE  /\ stdout[x] \in Stream /\ owed[x] \in Stream /\ said[x] \in Nat
         /\ (IF Hearing(x) THEN buf ELSE <<>>) \in Stream
         /\ ((IF Hearing(x) THEN buf ELSE <<>>) \o stdout[x]) \in Stream
         /\ Unheard(x) \in Stream
<1>1. stdout[x] \in Stream /\ owed[x] \in Stream /\ said[x] \in Nat
      /\ (IF Hearing(x) THEN buf ELSE <<>>) \in Stream
  BY DEF BridgeTyped, Stream
<1> QED
  BY <1>1, ConcatProperties DEF Unheard, Stream

\* A speaker of whom nothing changed but that more may have been heard.
LEMMA SpeakerKept ==
  ASSUME NEW x \in Bridge!Who, SpeakerSafe(x), Unheard(x)' = Unheard(x),
         Heard(x) \subseteq Heard(x)', said'[x] = said[x]
  PROVE  SpeakerSafe(x)'
<1>1. Paired(Unheard(x), Heard(x)') /\ Complete(said[x], Unheard(x), Heard(x)')
  BY DEF SpeakerSafe, Paired, Complete
<1> QED
  BY <1>1 DEF SpeakerSafe

\* The lines that a prompt leads to: whole, numbered one after the other.
LEMMA NewLines ==
  ASSUME NEW n \in Nat, NEW base \in Nat, NEW text \in BOOLEAN, NEW T,
         NEW s, s = [i \in 1 .. 2 * n |-> Bridge!Half(IF text THEN base + (i + 1) \div 2 ELSE 0, 2 - (i % 2))]
  PROVE  /\ s \in Stream /\ Paired(s, T)
         /\ text => \A m \in base + 1 .. base + n : m \in Bridge!CutTexts(s)
<1>1. ASSUME NEW i \in 1 .. 2 * n
      PROVE  /\ s[i].text = (IF text THEN base + (i + 1) \div 2 ELSE 0) /\ s[i].half = 2 - (i % 2)
             /\ s[i] \in HalfLine
  <2>1. (i + 1) \div 2 \in Nat /\ 2 - (i % 2) \in {1, 2}
    OBVIOUS
  <2> QED
    BY <2>1 DEF Bridge!Half, HalfLine
<1>2. DOMAIN s = 1 .. 2 * n /\ s \in Stream
  <2>1. s \in [1 .. 2 * n -> HalfLine] /\ 2 * n \in Nat
    BY <1>1
  <2> QED
    BY <2>1 DEF Stream
<1>3. ASSUME NEW i \in 1 .. 2 * n, s[i].half = 2
      PROVE  i > 1 /\ s[i - 1].half = 1 /\ s[i - 1].text = s[i].text
  <2>0. s[i].half = 2 - (i % 2)
    BY <1>1
  <2>1. i % 2 = 0
    BY <1>3, <2>0
  <2>2. i - 1 \in 1 .. 2 * n /\ i > 1 /\ (i - 1) % 2 = 1 /\ (i - 1 + 1) \div 2 = (i + 1) \div 2
    BY <2>1
  <2>3. s[i - 1].text = s[i].text
    BY <1>1, <2>2
  <2>4. s[i - 1].half = 2 - ((i - 1) % 2)
    BY <1>1, <2>2
  <2> QED
    BY <2>2, <2>3, <2>4
<1>4. ASSUME text, NEW m \in base + 1 .. base + n PROVE m \in Bridge!CutTexts(s)
  <2> DEFINE i == 2 * (m - base)
  <2>1. i \in 1 .. 2 * n /\ base + (i + 1) \div 2 = m /\ m # 0
    OBVIOUS
  <2>2. s[i].text = m
    BY <1>1, <1>4, <2>1
  <2> QED
    BY <1>2, <2>1, <2>2 DEF Bridge!CutTexts
<1> QED
  BY <1>2, <1>3, <1>4 DEF Paired

-----------------------------------------------------------------------------
\* An agent writes, stops, dies or takes a prompt: what it has said is still to
\* come, or lost.
LEMMA AgentKeeps ==
  ASSUME Debate, BridgeInv, NEW x \in Bridge!Who,
         Bridge!Take(x) \/ Bridge!Speak(x) \/ Bridge!Jam(x) \/ Bridge!Die(x)
  PROVE  BridgeInv'
<1> DEFINE h == IF Hearing(x) THEN buf ELSE <<>>
<1>1. BridgeTyped /\ \A y \in Bridge!Who : SpeakerSafe(y)
  BY DEF BridgeInv
<1>2. UNCHANGED <<todo, step, buf, texts, handled>>
  BY DEF Bridge!Take, Bridge!Speak, Bridge!Jam, Bridge!Die, Bridge!bridge
<1>3. /\ h \in Stream /\ stdout[x] \in Stream /\ owed[x] \in Stream /\ said[x] \in Nat
      /\ h \o stdout[x] \in Stream /\ h' = h
  BY <1>1, <1>2, StreamsTyped DEF Hearing, Bridge!Now
<1>4. ASSUME stdout' \in [Bridge!Who -> Stream], owed' \in [Bridge!Who -> Stream],
             said' \in [Bridge!Who -> Nat], lost' \in [Bridge!Who -> SUBSET Nat],
             \A y \in Bridge!Who \ {x} : stdout'[y] = stdout[y] /\ owed'[y] = owed[y]
                                         /\ said'[y] = said[y] /\ lost'[y] = lost[y],
             SpeakerSafe(x)'
      PROVE  BridgeInv'
  <2>1. BridgeTyped'
    BY <1>1, <1>2, <1>4 DEF BridgeTyped
  <2>2. ASSUME NEW y \in Bridge!Who \ {x} PROVE SpeakerSafe(y)'
    <3>1. Unheard(y)' = Unheard(y) /\ Heard(y)' = Heard(y)
      BY <1>2, <1>4 DEF Unheard, Heard, Hearing, Bridge!Now
    <3> QED
      BY <1>1, <1>4, <3>1, SpeakerKept
  <2> QED
    BY <1>2, <1>4, <2>1, <2>2 DEF BridgeInv
<1>5. CASE Bridge!Take(x)
  <2>1. PICK n \in 0 .. Lines, text \in BOOLEAN :
          /\ owed' = [owed EXCEPT ![x] = [i \in 1 .. 2 * n |-> Bridge!Half(IF text THEN said[x] + (i + 1) \div 2 ELSE 0, 2 - (i % 2))]]
          /\ said' = IF text THEN [said EXCEPT ![x] = @ + n] ELSE said
    BY <1>5 DEF Bridge!Take
  <2> DEFINE new == [i \in 1 .. 2 * n |-> Bridge!Half(IF text THEN said[x] + (i + 1) \div 2 ELSE 0, 2 - (i % 2))]
  <2>2. owed[x] = <<>> /\ UNCHANGED <<stdout, lost>> /\ n \in Nat
    BY <1>5 DEF Bridge!Take, Bridge!bridge, Debate
  <2>3. /\ new \in Stream /\ Paired(new, Heard(x))
        /\ text => \A m \in said[x] + 1 .. said[x] + n : m \in Bridge!CutTexts(new)
    BY <1>3, <2>2, NewLines
  <2>4. owed' = [owed EXCEPT ![x] = new]
    BY <2>1
  <2> HIDE DEF new, h
  <2>5. /\ owed' \in [Bridge!Who -> Stream] /\ said' \in [Bridge!Who -> Nat] /\ owed'[x] = new
        /\ said'[x] = (IF text THEN said[x] + n ELSE said[x])
        /\ \A y \in Bridge!Who \ {x} : owed'[y] = owed[y] /\ said'[y] = said[y]
    <3>1. /\ owed' \in [Bridge!Who -> Stream] /\ owed'[x] = new
          /\ \A y \in Bridge!Who \ {x} : owed'[y] = owed[y]
      BY <1>1, <2>3, <2>4 DEF BridgeTyped
    <3>2. said' = [said EXCEPT ![x] = IF text THEN said[x] + n ELSE said[x]]
      BY <1>1, <2>1 DEF BridgeTyped
    <3>3. (IF text THEN said[x] + n ELSE said[x]) \in Nat
      BY <1>3, <2>2
    <3>4. /\ said' \in [Bridge!Who -> Nat] /\ said'[x] = (IF text THEN said[x] + n ELSE said[x])
          /\ \A y \in Bridge!Who \ {x} : said'[y] = said[y]
      BY <1>1, <3>2, <3>3 DEF BridgeTyped
    <3> QED
      BY <3>1, <3>4
  <2>6. Unheard(x) = h \o stdout[x] /\ Unheard(x)' = (h \o stdout[x]) \o new
    <3>1. (h \o stdout[x]) \o <<>> = h \o stdout[x]
      BY <1>3, ConcatEmptySeq DEF Stream
    <3> QED
      BY <1>3, <2>2, <2>5, <3>1 DEF Unheard, h
  <2>7. Heard(x)' = Heard(x)
    BY <1>2, <2>2 DEF Heard, Hearing, Bridge!Now
  <2>8. Paired(Unheard(x), Heard(x)) /\ Complete(said[x], Unheard(x), Heard(x))
    BY <1>1 DEF SpeakerSafe
  <2>9. Paired(Unheard(x)', Heard(x)')
    BY <1>3, <2>3, <2>6, <2>7, <2>8, SaidMore
  <2>10. Complete(said'[x], Unheard(x)', Heard(x)')
    <3>1. Bridge!CutTexts(Unheard(x)') = Bridge!CutTexts(Unheard(x)) \cup Bridge!CutTexts(new)
      BY <1>3, <2>3, <2>6, CutParts
    <3>2. \A m \in 1 .. said[x] : m \in Heard(x)' \cup Bridge!CutTexts(Unheard(x)')
      BY <2>7, <2>8, <3>1 DEF Complete
    <3>3. \A m \in 1 .. said'[x] : m \in 1 .. said[x] \/ (text /\ m \in said[x] + 1 .. said[x] + n)
      BY <1>3, <2>2, <2>5
    <3> QED
      BY <2>3, <3>1, <3>2, <3>3 DEF Complete
  <2>11. SpeakerSafe(x)'
    BY <2>9, <2>10 DEF SpeakerSafe
  <2> QED
    BY <1>1, <1>4, <2>2, <2>5, <2>11 DEF BridgeTyped
<1>6. CASE Bridge!Speak(x)
  <2> DEFINE a == <<owed[x][1]>>
             r == SubSeq(owed[x], 2, Len(owed[x]))
  <2>1. owed[x] # <<>> /\ owed[x] \in Seq(HalfLine) /\ Len(owed[x]) \in Nat \ {0}
    BY <1>3, <1>6 DEF Bridge!Speak, Stream
  <2>2. owed[x][1] \in HalfLine /\ Head(owed[x]) = owed[x][1] /\ Tail(owed[x]) = r
    BY <2>1, TailIsSubSeq
  <2>3. a \in Stream /\ a = SubSeq(owed[x], 1, 1)
    BY <2>1, <2>2 DEF Stream
  <2>4. r \in Stream /\ owed[x] = a \o r
    <3>1. 1 \in 0 .. Len(owed[x]) /\ 1 + 1 = 2
      BY <2>1
    <3>2. /\ SubSeq(owed[x], 1 + 1, Len(owed[x])) \in Stream
          /\ owed[x] = SubSeq(owed[x], 1, 1) \o SubSeq(owed[x], 1 + 1, Len(owed[x]))
      BY <1>3, <3>1, CutAt, Zenon
    <3> QED
      BY <2>3, <3>1, <3>2
  <2>5. Append(stdout[x], owed[x][1]) = stdout[x] \o a
    BY <1>3, <2>2, AppendIsConcat DEF Stream
  <2>6. /\ stdout' = [stdout EXCEPT ![x] = stdout[x] \o a] /\ owed' = [owed EXCEPT ![x] = r]
        /\ UNCHANGED <<said, lost>>
    BY <1>6, <2>2, <2>5 DEF Bridge!Speak, Bridge!bridge
  <2> HIDE DEF a, r, h
  <2>7. stdout[x] \o a \in Stream
    BY <1>3, <2>3, ConcatProperties DEF Stream
  <2>8. /\ stdout' \in [Bridge!Who -> Stream] /\ owed' \in [Bridge!Who -> Stream]
        /\ stdout'[x] = stdout[x] \o a /\ owed'[x] = r
        /\ \A y \in Bridge!Who \ {x} : stdout'[y] = stdout[y] /\ owed'[y] = owed[y]
    BY <1>1, <2>4, <2>6, <2>7 DEF BridgeTyped
  <2>9. (h \o (stdout[x] \o a)) \o r = (h \o stdout[x]) \o (a \o r)
    <3>1. h \o (stdout[x] \o a) = (h \o stdout[x]) \o a
      BY <1>3, <2>3, Thrice, Zenon
    <3>2. ((h \o stdout[x]) \o a) \o r = (h \o stdout[x]) \o (a \o r)
      BY <1>3, <2>3, <2>4, Thrice, Zenon
    <3> QED
      BY <3>1, <3>2
  <2>10. Unheard(x)' = Unheard(x)
    BY <1>3, <2>4, <2>8, <2>9 DEF Unheard, h
  <2>11. Heard(x)' = Heard(x) /\ said'[x] = said[x]
    BY <1>2, <2>6 DEF Heard, Hearing, Bridge!Now
  <2>12. SpeakerSafe(x)'
    BY <1>1, <2>10, <2>11, SpeakerKept
  <2> QED
    BY <1>1, <1>4, <2>6, <2>8, <2>12 DEF BridgeTyped
<1>7. CASE Bridge!Jam(x)
  <2>1. UNCHANGED <<stdout, owed, said, lost>>
    BY <1>7 DEF Bridge!Jam, Bridge!pipes, Bridge!bridge
  <2>2. Unheard(x)' = Unheard(x) /\ Heard(x)' = Heard(x)
    BY <1>2, <2>1 DEF Unheard, Heard, Hearing, Bridge!Now
  <2>3. SpeakerSafe(x)'
    BY <1>1, <2>1, <2>2, SpeakerKept
  <2> QED
    BY <1>1, <1>4, <2>1, <2>3 DEF BridgeTyped
<1>8. CASE Bridge!Die(x)
  <2>1. /\ UNCHANGED <<stdout, said>> /\ owed' = [owed EXCEPT ![x] = <<>>]
        /\ lost' = [lost EXCEPT ![x] = @ \cup Bridge!CutTexts(owed[x])]
    BY <1>8 DEF Bridge!Die, Bridge!pipes
  <2>2. <<>> \in Stream /\ (h \o stdout[x]) \o <<>> = h \o stdout[x]
    BY <1>3, ConcatEmptySeq DEF Stream
  <2>3. Bridge!CutTexts(owed[x]) \in SUBSET Nat
    <3>1. \A i \in DOMAIN owed[x] : owed[x][i] \in HalfLine
      BY <1>3 DEF Stream
    <3> QED
      BY <3>1 DEF Bridge!CutTexts, HalfLine
  <2> HIDE DEF h
  <2>4. /\ owed' \in [Bridge!Who -> Stream] /\ lost' \in [Bridge!Who -> SUBSET Nat]
        /\ owed'[x] = <<>> /\ lost'[x] = lost[x] \cup Bridge!CutTexts(owed[x])
        /\ \A y \in Bridge!Who \ {x} : owed'[y] = owed[y] /\ lost'[y] = lost[y]
    BY <1>1, <2>1, <2>2, <2>3 DEF BridgeTyped
  <2>5. Unheard(x) = (h \o stdout[x]) \o owed[x] /\ Unheard(x)' = h \o stdout[x]
    BY <1>3, <2>1, <2>2, <2>4 DEF Unheard, h
  <2>6. Heard(x) \cup Bridge!CutTexts(owed[x]) \subseteq Heard(x)'
    BY <1>2, <2>4 DEF Heard, Hearing, Bridge!Now
  <2>7. Paired(Unheard(x), Heard(x)) /\ Complete(said[x], Unheard(x), Heard(x))
    BY <1>1 DEF SpeakerSafe
  <2>8. Paired(h \o stdout[x], Heard(x)') /\ Complete(said[x], h \o stdout[x], Heard(x)')
    BY <1>3, <2>5, <2>6, <2>7, LostEnd
  <2>9. SpeakerSafe(x)'
    BY <2>1, <2>5, <2>8 DEF SpeakerSafe
  <2> QED
    BY <1>1, <1>4, <2>1, <2>4, <2>9 DEF BridgeTyped
<1> QED
  BY <1>5, <1>6, <1>7, <1>8

\* The turns of a debate are turns.
LEMMA TurnsTyped ==
  ASSUME Debate
  PROVE  Bridge!Main \in Seq(Turn) /\ Bridge!Verdict \in Seq(Turn)
<1>1. \A x \in Bridge!Who, f \in BOOLEAN : Bridge!Send(x, f) \in Turn /\ Bridge!Hear(x, f) \in Turn
  BY DEF Bridge!Send, Bridge!Hear, Turn
<1>2. "A" \in Bridge!Who /\ "B" \in Bridge!Who /\ TRUE \in BOOLEAN /\ FALSE \in BOOLEAN
  BY DEF Bridge!Who
<1>3. ASSUME NEW n \in Nat, NEW s, s \in [1 .. 2 * n -> Turn] PROVE s \in Seq(Turn)
  <2>1. 2 * n \in Nat
    OBVIOUS
  <2> QED
    BY <1>3, <2>1
<1>4. /\ [i \in 1 .. 2 * Preface |-> Bridge!Send(IF i % 2 = 1 THEN "A" ELSE "B", FALSE)] \in Seq(Turn)
      /\ [i \in 1 .. 2 * Rounds |-> Bridge!Hear(IF i % 2 = 1 THEN "A" ELSE "B", FALSE)] \in Seq(Turn)
      /\ [i \in 1 .. 2 * 1 |-> Bridge!Send(IF i % 2 = 1 THEN "A" ELSE "B", TRUE)] \in Seq(Turn)
      /\ [i \in 1 .. 2 * 1 |-> Bridge!Hear(IF i % 2 = 1 THEN "A" ELSE "B", TRUE)] \in Seq(Turn)
  <2>1. /\ [i \in 1 .. 2 * Preface |-> Bridge!Send(IF i % 2 = 1 THEN "A" ELSE "B", FALSE)] \in [1 .. 2 * Preface -> Turn]
        /\ [i \in 1 .. 2 * Rounds |-> Bridge!Hear(IF i % 2 = 1 THEN "A" ELSE "B", FALSE)] \in [1 .. 2 * Rounds -> Turn]
        /\ [i \in 1 .. 2 * 1 |-> Bridge!Send(IF i % 2 = 1 THEN "A" ELSE "B", TRUE)] \in [1 .. 2 * 1 -> Turn]
        /\ [i \in 1 .. 2 * 1 |-> Bridge!Hear(IF i % 2 = 1 THEN "A" ELSE "B", TRUE)] \in [1 .. 2 * 1 -> Turn]
    BY <1>1, <1>2
  <2>2. Preface \in Nat /\ Rounds \in Nat /\ 1 \in Nat
    BY DEF Debate
  <2> QED
    BY <1>3, <2>1, <2>2
<1>5. Bridge!Debate \in Seq(Turn) /\ Bridge!Verdict \in Seq(Turn)
  BY <1>4, ConcatProperties DEF Bridge!Debate, Bridge!Verdict, Bridge!Turns
<1> QED
  BY <1>5, ConcatProperties DEF Bridge!Main

LEMMA TurnTyped ==
  ASSUME BridgeTyped, todo # <<>>
  PROVE  Bridge!Now \in Turn /\ Bridge!Now.who \in Bridge!Who /\ Tail(todo) \in Seq(Turn)
<1>1. Bridge!Now \in Turn /\ Tail(todo) \in Seq(Turn)
  BY HeadTailProperties DEF BridgeTyped, Bridge!Now
<1> QED
  BY <1>1 DEF Turn

\* What an answer to a reply changes.
LEMMA RespondTyped ==
  ASSUME Debate, BridgeTyped, todo # <<>>, NEW T \in SUBSET Nat, Bridge!Respond(T, Tail(todo))
  PROVE  /\ todo' \in Seq(Turn) /\ step' # "hear" /\ buf' = <<>> /\ texts' = {}
         /\ handled' \in [Bridge!Who -> SUBSET Nat]
         /\ handled'[Bridge!Now.who] = handled[Bridge!Now.who] \cup T
         /\ \A y \in Bridge!Who \ {Bridge!Now.who} : handled'[y] = handled[y]
<1>1. Bridge!Now \in Turn /\ Bridge!Now.who \in Bridge!Who /\ Tail(todo) \in Seq(Turn) /\ todo \in Seq(Turn)
  BY TurnTyped DEF BridgeTyped
<1>2. buf' = <<>> /\ texts' = {} /\ step' # "hear"
      /\ handled' = [handled EXCEPT ![Bridge!Now.who] = @ \cup T]
  BY DEF Bridge!Respond
<1>3. todo' \in Seq(Turn)
  <2>1. CASE todo' = IF Bridge!Now.final THEN Tail(todo) ELSE Bridge!Verdict
    BY <1>1, <2>1, TurnsTyped
  <2>2. CASE todo' = todo
    BY <1>1, <2>2
  <2>3. ASSUME NEW n \in 1 .. Chunks,
               todo' = [i \in 1 .. n |-> Bridge!Send(Bridge!Other(Bridge!Now.who), Bridge!Now.final)] \o Tail(todo)
        PROVE  todo' \in Seq(Turn)
    <3> DEFINE t == Bridge!Send(Bridge!Other(Bridge!Now.who), Bridge!Now.final)
    <3>1. t \in Turn
      BY <1>1 DEF Turn, Bridge!Send, Bridge!Other, Bridge!Who
    <3> HIDE DEF t
    <3>2. n \in Nat
      BY DEF Debate
    <3>3. [i \in 1 .. n |-> t] \in Seq(Turn)
      BY <3>1, <3>2
    <3>4. [i \in 1 .. n |-> t] \o Tail(todo) \in Seq(Turn)
      BY <1>1, <3>3, ConcatProperties
    <3> QED
      BY <2>3, <3>4 DEF t
  <2> QED
    BY <2>1, <2>2, <2>3 DEF Bridge!Respond
<1> QED
  BY <1>1, <1>2, <1>3 DEF BridgeTyped

\* What is heard of the speaker, whose part d of the stream is dealt with.
LEMMA HearingKeeps ==
  ASSUME BridgeInv, NEW w \in Bridge!Who,
         NEW d \in Stream, NEW r \in Stream,
         Unheard(w) = d \o r, Unheard(w)' = r, Heard(w) \cup Bridge!CutTexts(d) \subseteq Heard(w)',
         UNCHANGED said,
         \A y \in Bridge!Who \ {w} : Unheard(y)' = Unheard(y) /\ Heard(y) \subseteq Heard(y)'
  PROVE  \A y \in Bridge!Who : SpeakerSafe(y)'
<1>1. \A y \in Bridge!Who : SpeakerSafe(y) /\ said[y] \in Nat
  BY DEF BridgeInv, BridgeTyped
<1>2. ASSUME NEW y \in Bridge!Who \ {w} PROVE SpeakerSafe(y)'
  BY <1>1, SpeakerKept
<1>3. Paired(d \o r, Heard(w)) /\ Complete(said[w], d \o r, Heard(w))
  BY <1>1 DEF SpeakerSafe
<1>4. Paired(r, Heard(w)') /\ Complete(said[w], r, Heard(w)')
  BY <1>1, <1>3, HeardRest
<1>5. SpeakerSafe(w)'
  BY <1>4 DEF SpeakerSafe
<1> QED
  BY <1>2, <1>5

\* While w is heard, the others' lines wait in their pipes.
LEMMA WhileHearing ==
  ASSUME BridgeInv, step = "hear"
  PROVE  LET w == Bridge!Now.who
         IN  /\ w \in Bridge!Who /\ todo # <<>>
             /\ Unheard(w) = (buf \o stdout[w]) \o owed[w]
             /\ Heard(w) = handled[w] \cup lost[w] \cup texts
             /\ \A y \in Bridge!Who \ {w} :
                  /\ Unheard(y) = (<<>> \o stdout[y]) \o owed[y]
                  /\ Heard(y) = handled[y] \cup lost[y]
BY TurnTyped DEF BridgeInv, Unheard, Heard, Hearing

LEMMA NotHearing ==
  ASSUME BridgeTyped, step # "hear", NEW y \in Bridge!Who
  PROVE  /\ Unheard(y) = (<<>> \o stdout[y]) \o owed[y]
         /\ Unheard(y) = stdout[y] \o owed[y]
         /\ Heard(y) = handled[y] \cup lost[y]
<1>1. <<>> \o stdout[y] = stdout[y]
  BY StreamsTyped, ConcatEmptySeq DEF Stream
<1> QED
  BY <1>1 DEF Unheard, Heard, Hearing

\* The bridge writes, begins to hear or ends: no speaker notices.
LEMMA QuietBridge ==
  ASSUME Debate, BridgeInv, Bridge!SendJson \/ Bridge!SendFails \/ Bridge!StartHearing \/ Bridge!Close
  PROVE  BridgeInv'
<1>1. BridgeTyped /\ step = "main" /\ buf = <<>> /\ texts = {} /\ \A y \in Bridge!Who : SpeakerSafe(y)
  BY DEF BridgeInv, Bridge!SendJson, Bridge!SendFails, Bridge!StartHearing, Bridge!Close
<1>2. UNCHANGED <<stdout, owed, said, buf, texts, handled, lost>>
  BY DEF Bridge!SendJson, Bridge!SendFails, Bridge!StartHearing, Bridge!Close, Bridge!pipes, Bridge!agents
<1>3. /\ todo' = todo \/ (todo # <<>> /\ todo' = Tail(todo))
      /\ step' = "hear" => todo' # <<>>
  BY <1>1 DEF Bridge!SendJson, Bridge!SendFails, Bridge!StartHearing, Bridge!Close
<1>4. todo' \in Seq(Turn)
  BY <1>1, <1>3, TurnTyped DEF BridgeTyped
<1>5. BridgeTyped'
  BY <1>1, <1>2, <1>4 DEF BridgeTyped
<1>6. ASSUME NEW y \in Bridge!Who PROVE SpeakerSafe(y)'
  <2>1. Unheard(y)' = Unheard(y) /\ Heard(y)' = Heard(y)
    BY <1>1, <1>2 DEF Unheard, Heard, Hearing
  <2> QED
    BY <1>1, <1>2, <2>1, SpeakerKept
<1> QED
  BY <1>1, <1>2, <1>3, <1>5, <1>6 DEF BridgeInv

\* What the bridge takes out of the pipe of the speaker.
LEMMA Taken ==
  ASSUME BridgeInv, step = "hear", NEW n \in 1 .. Len(stdout[Bridge!Now.who])
  PROVE  LET w == Bridge!Now.who
             c == SubSeq(stdout[w], 1, n)
             z == SubSeq(stdout[w], n + 1, Len(stdout[w]))
         IN  /\ buf \in Stream /\ c \in Stream /\ z \in Stream /\ owed[w] \in Stream
             /\ buf \o c \in Stream /\ buf \o c # <<>> /\ z \o owed[w] \in Stream
             /\ Unheard(w) = (buf \o c) \o (z \o owed[w])
             /\ (<<>> \o z) \o owed[w] = z \o owed[w]
<1> DEFINE w == Bridge!Now.who
           c == SubSeq(stdout[w], 1, n)
           z == SubSeq(stdout[w], n + 1, Len(stdout[w]))
<1>1. BridgeTyped /\ w \in Bridge!Who /\ Unheard(w) = (buf \o stdout[w]) \o owed[w]
  BY WhileHearing DEF BridgeInv
<1>2. stdout[w] \in Stream /\ owed[w] \in Stream /\ buf \in Stream /\ Len(stdout[w]) \in Nat
  BY <1>1 DEF BridgeTyped, Stream
<1>3. n \in 0 .. Len(stdout[w]) /\ n > 0
  BY <1>2
<1>4. c \in Stream /\ z \in Stream /\ stdout[w] = c \o z /\ c # <<>>
  BY <1>2, <1>3, CutAt
<1> HIDE DEF c, z, w
<1>5. buf \o c \in Stream /\ z \o owed[w] \in Stream /\ <<>> \o z = z
  BY <1>2, <1>4, ConcatProperties, ConcatEmptySeq DEF Stream
<1>6. buf \o c # <<>>
  BY <1>2, <1>4, ConcatEqualIffEmpty DEF Stream
<1>7. (buf \o stdout[w]) \o owed[w] = (buf \o c) \o (z \o owed[w])
  <2>1. buf \o (c \o z) = (buf \o c) \o z
    BY <1>2, <1>4, Thrice, Zenon
  <2>2. ((buf \o c) \o z) \o owed[w] = (buf \o c) \o (z \o owed[w])
    <3>1. buf \o c \in Stream /\ z \in Stream /\ owed[w] \in Stream
      BY <1>2, <1>4, <1>5
    <3> QED
      BY <3>1, Thrice
  <2> QED
    BY <1>4, <2>1, <2>2
<1> QED
  BY <1>1, <1>2, <1>4, <1>5, <1>6, <1>7 DEF c, z, w

LEMMA TextsTyped ==
  ASSUME NEW s \in Stream
  PROVE  Bridge!CutTexts(s) \in SUBSET Nat /\ Bridge!Parsed(s) \in SUBSET Nat
<1>1. Len(s) \in Nat /\ DOMAIN s = 1 .. Len(s) /\ \A i \in 1 .. Len(s) : s[i] \in HalfLine
  BY DEF Stream
<1>2. \A i \in 1 .. Len(s) : s[i].text \in Nat
  BY <1>1 DEF HalfLine
<1>3. \A i \in 1 .. Len(s) - 1 : i \in 1 .. Len(s)
  BY <1>1
<1> QED
  BY <1>1, <1>2, <1>3 DEF Bridge!CutTexts, Bridge!Parsed

\* The reply ends: what was got of it is heard, and the speaker's lines go on
\* with r.
LEMMA ReplyEnds ==
  ASSUME Debate, BridgeInv, step = "hear",
         NEW T \in SUBSET Nat, texts \subseteq T, Bridge!Respond(T, Tail(todo)),
         stdout' \in [Bridge!Who -> Stream], lost' \in [Bridge!Who -> SUBSET Nat],
         NEW d \in Stream, NEW r \in Stream,
         Unheard(Bridge!Now.who) = d \o r,
         (<<>> \o stdout'[Bridge!Now.who]) \o owed[Bridge!Now.who] = r,
         lost[Bridge!Now.who] \subseteq lost'[Bridge!Now.who],
         Bridge!CutTexts(d) \subseteq Heard(Bridge!Now.who) \cup T \cup lost'[Bridge!Now.who],
         UNCHANGED <<owed, said>>,
         \A y \in Bridge!Who \ {Bridge!Now.who} : stdout'[y] = stdout[y] /\ lost'[y] = lost[y]
  PROVE  BridgeInv'
<1>0. PICK w \in Bridge!Who : w = Bridge!Now.who
  BY WhileHearing
<1>1. /\ w \in Bridge!Who /\ todo # <<>> /\ BridgeTyped
      /\ Heard(w) = handled[w] \cup lost[w] \cup texts
      /\ \A y \in Bridge!Who \ {w} :
           Unheard(y) = (<<>> \o stdout[y]) \o owed[y] /\ Heard(y) = handled[y] \cup lost[y]
  BY <1>0, WhileHearing DEF BridgeInv
<1>2. /\ todo' \in Seq(Turn) /\ step' # "hear" /\ buf' = <<>> /\ texts' = {}
      /\ handled' \in [Bridge!Who -> SUBSET Nat]
      /\ handled'[w] = handled[w] \cup T
      /\ \A y \in Bridge!Who \ {w} : handled'[y] = handled[y]
  BY <1>0, <1>1, RespondTyped
<1>3. BridgeTyped'
  <2>1. <<>> \in Stream /\ {} \in SUBSET Nat
    BY DEF Stream
  <2> QED
    BY <1>1, <1>2, <2>1 DEF BridgeTyped
<1>4. \A y \in Bridge!Who : /\ Unheard(y)' = (<<>> \o stdout'[y]) \o owed'[y]
                            /\ Heard(y)' = handled'[y] \cup lost'[y]
  BY <1>2 DEF Unheard, Heard, Hearing
<1>5. Unheard(w) = d \o r /\ Unheard(w)' = r
  BY <1>0, <1>1, <1>4
<1>6. Heard(w) \cup Bridge!CutTexts(d) \subseteq Heard(w)'
  <2>1. Heard(w)' = handled[w] \cup T \cup lost'[w]
    BY <1>1, <1>2, <1>4
  <2>2. Heard(w) \subseteq Heard(w)'
    BY <1>0, <1>1, <2>1
  <2> QED
    BY <1>0, <2>1, <2>2
<1>7. \A y \in Bridge!Who \ {w} : Unheard(y)' = Unheard(y) /\ Heard(y) \subseteq Heard(y)'
  <2>1. ASSUME NEW y \in Bridge!Who \ {w} PROVE Unheard(y)' = Unheard(y) /\ Heard(y) \subseteq Heard(y)'
    <3>1. stdout'[y] = stdout[y] /\ lost'[y] = lost[y] /\ handled'[y] = handled[y] /\ owed'[y] = owed[y]
      BY <1>0, <1>2
    <3>2. Unheard(y) = (<<>> \o stdout[y]) \o owed[y] /\ Heard(y) = handled[y] \cup lost[y]
      BY <1>1
    <3>3. Unheard(y)' = (<<>> \o stdout'[y]) \o owed'[y] /\ Heard(y)' = handled'[y] \cup lost'[y]
      BY <1>4
    <3> QED
      BY <3>1, <3>2, <3>3
  <2> QED
    BY <2>1
<1>8. \A y \in Bridge!Who : SpeakerSafe(y)'
  <2>1. w \in Bridge!Who /\ d \in Stream /\ r \in Stream /\ UNCHANGED said
    BY <1>1
  <2> QED
    BY <1>5, <1>6, <1>7, <2>1, HearingKeeps
<1> QED
  BY <1>2, <1>3, <1>8 DEF BridgeInv

LEMMA ReadKeeps ==
  ASSUME Debate, BridgeInv, Bridge!Read
  PROVE  BridgeInv'
<1>1. step = "hear" /\ UNCHANGED <<owed, said, lost>>
  BY DEF Bridge!Read, Bridge!agents
<1>2. PICK w \in Bridge!Who : w = Bridge!Now.who
  BY <1>1, WhileHearing
<1>3. /\ BridgeTyped /\ todo # <<>>
      /\ Heard(w) = handled[w] \cup lost[w] \cup texts
      /\ \A y \in Bridge!Who \ {w} :
           Unheard(y) = (<<>> \o stdout[y]) \o owed[y] /\ Heard(y) = handled[y] \cup lost[y]
  BY <1>1, <1>2, WhileHearing DEF BridgeInv
<1>4. PICK n \in 1 .. Len(stdout[w]) :
        LET s == buf \o SubSeq(stdout[w], 1, n)
            T == texts \cup Bridge!Parsed(s)
        IN  /\ stdout' = [stdout EXCEPT ![w] = SubSeq(stdout[w], n + 1, Len(stdout[w]))]
            /\ IF T # {} /\ Bridge!Remainder(s) = <<>>
               THEN Bridge!Respond(T, Tail(todo))
               ELSE /\ texts' = T
                    /\ buf' = Bridge!Remainder(s)
                    /\ UNCHANGED <<todo, step, handled>>
  BY <1>2 DEF Bridge!Read
<1> DEFINE s == buf \o SubSeq(stdout[w], 1, n)
           z == SubSeq(stdout[w], n + 1, Len(stdout[w]))
           r == z \o owed[w]
           T == texts \cup Bridge!Parsed(s)
<1>5. /\ s \in Stream /\ z \in Stream /\ owed[w] \in Stream /\ s # <<>> /\ r \in Stream
      /\ Unheard(w) = s \o r
      /\ (<<>> \o z) \o owed[w] = r
  BY <1>1, <1>2, Taken
<1>6. /\ stdout' = [stdout EXCEPT ![w] = z]
      /\ \/ Bridge!Remainder(s) = <<>> /\ Bridge!Respond(T, Tail(todo))
         \/ texts' = T /\ buf' = Bridge!Remainder(s) /\ UNCHANGED <<todo, step, handled>>
  BY <1>4
<1> HIDE DEF s, z, r
<1>7. Paired(s \o r, Heard(w))
  BY <1>2, <1>5 DEF BridgeInv, SpeakerSafe
<1>8. PICK d \in Stream : /\ s \o r = d \o (Bridge!Remainder(s) \o r)
                          /\ Bridge!Remainder(s) \in Stream
                          /\ Bridge!CutTexts(d) \subseteq Heard(w) \cup Bridge!Parsed(s)
  <2>1. s \in Stream /\ r \in Stream /\ s # <<>> /\ Paired(s \o r, Heard(w))
    BY <1>5, <1>7
  <2> QED
    BY <2>1, ReadSplit
<1>9. T \in SUBSET Nat /\ texts \subseteq T /\ Bridge!Parsed(s) \subseteq T
  BY <1>3, <1>5, TextsTyped DEF BridgeTyped
<1>10. /\ stdout' \in [Bridge!Who -> Stream] /\ stdout'[w] = z
       /\ \A y \in Bridge!Who \ {w} : stdout'[y] = stdout[y]
  BY <1>3, <1>5, <1>6 DEF BridgeTyped
<1> HIDE DEF T
<1>11. CASE Bridge!Remainder(s) = <<>> /\ Bridge!Respond(T, Tail(todo))
  <2>1. <<>> \o r = r
    BY <1>5, ConcatEmptySeq DEF Stream
  <2>2. Unheard(w) = d \o r
    BY <1>5, <1>8, <1>11, <2>1
  <2>3. (<<>> \o stdout'[w]) \o owed[w] = r
    BY <1>5, <1>10
  <2>4. Bridge!CutTexts(d) \subseteq Heard(w) \cup T \cup lost'[w]
    BY <1>8, <1>9
  <2>5. lost' \in [Bridge!Who -> SUBSET Nat] /\ lost' = lost
    BY <1>1, <1>3 DEF BridgeTyped
  <2> QED
    BY <1>1, <1>2, <1>5, <1>9, <1>10, <1>11, <2>2, <2>3, <2>4, <2>5, ReplyEnds
<1>12. CASE texts' = T /\ buf' = Bridge!Remainder(s) /\ UNCHANGED <<todo, step, handled>>
  <2> DEFINE b == Bridge!Remainder(s)
  <2>1. BridgeTyped'
    BY <1>1, <1>3, <1>8, <1>9, <1>10, <1>12 DEF BridgeTyped
  <2>2. /\ Unheard(w)' = (buf' \o stdout'[w]) \o owed[w]
        /\ Heard(w)' = handled[w] \cup lost[w] \cup T
        /\ \A y \in Bridge!Who \ {w} :
             Unheard(y)' = (<<>> \o stdout'[y]) \o owed[y] /\ Heard(y)' = handled[y] \cup lost[y]
    BY <1>1, <1>2, <1>12 DEF Unheard, Heard, Hearing, Bridge!Now
  <2>3. (b \o z) \o owed[w] = b \o r
    BY <1>5, <1>8, Thrice DEF r
  <2>4. Unheard(w) = d \o (b \o r) /\ Unheard(w)' = b \o r
    BY <1>5, <1>8, <1>10, <1>12, <2>2, <2>3
  <2>5. Heard(w) \cup Bridge!CutTexts(d) \subseteq Heard(w)'
    BY <1>3, <1>8, <1>9, <2>2
  <2>6. b \o r \in Stream
    BY <1>5, <1>8, ConcatProperties DEF Stream
  <2>7. \A y \in Bridge!Who \ {w} : Unheard(y)' = Unheard(y) /\ Heard(y) \subseteq Heard(y)'
    BY <1>3, <1>10, <2>2
  <2> HIDE DEF b
  <2>8. \A y \in Bridge!Who : SpeakerSafe(y)'
    BY <1>1, <2>4, <2>5, <2>6, <2>7, HearingKeeps
  <2> QED
    BY <1>1, <1>3, <1>12, <2>1, <2>8 DEF BridgeInv
<1> QED
  BY <1>6, <1>11, <1>12

\* The reply is cut: by the buffer limit, which drops chunk c, or by a timeout or
\* the end of the stream, when there is no chunk.
LEMMA CutKeeps ==
  ASSUME Debate, BridgeInv, Bridge!Overflow \/ Bridge!ReadEnds
  PROVE  BridgeInv'
<1>1. step = "hear" /\ UNCHANGED <<owed, said>> /\ Bridge!Respond(texts, Tail(todo))
  BY DEF Bridge!Overflow, Bridge!ReadEnds, Bridge!agents
<1>2. PICK w \in Bridge!Who : w = Bridge!Now.who
  BY <1>1, WhileHearing
<1>3. BridgeTyped /\ todo # <<>> /\ texts \in SUBSET Nat /\ texts \subseteq texts
      /\ buf \in Stream /\ owed[w] \in Stream /\ stdout[w] \in Stream
      /\ Unheard(w) = (buf \o stdout[w]) \o owed[w]
  BY <1>1, <1>2, WhileHearing DEF BridgeInv, BridgeTyped
<1>4. ASSUME NEW d \in Stream, NEW r \in Stream, NEW z \in Stream,
             Unheard(w) = d \o r, (<<>> \o z) \o owed[w] = r,
             stdout' = [stdout EXCEPT ![w] = z],
             lost' = [lost EXCEPT ![w] = lost[w] \cup Bridge!CutTexts(d)]
      PROVE  BridgeInv'
  <2>1. Bridge!CutTexts(d) \in SUBSET Nat
    BY TextsTyped
  <2>2. /\ stdout' \in [Bridge!Who -> Stream] /\ stdout'[w] = z
        /\ \A y \in Bridge!Who \ {w} : stdout'[y] = stdout[y]
    BY <1>3, <1>4 DEF BridgeTyped
  <2>3. /\ lost' \in [Bridge!Who -> SUBSET Nat] /\ lost'[w] = lost[w] \cup Bridge!CutTexts(d)
        /\ \A y \in Bridge!Who \ {w} : lost'[y] = lost[y]
    BY <1>3, <1>4, <2>1 DEF BridgeTyped
  <2>4. (<<>> \o stdout'[w]) \o owed[w] = r
    BY <1>4, <2>2
  <2>5. Bridge!CutTexts(d) \subseteq Heard(w) \cup texts \cup lost'[w] /\ lost[w] \subseteq lost'[w]
    BY <2>3
  <2> QED
    <3> DEFINE T == texts
    <3>1. /\ T \in SUBSET Nat /\ texts \subseteq T /\ Bridge!Respond(T, Tail(todo))
          /\ Bridge!CutTexts(d) \subseteq Heard(w) \cup T \cup lost'[w]
      BY <1>1, <1>3, <2>5
    <3> HIDE DEF T
    <3> QED
      <4>1. /\ Unheard(Bridge!Now.who) = d \o r
            /\ (<<>> \o stdout'[Bridge!Now.who]) \o owed[Bridge!Now.who] = r
            /\ lost[Bridge!Now.who] \subseteq lost'[Bridge!Now.who]
            /\ Bridge!CutTexts(d) \subseteq Heard(Bridge!Now.who) \cup T \cup lost'[Bridge!Now.who]
            /\ \A y \in Bridge!Who \ {Bridge!Now.who} : stdout'[y] = stdout[y] /\ lost'[y] = lost[y]
        BY <1>2, <1>4, <2>2, <2>3, <2>4, <2>5, <3>1
      <4>2. stdout' \in [Bridge!Who -> Stream] /\ lost' \in [Bridge!Who -> SUBSET Nat]
        BY <2>2, <2>3
      <4> QED
        BY <1>1, <3>1, <4>1, <4>2, ReplyEnds
<1>5. CASE Bridge!Overflow
  <2>1. PICK n \in 1 .. Len(stdout[w]) :
          /\ stdout' = [stdout EXCEPT ![w] = SubSeq(stdout[w], n + 1, Len(stdout[w]))]
          /\ lost' = [lost EXCEPT ![w] = lost[w] \cup Bridge!CutTexts(buf \o SubSeq(stdout[w], 1, n))]
    BY <1>2, <1>5 DEF Bridge!Overflow
  <2> DEFINE d == buf \o SubSeq(stdout[w], 1, n)
             z == SubSeq(stdout[w], n + 1, Len(stdout[w]))
  <2>2. /\ d \in Stream /\ z \in Stream /\ z \o owed[w] \in Stream
        /\ Unheard(w) = d \o (z \o owed[w]) /\ (<<>> \o z) \o owed[w] = z \o owed[w]
    BY <1>1, <1>2, Taken
  <2>3. stdout' = [stdout EXCEPT ![w] = z] /\ lost' = [lost EXCEPT ![w] = lost[w] \cup Bridge!CutTexts(d)]
    BY <2>1
  <2> HIDE DEF d, z
  <2> QED
    BY <1>4, <2>2, <2>3
<1>6. CASE Bridge!ReadEnds
  <2>1. /\ stdout[w] = <<>> /\ stdout' = stdout
        /\ lost' = [lost EXCEPT ![w] = lost[w] \cup Bridge!CutTexts(buf)]
    BY <1>2, <1>6 DEF Bridge!ReadEnds, Bridge!pipes
  <2>2. <<>> \in Stream /\ buf \o <<>> = buf /\ <<>> \o owed[w] = owed[w] /\ <<>> \o <<>> = <<>>
    BY <1>3, ConcatEmptySeq DEF Stream
  <2>3. Unheard(w) = buf \o owed[w] /\ (<<>> \o stdout[w]) \o owed[w] = owed[w]
    BY <1>3, <2>1, <2>2
  <2>4. stdout' = [stdout EXCEPT ![w] = stdout[w]]
    BY <1>3, <2>1 DEF BridgeTyped
  <2> QED
    BY <1>3, <1>4, <2>1, <2>3, <2>4
<1> QED
  BY <1>5, <1>6

LEMMA BridgeStep == Debate /\ BridgeInv /\ [Bridge!Next]_(Bridge!vars) => BridgeInv'
<1> SUFFICES ASSUME Debate, BridgeInv, [Bridge!Next]_(Bridge!vars) PROVE BridgeInv'
  OBVIOUS
<1>1. CASE UNCHANGED Bridge!vars
  <2>1. UNCHANGED <<stdin, stdout, owed, said, agent, todo, step, buf, texts, handled, lost>>
    BY <1>1 DEF Bridge!vars, Bridge!pipes, Bridge!agents, Bridge!bridge
  <2>2. ASSUME NEW y \in Bridge!Who PROVE SpeakerSafe(y)'
    <3>1. Unheard(y)' = Unheard(y) /\ Heard(y)' = Heard(y)
      BY <2>1 DEF Unheard, Heard, Hearing, Bridge!Now
    <3> QED
      BY <2>1, <3>1, SpeakerKept DEF BridgeInv
  <2> QED
    BY <2>1, <2>2 DEF BridgeInv, BridgeTyped
<1>2. CASE Bridge!Main_
  BY <1>2, QuietBridge, ReadKeeps, CutKeeps DEF Bridge!Main_
<1>3. ASSUME NEW x \in Bridge!Who, Bridge!Take(x) \/ Bridge!Speak(x) \/ Bridge!Jam(x) \/ Bridge!Die(x)
      PROVE  BridgeInv'
  BY <1>3, AgentKeeps
<1> QED
  BY <1>1, <1>2, <1>3 DEF Bridge!Next

LEMMA BridgeInit == ASSUME Debate, Bridge!Init PROVE BridgeInv
<1>1. <<>> \in Stream /\ <<>> \o <<>> = <<>>
  BY ConcatEmptySeq DEF Stream
<1>2. BridgeTyped
  BY <1>1, TurnsTyped DEF Bridge!Init, BridgeTyped
<1>3. step = "main" /\ buf = <<>> /\ texts = {}
  BY DEF Bridge!Init
<1>4. ASSUME NEW y \in Bridge!Who PROVE SpeakerSafe(y)
  <2>1. Unheard(y) = <<>> /\ said[y] = 0
    BY <1>1, <1>3 DEF Unheard, Hearing, Bridge!Init
  <2> QED
    BY <2>1 DEF SpeakerSafe, Paired, Complete
<1> QED
  BY <1>2, <1>3, <1>4 DEF BridgeInv

\* The place of what an agent has said is as the property lists it.
LEMMA BridgeMeans == BridgeInv => Bridge!NoTextSwallowed
<1>1. ASSUME BridgeInv, NEW x \in Bridge!Who, NEW n \in 1 .. said[x]
      PROVE  \/ n \in handled[x] \cup lost[x]
             \/ step = "hear" /\ Bridge!Now.who = x /\ n \in texts \cup Bridge!CutTexts(buf)
             \/ n \in Bridge!CutTexts(stdout[x]) \cup Bridge!CutTexts(owed[x])
  <2> DEFINE h == IF Hearing(x) THEN buf ELSE <<>>
  <2>1. /\ h \in Stream /\ stdout[x] \in Stream /\ owed[x] \in Stream /\ h \o stdout[x] \in Stream
    BY <1>1, StreamsTyped DEF BridgeInv
  <2>2. n \in Heard(x) \cup Bridge!CutTexts(Unheard(x))
    BY <1>1 DEF BridgeInv, SpeakerSafe, Complete
  <2>3. Unheard(x) = (h \o stdout[x]) \o owed[x]
    BY DEF Unheard
  <2> HIDE DEF h
  <2>4. Bridge!CutTexts(Unheard(x)) = Bridge!CutTexts(h) \cup Bridge!CutTexts(stdout[x]) \cup Bridge!CutTexts(owed[x])
    BY <2>1, <2>3, CutParts
  <2>5. n \in Bridge!CutTexts(h) => Hearing(x) /\ n \in Bridge!CutTexts(buf)
    BY DEF h, Bridge!CutTexts
  <2>6. n \in Heard(x) => n \in handled[x] \cup lost[x] \/ (Hearing(x) /\ n \in texts)
    BY DEF Heard
  <2> QED
    BY <2>2, <2>4, <2>5, <2>6 DEF Hearing
<1> QED
  BY <1>1 DEF Bridge!NoTextSwallowed

\* read_reply_chunked and debate_round: for debates of any length, prompts and
\* replies of any number and pipes of any size, a text is relayed or answered, is
\* on its way, or was cut by a timeout, the agent's end or the buffer limit.
THEOREM NoTextIsSwallowed == Spec => []NoTextSwallowed
<1> DEFINE Safe == program = "bridge" => BridgeInv
<1>0. Debate
  BY DebateAssumption DEF Debate
<1>1. Init => Safe
  BY <1>0, BridgeInit DEF Init
<1>2. ASSUME Safe, [Next]_vars PROVE Safe'
  <2>1. CASE Next
    <3>1. program' = program
      BY <2>1 DEF Next
    <3>2. ASSUME program = "bridge" PROVE BridgeInv'
      <4>1. BridgeInv /\ [Bridge!Next]_(Bridge!vars)
        BY <1>2, <2>1, <3>2 DEF Next
      <4> QED
        BY <1>0, <4>1, BridgeStep
    <3> QED
      BY <3>1, <3>2
  <2>2. CASE UNCHANGED vars
    <3>1. program' = program /\ UNCHANGED debate
      BY <2>2 DEF vars
    <3>2. ASSUME BridgeInv PROVE BridgeInv'
      <4>1. UNCHANGED Bridge!vars
        BY <3>1 DEF debate, Bridge!vars, Bridge!pipes, Bridge!agents, Bridge!bridge
      <4> QED
        BY <1>0, <3>2, <4>1, BridgeStep
    <3> QED
      BY <1>2, <3>1, <3>2
  <2> QED
    BY <1>2, <2>1, <2>2
<1>3. Safe => NoTextSwallowed
  BY BridgeMeans DEF NoTextSwallowed
<1> QED
  BY <1>1, <1>2, <1>3, PTL DEF Spec

-----------------------------------------------------------------------------
(* amoCRM, one call at a time: the invariant of AmoClientProofs, and that  *)
(* the one call there is sends the pair that the process and the file hold *)

Client == INSTANCE AmoClientProofs WITH Kinds <- Loops

ClientInv ==
  /\ Client!TokenInv
  /\ Client!DurableCustody
  /\ Client!UnauthorizedExplained
  /\ \A t \in Task : Client!OneCall(t)

\* The steps of the client are those that the invariant is about.
LEMMA ClientSteps == [Amo!Next]_(Amo!vars) => [Client!Next]_(Client!vars)
<1>2. ASSUME NEW t \in Task, NEW k \in Loops, Amo!StartCall(t, k) PROVE Client!Next
  <2>1. Client!StartCall(t, k)
    BY <1>2 DEF Amo!StartCall, Client!StartCall, Amo!NewRequest, Client!NewRequest, Amo!Home, Client!Home,
                Amo!tokenVars, Client!tokenVars
  <2> QED
    BY <2>1 DEF Client!Next
<1>3. ASSUME NEW t \in Task, Amo!Progress(t) PROVE Client!Next
  <2>1. CASE Amo!ApiAnswer(t)
    <3>1. Client!ApiAnswer(t)
      BY <2>1 DEF Amo!ApiAnswer, Client!ApiAnswer, Amo!Answers, Client!Answers, Amo!MaxSends, Client!MaxSends,
                  Amo!tokenVars, Client!tokenVars
    <3> QED
      BY <3>1 DEF Client!Next, Client!Progress
  <2>2. CASE Amo!BeginRefresh(t) \/ Amo!Backoff(t) \/ Amo!Return(t)
    <3>1. Client!BeginRefresh(t) \/ Client!Backoff(t) \/ Client!Return(t)
      BY <2>2 DEF Amo!BeginRefresh, Client!BeginRefresh, Amo!Backoff, Client!Backoff, Amo!Return, Client!Return,
                  Amo!MayRefresh, Client!MayRefresh, Amo!Retries, Client!Retries, Amo!Home, Client!Home,
                  Amo!Finish, Client!Finish, Amo!tokenVars, Client!tokenVars
    <3> QED
      BY <3>1 DEF Client!Next, Client!Progress
  <2>3. CASE Amo!TokenGrant(t) \/ Amo!TokenDeny(t) \/ Amo!TokenReject(t)
    <3>1. Client!TokenGrant(t) \/ Client!TokenDeny(t) \/ Client!TokenReject(t)
      BY <2>3 DEF Amo!TokenGrant, Client!TokenGrant, Amo!TokenDeny, Client!TokenDeny, Amo!TokenReject,
                  Client!TokenReject, Amo!tokenVars, Client!tokenVars
    <3> QED
      BY <3>1 DEF Client!Next, Client!Progress
  <2>4. CASE Amo!StoreTokens(t) \/ Amo!RefreshExpired(t) \/ Amo!RefreshFailed(t)
    <3>1. Client!StoreTokens(t) \/ Client!RefreshExpired(t) \/ Client!RefreshFailed(t)
      BY <2>4 DEF Amo!StoreTokens, Client!StoreTokens, Amo!RefreshExpired, Client!RefreshExpired,
                  Amo!RefreshFailed, Client!RefreshFailed, Amo!Home, Client!Home, Amo!Finish, Client!Finish,
                  Amo!tokenVars, Client!tokenVars
    <3> QED
      BY <3>1 DEF Client!Next, Client!Progress
  <2> QED
    BY <1>3, <2>1, <2>2, <2>3, <2>4 DEF Amo!Progress
<1>4. ASSUME NEW t \in Task, Amo!StoreFails(t) \/ Amo!Timeout(t) PROVE Client!Next
  <2>1. Client!StoreFails(t) \/ Client!Timeout(t)
    BY <1>4 DEF Amo!StoreFails, Client!StoreFails, Amo!Timeout, Client!Timeout, Amo!Home, Client!Home,
                Amo!Waiting, Client!Waiting, Amo!Finish, Client!Finish, Amo!tokenVars, Client!tokenVars
  <2> QED
    BY <2>1 DEF Client!Next
<1>5. ASSUME NEW p \in Proc, Amo!Crash(p) \/ Amo!Restart(p) PROVE Client!Next
  <2>1. Client!Crash(p) \/ Client!Restart(p)
    BY <1>5 DEF Amo!Crash, Client!Crash, Amo!Restart, Client!Restart, Amo!Home, Client!Home,
                Amo!tokenVars, Client!tokenVars
  <2> QED
    BY <2>1 DEF Client!Next
<1>6. ASSUME Amo!ExpireAccess \/ Amo!ExpireRefresh PROVE Client!Next
  BY <1>6 DEF Amo!ExpireAccess, Client!ExpireAccess, Amo!ExpireRefresh, Client!ExpireRefresh, Client!Next
<1>7. Amo!Next => Client!Next
  <2> SUFFICES ASSUME Amo!Next PROVE Client!Next
    OBVIOUS
  <2>1. CASE \E t \in Task : \/ \E k \in Loops : Amo!StartCall(t, k)
                            \/ Amo!Progress(t) \/ Amo!StoreFails(t) \/ Amo!Timeout(t)
    BY <1>2, <1>3, <1>4, <2>1
  <2>2. CASE \E p \in Proc : Amo!Crash(p) \/ Amo!Restart(p)
    BY <1>5, <2>2
  <2> QED
    BY <1>6, <2>1, <2>2 DEF Amo!Next
<1>8. UNCHANGED Amo!vars => UNCHANGED Client!vars
  BY DEF Amo!vars, Client!vars
<1> QED
  BY <1>7, <1>8

LEMMA ClientAssumed == Client!RetryAssumption /\ Client!GenAssumption /\ Client!KindAssumption
BY OneCallAssumption
   DEF Client!RetryAssumption, Client!GenAssumption, Client!KindAssumption, Amo!AllKinds, Client!AllKinds,
       Amo!AllFaults, Client!AllFaults

LEMMA ClientInit == Amo!Init => ClientInv
<1> SUFFICES ASSUME Amo!Init PROVE ClientInv
  OBVIOUS
<1>1. Client!Init
  BY DEF Amo!Init, Client!Init, Amo!NewRequest, Client!NewRequest
<1>2. Client!TokenInv
  BY <1>1, ClientAssumed, Client!InitTokenInv
<1> QED
  BY <1>1, <1>2
     DEF ClientInv, Client!Init, Client!DurableCustody, Client!UnauthorizedExplained, Client!OneCall

LEMMA ClientStep == ClientInv /\ [Amo!Next]_(Amo!vars) => ClientInv'
<1> SUFFICES ASSUME ClientInv, [Amo!Next]_(Amo!vars) PROVE ClientInv'
  OBVIOUS
<1>1. [Client!Next]_(Client!vars)
  BY ClientSteps
<1>2. Client!TokenInv'
  BY <1>1, ClientAssumed, Client!NextTokenInv DEF ClientInv
<1>3. Client!TypeOK
  BY DEF ClientInv, Client!TokenInv
<1>4. Client!DurableCustody'
  BY <1>1, <1>2, ClientAssumed, Client!NextDurable DEF ClientInv
<1>5. Client!UnauthorizedExplained'
  BY <1>1, <1>3, ClientAssumed, Client!NextUnauthorized DEF ClientInv
<1>6. ASSUME NEW t \in Task PROVE Client!OneCall(t)'
  <2>1. PICK p \in Proc : Proc = {p}
    BY OneCallAssumption
  <2>2. Task = {t}
    BY OneCallAssumption
  <2>3. Client!OneCall(t) /\ Client!DurableCustody
    BY DEF ClientInv
  <2> QED
    BY <1>1, <1>3, <2>1, <2>2, <2>3, ClientAssumed, Client!NextOneCall
<1> QED
  BY <1>2, <1>4, <1>5, <1>6 DEF ClientInv

LEMMA ClientMeans == ClientInv => Amo!TokensServe
BY DEF ClientInv, Client!OneCall, Client!Useless, Client!UnauthorizedExplained, Amo!TokensServe,
       Amo!ReauthOnlyWhenExpired, Amo!UnauthorizedExplained

\* With one call at a time, whatever fails and for any limits, the caller is told
\* to authorize anew only if the refresh token is of no use any more, and sees a
\* 401 only after a refresh or a 429 (refresh_token, _send_request, _handle_429).
THEOREM TokensAreServed == Spec => []TokensServe
<1> DEFINE Safe == program = "amocrm" => ClientInv
<1>1. Init => Safe
  BY ClientInit DEF Init
<1>2. ASSUME Safe, [Next]_vars PROVE Safe'
  <2>1. CASE Next
    <3>1. program' = program
      BY <2>1 DEF Next
    <3>2. ASSUME program = "amocrm" PROVE ClientInv'
      <4>1. ClientInv /\ [Amo!Next]_(Amo!vars)
        BY <1>2, <2>1, <3>2 DEF Next
      <4> QED
        BY <4>1, ClientStep
    <3> QED
      BY <3>1, <3>2
  <2>2. CASE UNCHANGED vars
    <3>1. program' = program /\ UNCHANGED client
      BY <2>2 DEF vars
    <3>2. ASSUME ClientInv PROVE ClientInv'
      <4>1. UNCHANGED Amo!vars
        BY <3>1 DEF client, Amo!vars
      <4> QED
        BY <3>2, <4>1, ClientStep
    <3> QED
      BY <1>2, <3>1, <3>2
  <2> QED
    BY <1>2, <2>1, <2>2
<1>3. Safe => TokensServe
  BY ClientMeans DEF TokensServe
<1> QED
  BY <1>1, <1>2, <1>3, PTL DEF Spec

-----------------------------------------------------------------------------
(* Locks of modules.  The work list of validate_resolver_result_semantics  *)
(* holds what every closed selection has, and what it is done with is      *)
(* closed; so it ends with the least one.                                  *)

\* Numbers have a least one.
LEMMA LeastNat ==
  ASSUME NEW T \in SUBSET Nat, T # {}
  PROVE  \E x \in T : \A y \in T : x <= y
<1>1. PICK x \in T : \A y \in T : ~ (<<y, x>> \in OpToRel(<, Nat))
  BY NatLessThanWellFounded, WFMin, Zenon
<1>2. \A y \in T : ~ (y < x)
  BY <1>1 DEF OpToRel
<1> QED
  BY <1>2

Chosen == Lock!Resolved(v3)
Wanted ==
  {d.module : d \in Lock!Enabled}
    \cup UNION {Lock!Ids(Lock!Provider(v3, p[1])) : p \in v1.capabilities}

Admitted == Lock!Bound /\ Lock!ModulesHold /\ Lock!CapabilitiesHold

\* What the manifests declare is bound.
Binds ==
  /\ \A k \in Lock!Kinds : Lock!ListHolds(v3, k, v1.custody)
  /\ \A e \in Chosen : Lock!CustodyHolds(e, v1.custody)
  /\ Lock!EndpointsHold(v3)

\* The loop is done with module x.
Settled(x) ==
  /\ x \notin Lock!Disabled
  /\ \E e \in Chosen : e.module = x
  /\ \A e \in Chosen : e.module = x => Lock!Fits(e) /\ Lock!Drags(e) \subseteq v5

WorkList ==
  /\ Admitted
  /\ v5 \subseteq Nat /\ v6 \subseteq v5
  /\ Wanted \subseteq v5
  /\ \A S \in SUBSET Lock!Ids(Chosen) : Lock!Closed(S) => v5 \subseteq S
  /\ \A x \in v5 \ v6 : Settled(x)

\* Of each kind there is a list.
Listed(l) == \A k \in Lock!Kinds : \E X : l.lists[k] \in Seq(X)

LockInv ==
  /\ v1 \in LockInstallations
  /\ v4 # "none" => Listed(v3)
  /\ v4 \in {"closure", "accepted"} => WorkList
  /\ v4 = "accepted" => v6 = {} /\ Lock!SelectionHolds /\ Binds
  /\ Lock!NothingElseRefused

\* The modules of entries and of installations are numbers.
LEMMA ModulesNumbered ==
  ASSUME v1 \in LockInstallations
  PROVE  /\ \A e \in Chosen : e \in LockEntries
         /\ Lock!Ids(Chosen) \subseteq Nat
         /\ \A c : Lock!Ids(Lock!Provider(v3, c)) \subseteq Lock!Ids(Chosen)
         /\ Wanted \subseteq Nat
         /\ \A e \in Chosen : Lock!Drags(e) \subseteq Nat
<1>1. ASSUME NEW e \in Chosen PROVE e \in LockEntries /\ e.module \in Nat
  BY <1>1, LockAssumption DEF Chosen, Lock!Resolved
<1>2. Lock!Ids(Chosen) \subseteq Nat
  BY <1>1 DEF Lock!Ids
<1>3. ASSUME NEW c PROVE Lock!Ids(Lock!Provider(v3, c)) \subseteq Lock!Ids(Chosen)
  BY DEF Lock!Ids, Lock!Provider, Chosen
<1>4. Wanted \subseteq Nat
  BY <1>2, <1>3, LockAssumption DEF Wanted, Lock!Enabled
<1>5. ASSUME NEW e \in Chosen PROVE Lock!Drags(e) \subseteq Nat
  <2>1. ASSUME NEW d \in e.manifest.depends PROVE d.module \in Nat
    BY <1>1, LockAssumption
  <2>2. UNION {Lock!Ids(Lock!Provider(v3, r[1])) : r \in e.manifest.requires} \subseteq Nat
    BY <1>2, <1>3
  <2> QED
    BY <2>1, <2>2 DEF Lock!Drags
<1> QED
  BY <1>1, <1>2, <1>3, <1>4, <1>5

\* The validation changes neither the installation nor the lock.
LEMMA LockStays ==
  ASSUME UNCHANGED <<v1, v2, v3>>
  PROVE  /\ Chosen' = Chosen /\ Wanted' = Wanted /\ Lock!Disabled' = Lock!Disabled
         /\ (Admitted' <=> Admitted) /\ (Binds' <=> Binds)
         /\ \A e : Lock!Drags(e)' = Lock!Drags(e) /\ (Lock!Fits(e)' <=> Lock!Fits(e))
         /\ \A S : Lock!Closed(S)' <=> Lock!Closed(S)
<1>1. Chosen' = Chosen /\ Lock!Enabled' = Lock!Enabled /\ Lock!Disabled' = Lock!Disabled
  BY DEF Chosen, Lock!Disabled, Lock!Enabled, Lock!Resolved
<1>2. Wanted' = Wanted
  BY <1>1 DEF Wanted
<1>3. Admitted' <=> Admitted
  BY DEF Admitted, Lock!Bound, Lock!ModulesHold, Lock!CapabilitiesHold, Lock!Enabled, Lock!Ascending
<1>4. Binds' <=> Binds
  BY <1>1 DEF Binds
<1>5. \A e : Lock!Drags(e)' = Lock!Drags(e)
  BY DEF Lock!Drags
<1>6. \A e : Lock!Fits(e)' <=> Lock!Fits(e)
  BY DEF Lock!Fits
<1>7. \A S : Lock!Closed(S)' <=> Lock!Closed(S)
  BY <1>1, <1>5 DEF Lock!Closed, Chosen
<1> QED
  BY <1>1, <1>2, <1>3, <1>4, <1>5, <1>6, <1>7

\* The reference of NothingElseRefused accepts the lock.
Acceptable ==
  /\ Admitted /\ Binds
  /\ Lock!Closed(Lock!Ids(Chosen))
  /\ \A S \in SUBSET Lock!Ids(Chosen) : Lock!Closed(S) => S = Lock!Ids(Chosen)
  /\ Lock!Ids(Chosen) \cap Lock!Disabled = {}
  /\ \A e \in Chosen : Lock!Fits(e) /\ e.manifest.conflicts \cap Lock!Ids(Chosen) = {}

LEMMA RefusalMeans == Lock!NothingElseRefused <=> (v4 = "refused" => ~Acceptable)
BY DEF Lock!NothingElseRefused, Acceptable, Admitted, Binds, Chosen

\* At the end of the loop, what it collected is closed and the least such.
LEMMA LoopEnds ==
  ASSUME WorkList, v6 = {}, v1 \in LockInstallations
  PROVE  /\ v5 \subseteq Lock!Ids(Chosen)
         /\ Lock!Closed(v5)
         /\ \A e \in Chosen : e.module \in v5 => Lock!Fits(e)
         /\ v5 \cap Lock!Disabled = {}
<1>1. \A x \in v5 : Settled(x)
  BY DEF WorkList
<1>2. v5 \subseteq Lock!Ids(Chosen)
  BY <1>1 DEF Settled, Lock!Ids
<1>3. Lock!Closed(v5)
  <2>1. {d.module : d \in Lock!Enabled} \subseteq v5
    BY DEF WorkList, Wanted
  <2>2. \A p \in v1.capabilities : Lock!Ids(Lock!Provider(v3, p[1])) \subseteq v5
    BY DEF WorkList, Wanted
  <2>3. \A e \in Chosen : e.module \in v5 => Lock!Drags(e) \subseteq v5
    BY <1>1 DEF Settled
  <2> QED
    BY <2>1, <2>2, <2>3 DEF Lock!Closed, Chosen
<1> QED
  BY <1>1, <1>2, <1>3 DEF Settled

\* Before its end too, an acceptable lock has all that it collected.
LEMMA LoopBelow ==
  ASSUME WorkList, Acceptable
  PROVE  v5 \subseteq Lock!Ids(Chosen)
BY DEF WorkList, Acceptable

LEMMA ValidateKeeps ==
  ASSUME LockInv, Lock!Validate
  PROVE  LockInv'
<1>0. UNCHANGED <<v1, v2, v3>> /\ v1 \in LockInstallations /\ v1' = v1 /\ Listed(v3')
  BY DEF Lock!Validate, LockInv
<1>1. CASE Admitted
  <2>1. v4' = "closure" /\ v5' = Wanted /\ v6' = Wanted
    BY <1>1 DEF Lock!Validate, Admitted, Wanted
  <2>2. Wanted \subseteq Nat
    BY <1>0, ModulesNumbered
  <2>3. \A S \in SUBSET Lock!Ids(Chosen) : Lock!Closed(S) => Wanted \subseteq S
    BY DEF Lock!Closed, Wanted, Chosen
  <2>4. WorkList'
    BY <1>0, <1>1, <2>1, <2>2, <2>3, LockStays DEF WorkList
  <2>5. Lock!NothingElseRefused'
    BY <2>1 DEF Lock!NothingElseRefused
  <2> QED
    BY <1>0, <2>1, <2>4, <2>5 DEF LockInv
<1>2. CASE ~Admitted
  <2>1. v4' = "refused"
    BY <1>2 DEF Lock!Validate, Admitted
  <2>2. ~Acceptable'
    BY <1>0, <1>2, LockStays DEF Acceptable
  <2>3. Lock!NothingElseRefused'
    BY <2>2 DEF Lock!NothingElseRefused, Acceptable, Admitted, Binds, Chosen
  <2> QED
    BY <1>0, <2>1, <2>3 DEF LockInv
<1> QED
  BY <1>1, <1>2

LEMMA CloseKeeps ==
  ASSUME LockInv, Lock!Close
  PROVE  LockInv'
<1> DEFINE m   == CHOOSE x \in v6 : \A y \in v6 : x <= y
           own == {e \in Chosen : e.module = m}
           new == (UNION {Lock!Drags(e) : e \in own}) \ v5
<1>0. UNCHANGED <<v1, v2, v3>> /\ v1 \in LockInstallations /\ v1' = v1 /\ WorkList /\ v6 # {}
      /\ Listed(v3')
  BY DEF Lock!Close, LockInv
<1>1. m \in v6 /\ m \in v5
  <2>1. v6 \in SUBSET Nat
    BY <1>0 DEF WorkList
  <2>2. \E x \in v6 : \A y \in v6 : x <= y
    BY <1>0, <2>1, LeastNat
  <2>3. m \in v6
    BY <2>2
  <2> QED
    BY <1>0, <2>3 DEF WorkList
<1>2. \/ /\ m \in Lock!Disabled \/ own = {} \/ \E e \in own : ~Lock!Fits(e)
         /\ v4' = "refused"
      \/ /\ ~(m \in Lock!Disabled \/ own = {} \/ \E e \in own : ~Lock!Fits(e))
         /\ v5' = v5 \cup new /\ v6' = (v6 \ {m}) \cup new /\ v4' = v4
  BY DEF Lock!Close, Chosen
<1> HIDE DEF m
<1>3. CASE /\ m \in Lock!Disabled \/ own = {} \/ \E e \in own : ~Lock!Fits(e)
           /\ v4' = "refused"
  <2>1. ASSUME Acceptable PROVE FALSE
    <3>1. m \in Lock!Ids(Chosen)
      BY <1>0, <1>1, <2>1, LoopBelow
    <3>2. m \notin Lock!Disabled
      BY <2>1, <3>1 DEF Acceptable
    <3>3. own # {}
      BY <3>1 DEF Lock!Ids
    <3>4. \A e \in own : Lock!Fits(e)
      BY <2>1 DEF Acceptable
    <3> QED
      BY <1>3, <3>2, <3>3, <3>4
  <2>2. ~Acceptable'
    BY <1>0, <2>1, LockStays DEF Acceptable
  <2>3. Lock!NothingElseRefused'
    BY <2>2 DEF Lock!NothingElseRefused, Acceptable, Admitted, Binds, Chosen
  <2> QED
    BY <1>0, <1>3, <2>3 DEF LockInv
<1>4. CASE /\ ~(m \in Lock!Disabled \/ own = {} \/ \E e \in own : ~Lock!Fits(e))
           /\ v5' = v5 \cup new /\ v6' = (v6 \ {m}) \cup new /\ v4' = v4
  <2>1. v4' = "closure"
    BY <1>4 DEF Lock!Close
  <2>2. new \subseteq Nat /\ \A e \in own : Lock!Drags(e) \subseteq v5 \cup new
    BY <1>0, ModulesNumbered
  <2>3. ASSUME NEW S \in SUBSET Lock!Ids(Chosen), Lock!Closed(S) PROVE v5 \cup new \subseteq S
    <3>1. v5 \subseteq S
      BY <1>0, <2>3 DEF WorkList
    <3>2. \A e \in own : Lock!Drags(e) \subseteq S
      BY <1>1, <2>3, <3>1 DEF Lock!Closed, Chosen
    <3> QED
      BY <3>1, <3>2
  <2>4. ASSUME NEW x \in v5' \ v6'
        PROVE  /\ x \notin Lock!Disabled
               /\ \E e \in Chosen : e.module = x
               /\ \A e \in Chosen : e.module = x => Lock!Fits(e) /\ Lock!Drags(e) \subseteq v5'
    <3>1. x \in v5 \ v6 \/ x = m
      BY <1>4, <2>4
    <3>2. CASE x \in v5 \ v6
      <4>1. Settled(x)
        BY <1>0, <3>2 DEF WorkList
      <4> QED
        BY <1>4, <4>1 DEF Settled
    <3>3. CASE x = m
      BY <1>4, <2>2, <3>3
    <3> QED
      BY <3>1, <3>2, <3>3
  <2>5. \A x \in v5' \ v6' : Settled(x)'
    BY <1>0, <2>4, LockStays DEF Settled
  <2>6. v5' \subseteq Nat /\ v6' \subseteq v5' /\ Wanted \subseteq v5'
    BY <1>0, <1>4, <2>2 DEF WorkList
  <2>7. WorkList'
    <3>1. Admitted' /\ Wanted' \subseteq v5'
      BY <1>0, <2>6, LockStays DEF WorkList
    <3>2. \A S \in SUBSET Lock!Ids(Chosen)' : Lock!Closed(S)' => v5' \subseteq S
      <4>1. Lock!Ids(Chosen)' = Lock!Ids(Chosen)
        BY <1>0, LockStays DEF Lock!Ids
      <4> QED
        BY <1>0, <1>4, <2>3, <4>1, LockStays
    <3> QED
      BY <2>5, <2>6, <3>1, <3>2 DEF WorkList
  <2>8. Lock!NothingElseRefused'
    BY <2>1 DEF Lock!NothingElseRefused
  <2> QED
    BY <1>0, <2>1, <2>7, <2>8 DEF LockInv
<1> QED
  BY <1>2, <1>3, <1>4

LEMMA FinishKeeps ==
  ASSUME LockInv, Lock!Finish
  PROVE  LockInv'
<1>0. /\ UNCHANGED <<v1, v2, v3, v5, v6>> /\ v1 \in LockInstallations /\ v1' = v1
      /\ WorkList /\ v6 = {} /\ Listed(v3')
  BY DEF Lock!Finish, LockInv
<1>1. v4' = IF Lock!SelectionHolds /\ Binds THEN "accepted" ELSE "refused"
  BY DEF Lock!Finish, Binds, Chosen
<1>2. WorkList'
  <2>1. Lock!Ids(Chosen)' = Lock!Ids(Chosen) /\ \A x : Settled(x)' <=> Settled(x)
    BY <1>0, LockStays DEF Lock!Ids, Settled
  <2> QED
    BY <1>0, <2>1, LockStays DEF WorkList
<1>3. CASE Lock!SelectionHolds /\ Binds
  <2>1. v4' = "accepted"
    BY <1>1, <1>3
  <2>2. Lock!SelectionHolds' /\ Binds'
    BY <1>0, <1>3, LockStays DEF Lock!SelectionHolds, Chosen
  <2>3. Lock!NothingElseRefused'
    BY <2>1 DEF Lock!NothingElseRefused
  <2> QED
    BY <1>0, <1>2, <2>1, <2>2, <2>3 DEF LockInv
<1>4. CASE ~(Lock!SelectionHolds /\ Binds)
  <2>1. v4' = "refused"
    BY <1>1, <1>4
  <2>2. ASSUME Acceptable PROVE FALSE
    <3>1. v5 \in SUBSET Lock!Ids(Chosen) /\ Lock!Closed(v5)
      BY <1>0, LoopEnds
    <3>2. v5 = Lock!Ids(Chosen)
      BY <2>2, <3>1 DEF Acceptable
    <3>3. Lock!SelectionHolds
      BY <2>2, <3>2 DEF Acceptable, Lock!SelectionHolds, Chosen
    <3> QED
      BY <1>4, <2>2, <3>3 DEF Acceptable
  <2>3. ~Acceptable'
    <3>1. Lock!Ids(Chosen)' = Lock!Ids(Chosen)
      BY <1>0, LockStays DEF Lock!Ids
    <3> QED
      BY <1>0, <2>2, <3>1, LockStays DEF Acceptable
  <2>4. Lock!NothingElseRefused'
    BY <2>3 DEF Lock!NothingElseRefused, Acceptable, Admitted, Binds, Chosen
  <2> QED
    BY <1>0, <2>1, <2>4 DEF LockInv
<1> QED
  BY <1>3, <1>4

LEMMA SlipListed ==
  ASSUME NEW X, NEW s \in Seq(X), NEW t \in Lock!Slips(s)
  PROVE  t \in Seq(X)
<1>1. \A i \in DOMAIN s : Lock!RemoveAt(s, i) \in Seq(X) /\ Append(s, s[i]) \in Seq(X)
  <2>1. ASSUME NEW i \in DOMAIN s PROVE Lock!RemoveAt(s, i) \in Seq(X)
    <3>1. SubSeq(s, 1, i - 1) \in Seq(X) /\ SubSeq(s, i + 1, Len(s)) \in Seq(X)
      BY <2>1
    <3> QED
      BY <3>1 DEF Lock!RemoveAt
  <2> QED
    BY <2>1
<1>2. Lock!Reverse(s) \in Seq(X)
  BY DEF Lock!Reverse
<1>3. \/ t = s
      \/ \E i \in DOMAIN s : t = Lock!RemoveAt(s, i)
      \/ \E i \in DOMAIN s : t = Append(s, s[i])
      \/ t = Lock!Reverse(s)
  BY DEF Lock!Slips
<1> QED
  BY <1>1, <1>2, <1>3

LEMMA ImageFinite ==
  ASSUME NEW S, IsFiniteSet(S), NEW f, DOMAIN f = S
  PROVE  IsFiniteSet({f[x] : x \in S})
<1> DEFINE T == {f[x] : x \in S}
           g == [x \in S |-> f[x]]
<1>1. g \in Surjection(S, T)
  BY DEF Surjection
<1> QED
  BY <1>1, FS_Surjection

\* A manifest binds finitely much.
LEMMA BindingsFinite ==
  ASSUME NEW l, NEW e \in LockEntries, NEW k \in Lock!Kinds, NEW custody
  PROVE  IsFiniteSet(Lock!Bindings(l, e, k, custody))
<1> DEFINE m == e.manifest
<1>1. /\ IsFiniteSet(m.artifacts) /\ IsFiniteSet(m.routes) /\ IsFiniteSet(m.web) /\ IsFiniteSet(m.migrations)
      /\ IsFiniteSet(m.units) /\ \A u \in m.units : IsFiniteSet(u.capabilities)
  BY LockAssumption
<1> HIDE DEF m
<1>2. CASE k = "artifacts"
  <2> DEFINE f == [a \in m.artifacts |-> [module |-> e.module, id |-> a.id, sha |-> a.sha]]
  <2>1. IsFiniteSet({f[a] : a \in m.artifacts})
    BY <1>1, ImageFinite
  <2>2. {f[a] : a \in m.artifacts} = {[module |-> e.module, id |-> a.id, sha |-> a.sha] : a \in m.artifacts}
    OBVIOUS
  <2> QED
    BY <1>2, <2>1, <2>2 DEF Lock!Bindings, m
<1>3. CASE k = "routes"
  <2> DEFINE f == [r \in m.routes |-> [module |-> e.module, id |-> r.id, endpoint |-> r.endpoint, unit |-> r.unit]]
  <2>1. IsFiniteSet({f[a] : a \in m.routes})
    BY <1>1, ImageFinite
  <2>2. {f[a] : a \in m.routes} = {[module |-> e.module, id |-> r.id, endpoint |-> r.endpoint, unit |-> r.unit] : r \in m.routes}
    OBVIOUS
  <2> QED
    BY <1>3, <2>1, <2>2 DEF Lock!Bindings, m
<1>4. CASE k = "web"
  <2> DEFINE f == [w \in m.web |-> [module |-> e.module, id |-> w.id, sha |-> Lock!Sha(m, w.artifact), route |-> w.route]]
  <2>1. IsFiniteSet({f[a] : a \in m.web})
    BY <1>1, ImageFinite
  <2>2. {f[a] : a \in m.web} = {[module |-> e.module, id |-> w.id, sha |-> Lock!Sha(m, w.artifact), route |-> w.route] : w \in m.web}
    OBVIOUS
  <2> QED
    BY <1>4, <2>1, <2>2 DEF Lock!Bindings, m
<1>5. CASE k = "migrations"
  <2> DEFINE f == [g \in m.migrations |-> [module |-> e.module, id |-> g.id, order |-> g.order, parent |-> g.parent,
                                          sha |-> Lock!Sha(m, g.artifact)]]
  <2>1. IsFiniteSet({f[a] : a \in m.migrations})
    BY <1>1, ImageFinite
  <2>2. {f[a] : a \in m.migrations} = {[module |-> e.module, id |-> g.id, order |-> g.order, parent |-> g.parent,
                                        sha |-> Lock!Sha(m, g.artifact)] : g \in m.migrations}
    OBVIOUS
  <2> QED
    BY <1>5, <2>1, <2>2 DEF Lock!Bindings, m
<1>6. CASE k = "units"
  <2> DEFINE f == [u \in m.units |-> [module |-> e.module, id |-> u.id, sha |-> Lock!Sha(m, u.artifact),
                                     refs |-> Lock!Refs(u, custody)]]
  <2>1. IsFiniteSet({f[a] : a \in m.units})
    BY <1>1, ImageFinite
  <2>2. {f[a] : a \in m.units} = {[module |-> e.module, id |-> u.id, sha |-> Lock!Sha(m, u.artifact),
                                   refs |-> Lock!Refs(u, custody)] : u \in m.units}
    OBVIOUS
  <2> QED
    BY <1>6, <2>1, <2>2 DEF Lock!Bindings, m
<1>7. CASE k = "mcp"
  <2> DEFINE of(r) == {[endpoint |-> r.endpoint, id |-> c, unit |-> r.unit] : c \in Lock!McpOf(l, e, r)}
             taken == {r \in m.routes : r.mcp}
             f == [r \in taken |-> of(r)]
  <2>1. ASSUME NEW r \in taken PROVE IsFiniteSet(of(r))
    <3> DEFINE C == Lock!McpOf(l, e, r)
               h == [c \in C |-> [endpoint |-> r.endpoint, id |-> c, unit |-> r.unit]]
               caps == [u \in m.units |-> u.capabilities]
    <3>1. IsFiniteSet({caps[u] : u \in m.units})
      BY <1>1, ImageFinite
    <3>2. IsFiniteSet(UNION {caps[u] : u \in m.units})
      BY <1>1, <3>1, FS_UNION
    <3>3. C \in SUBSET UNION {caps[u] : u \in m.units}
      BY DEF Lock!McpOf, m
    <3>4. IsFiniteSet(C)
      BY <3>2, <3>3, FS_Subset
    <3> HIDE DEF C
    <3>5. IsFiniteSet({h[c] : c \in C})
      BY <3>4, ImageFinite
    <3>6. {h[c] : c \in C} = {[endpoint |-> r.endpoint, id |-> c, unit |-> r.unit] : c \in C}
      OBVIOUS
    <3> QED
      BY <3>5, <3>6 DEF C
  <2> HIDE DEF of
  <2>2. IsFiniteSet(taken)
    BY <1>1, FS_Subset
  <2>3. IsFiniteSet({f[r] : r \in taken})
    BY <2>2, ImageFinite
  <2>4. IsFiniteSet(UNION {f[r] : r \in taken})
    BY <2>1, <2>3, FS_UNION
  <2>5. UNION {f[r] : r \in taken} = UNION {of(r) : r \in taken}
    OBVIOUS
  <2> QED
    BY <1>7, <2>4, <2>5 DEF Lock!Bindings, m, of
<1> QED
  BY <1>2, <1>3, <1>4, <1>5, <1>6, <1>7 DEF Lock!Kinds

\* What a resolver signs has lists.
LEMMA HonestListed ==
  ASSUME NEW S \in SUBSET LockEntries, NEW C
  PROVE  Listed(Lock!Honest(S, C)) /\ DOMAIN Lock!Honest(S, C).lists = Lock!Kinds
<1> DEFINE l == Lock!Honest(S, C)
           x == [revision |-> v2,
                 modules  |-> Lock!Sorted({[module |-> e.module, version |-> e.version, digest |-> e.digest] : e \in S},
                                          LAMBDA m : <<m.module, m.version>>),
                 bound    |-> Lock!Sorted(C, LAMBDA b : <<b.capability, b.module, b.version>>),
                 lists    |-> Lock!NoLock.lists]
           all(k) == UNION {Lock!Bindings(x, e, k, v1.custody) : e \in S}
           earlier(k, y) == {z \in all(k) : Lock!Before(Lock!Rank(k, z), Lock!Rank(k, y))}
           noLater(k, y) == {z \in all(k) : ~Lock!Before(Lock!Rank(k, y), Lock!Rank(k, z))}
           nth(k, n) == CHOOSE y \in all(k) : Lock!Cardinality(earlier(k, y)) < n /\ n <= Lock!Cardinality(noLater(k, y))
           sorted(k) == [n \in 1 .. Lock!Cardinality(all(k)) |-> nth(k, n)]
<1>1. l = [x EXCEPT !.lists = [k \in Lock!Kinds |-> sorted(k)]]
  BY Zenon DEF Lock!Honest, Lock!Sorted
<1> HIDE DEF l
<1>2. l.lists = [k \in Lock!Kinds |-> sorted(k)]
  <2> HIDE DEF sorted
  <2>1. x.lists = Lock!NoLock.lists /\ DOMAIN x = {"revision", "modules", "bound", "lists"}
    OBVIOUS
  <2> HIDE DEF x
  <2> QED
    BY <1>1, <2>1
<1> HIDE DEF x
<1>3. ASSUME NEW k \in Lock!Kinds PROVE \E X : sorted(k) \in Seq(X)
  <2> DEFINE parts == [e \in S |-> Lock!Bindings(x, e, k, v1.custody)]
  <2>1. IsFiniteSet(S)
    BY LockAssumption, FS_Subset
  <2>2. IsFiniteSet({parts[e] : e \in S})
    BY <2>1, ImageFinite
  <2>3. IsFiniteSet(UNION {parts[e] : e \in S})
    BY <2>2, BindingsFinite, FS_UNION
  <2>4. UNION {parts[e] : e \in S} = all(k)
    OBVIOUS
  <2>5. IsFiniteSet(all(k))
    BY <2>3, <2>4
  <2> HIDE DEF all
  <2>6. Cardinality(all(k)) \in Nat
    BY <2>5, FS_CardinalityType
  <2>7. Lock!Cardinality(all(k)) \in Nat
    BY <2>6 DEF Cardinality, Lock!Cardinality
  <2> DEFINE X == {nth(k, n) : n \in 1 .. Lock!Cardinality(all(k))}
  <2> HIDE DEF nth
  <2>8. sorted(k) \in Seq(X)
    BY <2>7
  <2> QED
    BY <2>8
<1>4. \A k \in Lock!Kinds : l.lists[k] = sorted(k)
  BY <1>2
<1> HIDE DEF sorted
<1> QED
  BY <1>2, <1>3, <1>4 DEF Listed, l

LEMMA ResolveListed ==
  ASSUME Lock!Resolve
  PROVE  Listed(v3')
<1>0. PICK S \in SUBSET LockEntries : \E C \in SUBSET Lock!Offers(S) :
        LET l == Lock!Honest(S, C) IN
        \/ v3' = l
        \/ \E s \in Lock!Slips(l.modules) : v3' = [l EXCEPT !.modules = s]
        \/ \E k \in Lock!Kinds : \E s \in Lock!Slips(l.lists[k]) : v3' = [l EXCEPT !.lists[k] = s]
  BY Zenon DEF Lock!Resolve
<1>1. PICK C \in SUBSET Lock!Offers(S) :
        LET l == Lock!Honest(S, C) IN
        \/ v3' = l
        \/ \E s \in Lock!Slips(l.modules) : v3' = [l EXCEPT !.modules = s]
        \/ \E k \in Lock!Kinds : \E s \in Lock!Slips(l.lists[k]) : v3' = [l EXCEPT !.lists[k] = s]
  BY <1>0
<1> DEFINE l == Lock!Honest(S, C)
<1>2. Listed(l) /\ DOMAIN l.lists = Lock!Kinds
  BY HonestListed
<1>3. {"modules", "lists"} \subseteq DOMAIN l /\ l = [n \in DOMAIN l |-> l[n]]
  BY DEF Lock!Honest
<1> HIDE DEF l
<1>4. CASE v3' = l
  BY <1>2, <1>4
<1>5. CASE \E s \in Lock!Slips(l.modules) : v3' = [l EXCEPT !.modules = s]
  <2>1. v3'.lists = l.lists
    BY <1>3, <1>5
  <2> QED
    BY <1>2, <2>1 DEF Listed
<1>6. ASSUME NEW k \in Lock!Kinds, NEW s \in Lock!Slips(l.lists[k]), v3' = [l EXCEPT !.lists[k] = s]
      PROVE  Listed(v3')
  <2>1. v3'.lists = [l.lists EXCEPT ![k] = s]
    BY <1>3, <1>6
  <2>2. v3'.lists[k] = s /\ \A j \in Lock!Kinds : j # k => v3'.lists[j] = l.lists[j]
    BY <1>2, <2>1
  <2>3. PICK X : l.lists[k] \in Seq(X)
    BY <1>2 DEF Listed
  <2>4. s \in Seq(X)
    BY <2>3, SlipListed
  <2> QED
    BY <1>2, <2>2, <2>4 DEF Listed
<1> QED
  BY <1>1, <1>4, <1>5, <1>6 DEF l

\* The order of keys of three numbers.
Triple == Nat \X Nat \X Nat
LEMMA TripleBefore ==
  ASSUME NEW a \in Triple, NEW b \in Triple
  PROVE  Lock!Before(a, b) <=> \/ a[1] < b[1]
                               \/ a[1] = b[1] /\ a[2] < b[2]
                               \/ a[1] = b[1] /\ a[2] = b[2] /\ a[3] < b[3]
<1>1. DOMAIN a = 1 .. 3
  BY DEF Triple
<1>2. \A i \in 1 .. 3 : i = 1 \/ i = 2 \/ i = 3
  OBVIOUS
<1>3. Lock!Before(a, b) <=> \E i \in 1 .. 3 : a[i] < b[i] /\ \A j \in 1 .. i - 1 : a[j] = b[j]
  BY <1>1 DEF Lock!Before
<1>4. ASSUME Lock!Before(a, b)
      PROVE  a[1] < b[1] \/ (a[1] = b[1] /\ a[2] < b[2]) \/ (a[1] = b[1] /\ a[2] = b[2] /\ a[3] < b[3])
  <2>1. PICK i \in 1 .. 3 : a[i] < b[i] /\ \A j \in 1 .. i - 1 : a[j] = b[j]
    BY <1>3, <1>4
  <2> QED
    BY <1>2, <2>1
<1>5. ASSUME a[1] < b[1] PROVE Lock!Before(a, b)
  BY <1>3, <1>5
<1>6. ASSUME a[1] = b[1], a[2] < b[2] PROVE Lock!Before(a, b)
  <2>1. \A j \in 1 .. 2 - 1 : j = 1
    OBVIOUS
  <2> QED
    BY <1>3, <1>6, <2>1
<1>7. ASSUME a[1] = b[1], a[2] = b[2], a[3] < b[3] PROVE Lock!Before(a, b)
  <2>1. \A j \in 1 .. 3 - 1 : j = 1 \/ j = 2
    OBVIOUS
  <2> QED
    BY <1>3, <1>7, <2>1
<1> QED
  BY <1>4, <1>5, <1>6, <1>7

LEMMA BeforeBetween ==
  ASSUME NEW a \in Triple, NEW b \in Triple, NEW c \in Triple, Lock!Before(a, b), Lock!Before(b, c)
  PROVE  Lock!Before(a, c)
<1>1. /\ a[1] \in Nat /\ a[2] \in Nat /\ a[3] \in Nat
      /\ b[1] \in Nat /\ b[2] \in Nat /\ b[3] \in Nat
      /\ c[1] \in Nat /\ c[2] \in Nat /\ c[3] \in Nat
  BY DEF Triple
<1>2. a[1] < b[1] \/ (a[1] = b[1] /\ a[2] < b[2]) \/ (a[1] = b[1] /\ a[2] = b[2] /\ a[3] < b[3])
  BY TripleBefore
<1>3. b[1] < c[1] \/ (b[1] = c[1] /\ b[2] < c[2]) \/ (b[1] = c[1] /\ b[2] = c[2] /\ b[3] < c[3])
  BY TripleBefore
<1>4. a[1] < c[1] \/ (a[1] = c[1] /\ a[2] < c[2]) \/ (a[1] = c[1] /\ a[2] = c[2] /\ a[3] < c[3])
  BY <1>1, <1>2, <1>3
<1> QED
  BY <1>4, TripleBefore

\* A list that ascends from place to place ascends over any distance.
LEMMA InOrder ==
  ASSUME NEW t \in Seq(Triple), \A n \in 1 .. Len(t) - 1 : Lock!Before(t[n], t[n + 1]),
         NEW i \in 1 .. Len(t), NEW j \in 1 .. Len(t), i < j
  PROVE  Lock!Before(t[i], t[j])
<1> DEFINE Wrong == {n \in 1 .. Len(t) : i < n /\ ~Lock!Before(t[i], t[n])}
<1> SUFFICES ASSUME Wrong # {} PROVE FALSE
  OBVIOUS
<1>1. PICK n \in Wrong : \A m \in Wrong : n <= m
  <2>1. Wrong \in SUBSET Nat
    OBVIOUS
  <2> HIDE DEF Wrong
  <2> QED
    BY <2>1, LeastNat
<1>2. n - 1 \in 1 .. Len(t) /\ n - 1 \notin Wrong
  BY <1>1
<1>3. Lock!Before(t[n - 1], t[n])
  <2>1. n - 1 \in 1 .. Len(t) - 1 /\ (n - 1) + 1 = n
    BY <1>1
  <2> QED
    BY <2>1
<1>4. n - 1 # i
  BY <1>1, <1>3
<1>5. Lock!Before(t[i], t[n - 1])
  BY <1>1, <1>2, <1>4
<1>6. t[i] \in Triple /\ t[n] \in Triple /\ t[n - 1] \in Triple
  BY <1>1, <1>2
<1>7. Lock!Before(t[i], t[n])
  BY <1>3, <1>5, <1>6, BeforeBetween
<1> QED
  BY <1>1, <1>7

\* An accepted lock binds what coherent manifests declare.
BoundAll ==
  /\ Listed(v3)
  /\ \A e \in Chosen : e \in LockEntries /\ Lock!Coherent(e)
  /\ \A k \in Lock!Kinds : Lock!ListHolds(v3, k, v1.custody)
  /\ Lock!EndpointsHold(v3)

\* What a list has is bound for an entry, and what is bound is in the list.
LEMMA BoundFor ==
  ASSUME BoundAll, NEW k \in Lock!Kinds
  PROVE  /\ v3.lists[k] \in Seq(Lock!ToSet(v3.lists[k])) /\ DOMAIN v3.lists[k] = 1 .. Len(v3.lists[k])
         /\ \A b \in Lock!ToSet(v3.lists[k]) : \E e \in Chosen : b \in Lock!Bindings(v3, e, k, v1.custody)
         /\ \A e \in Chosen : \A b \in Lock!Bindings(v3, e, k, v1.custody) : b \in Lock!ToSet(v3.lists[k])
<1>1. PICK X : v3.lists[k] \in Seq(X)
  BY DEF BoundAll, Listed
<1>2. Lock!ToSet(v3.lists[k]) = UNION {Lock!Bindings(v3, e, k, v1.custody) : e \in Chosen}
  BY DEF BoundAll, Lock!ListHolds, Chosen
<1>3. v3.lists[k] \in Seq(Lock!ToSet(v3.lists[k]))
  BY <1>1 DEF Lock!ToSet
<1> QED
  BY <1>1, <1>2, <1>3

\* A migration comes after its parent.
LEMMA ParentsFirst ==
  ASSUME BoundAll, NEW i \in DOMAIN v3.lists["migrations"], v3.lists["migrations"][i].parent # 0
  PROVE  \E j \in 1 .. i - 1 : /\ v3.lists["migrations"][j].module = v3.lists["migrations"][i].module
                               /\ v3.lists["migrations"][j].id = v3.lists["migrations"][i].parent
<1> DEFINE L == v3.lists["migrations"]
           bound(e, g) == [module |-> e.module, id |-> g.id, order |-> g.order, parent |-> g.parent,
                           sha |-> Lock!Sha(e.manifest, g.artifact)]
           key(b) == <<b.module, b.order, b.id>>
           t == [n \in 1 .. Len(L) |-> key(L[n])]
<1>1. "migrations" \in Lock!Kinds
  BY DEF Lock!Kinds
<1>2. \A e : Lock!Bindings(v3, e, "migrations", v1.custody) = {bound(e, g) : g \in e.manifest.migrations}
  BY DEF Lock!Bindings
<1> HIDE DEF bound
<1>3. /\ L \in Seq(Lock!ToSet(L)) /\ DOMAIN L = 1 .. Len(L)
      /\ \A b \in Lock!ToSet(L) : \E e \in Chosen : \E g \in e.manifest.migrations : b = bound(e, g)
      /\ \A e \in Chosen : \A g \in e.manifest.migrations : bound(e, g) \in Lock!ToSet(L)
  <2>1. /\ L \in Seq(Lock!ToSet(L)) /\ DOMAIN L = 1 .. Len(L)
        /\ \A b \in Lock!ToSet(L) : \E e \in Chosen : b \in Lock!Bindings(v3, e, "migrations", v1.custody)
        /\ \A e \in Chosen : \A b \in Lock!Bindings(v3, e, "migrations", v1.custody) : b \in Lock!ToSet(L)
    BY <1>1, BoundFor
  <2> QED
    BY <1>2, <2>1
<1>4. \A n \in 1 .. Len(L) - 1 : Lock!Before(key(L[n]), key(L[n + 1]))
  <2>1. Lock!ListHolds(v3, "migrations", v1.custody)
    BY <1>1 DEF BoundAll
  <2>2. \A n \in 1 .. Len(L) - 1 : Lock!Before(Lock!Rank("migrations", L[n]), Lock!Rank("migrations", L[n + 1]))
    BY <2>1, Zenon DEF Lock!ListHolds, Lock!Ascending
  <2>3. \A b : Lock!Rank("migrations", b) = key(b)
    BY DEF Lock!Rank
  <2> QED
    BY <2>2, <2>3
<1> HIDE DEF L
<1>5. ASSUME NEW n \in 1 .. Len(L)
      PROVE  \E e \in Chosen : \E g \in e.manifest.migrations :
               /\ L[n].module = e.module /\ L[n].id = g.id /\ L[n].order = g.order /\ L[n].parent = g.parent
               /\ key(L[n]) \in Triple
  <2>1. L[n] \in Lock!ToSet(L)
    BY <1>3 DEF Lock!ToSet
  <2>2. PICK e \in Chosen : \E g \in e.manifest.migrations : L[n] = bound(e, g)
    BY <1>3, <2>1
  <2>3. PICK g \in e.manifest.migrations : L[n] = bound(e, g)
    BY <2>2
  <2>4. e.module \in Nat /\ g.order \in Nat /\ g.id \in Nat
    BY <2>3, LockAssumption DEF BoundAll
  <2> QED
    BY <2>3, <2>4 DEF Triple, bound
<1>6. t \in Seq(Triple) /\ Len(t) = Len(L) /\ \A n \in 1 .. Len(t) - 1 : Lock!Before(t[n], t[n + 1])
  <2>1. Len(L) \in Nat
    BY <1>3
  <2>2. t \in Seq(Triple) /\ Len(t) = Len(L)
    BY <1>5, <2>1
  <2> QED
    BY <1>4, <2>1, <2>2
<1>7. PICK e \in Chosen : \E g \in e.manifest.migrations :
        L[i].module = e.module /\ L[i].id = g.id /\ L[i].order = g.order /\ L[i].parent = g.parent
  BY <1>3, <1>5 DEF L
<1>75. PICK g \in e.manifest.migrations :
        L[i].module = e.module /\ L[i].id = g.id /\ L[i].order = g.order /\ L[i].parent = g.parent
  BY <1>7
<1>8. PICK p \in e.manifest.migrations : p.id = g.parent /\ p.order < g.order
  <2>1. Lock!LineageHolds(e.manifest)
    BY DEF BoundAll, Lock!Coherent
  <2> QED
    BY <1>75, <2>1 DEF Lock!LineageHolds, L
<1>9. PICK j \in 1 .. Len(L) : L[j].module = e.module /\ L[j].id = p.id /\ L[j].order = p.order
  <2>1. PICK b \in Lock!ToSet(L) : b.module = e.module /\ b.id = p.id /\ b.order = p.order
    BY <1>3 DEF bound
  <2> QED
    BY <1>3, <2>1 DEF Lock!ToSet
<1>10. ~(i <= j)
  <2>1. i \in 1 .. Len(L) /\ t[i] = key(L[i]) /\ t[j] = key(L[j])
    BY <1>3 DEF L
  <2>2. t[i] \in Triple /\ t[j] \in Triple
    BY <1>5, <2>1
  <2>3. g.order \in Nat /\ p.order \in Nat /\ e.module \in Nat
    BY LockAssumption DEF BoundAll
  <2>4. ASSUME i < j PROVE FALSE
    <3>1. Lock!Before(t[i], t[j])
      BY <1>6, <2>1, <2>4, InOrder
    <3> QED
      BY <1>75, <1>8, <1>9, <2>1, <2>2, <2>3, <3>1, TripleBefore
  <2>5. i # j
    BY <1>75, <1>8, <1>9, <2>3
  <2> QED
    BY <2>1, <2>4, <2>5
<1> QED
  <2>1. i \in Nat /\ j \in 1 .. i - 1
    BY <1>3, <1>10 DEF L
  <2> QED
    BY <1>75, <1>8, <1>9, <2>1 DEF L

\* The lists of an accepted lock fit together.
LEMMA BindingsMean == BoundAll /\ v4 = "accepted" => Lock!BindingsSound
<1> SUFFICES ASSUME BoundAll
    PROVE  /\ \A i \in DOMAIN v3.lists["migrations"] : v3.lists["migrations"][i].parent # 0 =>
                \E j \in 1 .. i - 1 : /\ v3.lists["migrations"][j].module = v3.lists["migrations"][i].module
                                      /\ v3.lists["migrations"][j].id = v3.lists["migrations"][i].parent
           /\ \A r \in Lock!ToSet(v3.lists["routes"]) :
                \E u \in Lock!ToSet(v3.lists["units"]) : u.module = r.module /\ u.id = r.unit
           /\ \A w \in Lock!ToSet(v3.lists["web"]) :
                \E a \in Lock!ToSet(v3.lists["artifacts"]) : a.module = w.module /\ a.sha = w.sha
           /\ \A x \in Lock!ToSet(v3.lists["mcp"]) :
                Lock!Cardinality({r \in Lock!ToSet(v3.lists["routes"]) :
                                    r.endpoint = x.endpoint /\ x.unit = r.unit
                                    /\ r.module \in Lock!Ids(Lock!Provider(v3, x.id))}) = 1
  BY Zenon DEF Lock!BindingsSound
<1>0. Lock!Kinds = {"artifacts", "routes", "web", "migrations", "units", "mcp"}
  BY DEF Lock!Kinds
<1> DEFINE route(e, r) == [module |-> e.module, id |-> r.id, endpoint |-> r.endpoint, unit |-> r.unit]
           unit(e, u)  == [module |-> e.module, id |-> u.id, sha |-> Lock!Sha(e.manifest, u.artifact),
                           refs |-> Lock!Refs(u, v1.custody)]
           web(e, w)   == [module |-> e.module, id |-> w.id, sha |-> Lock!Sha(e.manifest, w.artifact), route |-> w.route]
           file(e, a)  == [module |-> e.module, id |-> a.id, sha |-> a.sha]
           mcp(r, c)   == [endpoint |-> r.endpoint, id |-> c, unit |-> r.unit]
           R == Lock!ToSet(v3.lists["routes"])
<1>1. \A e : /\ Lock!Bindings(v3, e, "routes", v1.custody) = {route(e, r) : r \in e.manifest.routes}
             /\ Lock!Bindings(v3, e, "units", v1.custody) = {unit(e, u) : u \in e.manifest.units}
             /\ Lock!Bindings(v3, e, "web", v1.custody) = {web(e, w) : w \in e.manifest.web}
             /\ Lock!Bindings(v3, e, "artifacts", v1.custody) = {file(e, a) : a \in e.manifest.artifacts}
             /\ Lock!Bindings(v3, e, "mcp", v1.custody) =
                  UNION {{mcp(r, c) : c \in Lock!McpOf(v3, e, r)} : r \in {r \in e.manifest.routes : r.mcp}}
  BY DEF Lock!Bindings
<1> HIDE DEF unit, web, file, mcp, route
<1>2. /\ \A b \in R : \E e \in Chosen : \E r \in e.manifest.routes : b = route(e, r)
      /\ \A e \in Chosen : \A r \in e.manifest.routes : route(e, r) \in R
  <2>1. /\ \A b \in R : \E e \in Chosen : b \in Lock!Bindings(v3, e, "routes", v1.custody)
        /\ \A e \in Chosen : \A b \in Lock!Bindings(v3, e, "routes", v1.custody) : b \in R
    BY <1>0, BoundFor
  <2> QED
    BY <1>1, <2>1
<1>3. \A i \in DOMAIN v3.lists["migrations"] : v3.lists["migrations"][i].parent # 0 =>
        \E j \in 1 .. i - 1 : /\ v3.lists["migrations"][j].module = v3.lists["migrations"][i].module
                              /\ v3.lists["migrations"][j].id = v3.lists["migrations"][i].parent
  BY ParentsFirst
<1>4. ASSUME NEW b \in R
      PROVE  \E u \in Lock!ToSet(v3.lists["units"]) : u.module = b.module /\ u.id = b.unit
  <2>1. PICK e \in Chosen : \E r \in e.manifest.routes : b = route(e, r)
    BY <1>2, <1>4
  <2>2. PICK r \in e.manifest.routes : b = route(e, r)
    BY <2>1
  <2>3. PICK u \in e.manifest.units : u.id = r.unit
    BY <2>2 DEF BoundAll, Lock!Coherent
  <2>4. unit(e, u) \in Lock!ToSet(v3.lists["units"])
    BY <1>0, <1>1, BoundFor
  <2> QED
    BY <2>2, <2>3, <2>4 DEF unit, route
<1>5. ASSUME NEW b \in Lock!ToSet(v3.lists["web"])
      PROVE  \E a \in Lock!ToSet(v3.lists["artifacts"]) : a.module = b.module /\ a.sha = b.sha
  <2>1. PICK e \in Chosen : b \in Lock!Bindings(v3, e, "web", v1.custody)
    BY <1>0, BoundFor
  <2>2. PICK w \in e.manifest.web : b = web(e, w)
    BY <1>1, <2>1
  <2>3. Lock!Artifact(e.manifest, w.artifact) # {}
    BY <2>2 DEF BoundAll, Lock!Coherent
  <2> DEFINE a == CHOOSE x \in Lock!Artifact(e.manifest, w.artifact) : TRUE
  <2>4. a \in e.manifest.artifacts /\ Lock!Sha(e.manifest, w.artifact) = a.sha
    BY <2>3 DEF Lock!Artifact, Lock!Sha
  <2> HIDE DEF a
  <2>5. file(e, a) \in Lock!ToSet(v3.lists["artifacts"])
    BY <1>0, <1>1, <2>4, BoundFor
  <2> QED
    BY <2>2, <2>4, <2>5 DEF web, file
<1>6. ASSUME NEW b, NEW d, b \in R, d \in R, b.endpoint = d.endpoint PROVE b = d
  <2>1. PICK i \in DOMAIN v3.lists["routes"], j \in DOMAIN v3.lists["routes"] :
           b = v3.lists["routes"][i] /\ d = v3.lists["routes"][j]
    BY <1>6 DEF Lock!ToSet
  <2>2. i = j
    BY <1>6, <2>1 DEF BoundAll, Lock!EndpointsHold
  <2> QED
    BY <2>1, <2>2
<1>7. ASSUME NEW x \in Lock!ToSet(v3.lists["mcp"])
      PROVE  Lock!Cardinality({r \in R : r.endpoint = x.endpoint /\ x.unit = r.unit
                                         /\ r.module \in Lock!Ids(Lock!Provider(v3, x.id))}) = 1
  <2>1. PICK e \in Chosen : x \in Lock!Bindings(v3, e, "mcp", v1.custody)
    BY <1>0, BoundFor
  <2>2. PICK r \in {r \in e.manifest.routes : r.mcp} : \E c \in Lock!McpOf(v3, e, r) : x = mcp(r, c)
    BY <1>1, <2>1
  <2>3. PICK c \in Lock!McpOf(v3, e, r) : x = mcp(r, c)
    BY <2>2
  <2>4. e \in Lock!Provider(v3, c)
    BY <2>3 DEF Lock!McpOf
  <2>5. route(e, r) \in R
    BY <1>2, <2>2
  <2>6. /\ route(e, r).endpoint = x.endpoint /\ route(e, r).unit = x.unit
        /\ route(e, r).module \in Lock!Ids(Lock!Provider(v3, x.id))
    BY <2>3, <2>4 DEF route, mcp, Lock!Ids
  <2> DEFINE found == {d \in R : d.endpoint = x.endpoint /\ x.unit = d.unit
                                  /\ d.module \in Lock!Ids(Lock!Provider(v3, x.id))}
  <2>7. found = {route(e, r)}
    BY <1>6, <2>5, <2>6
  <2>8. Cardinality(found) = 1
    BY <2>7, FS_Singleton
  <2> QED
    BY <2>8 DEF Cardinality, Lock!Cardinality
<1> QED
  BY <1>3, <1>4, <1>5, <1>7

LEMMA LockInit == Lock!Init => LockInv
BY DEF Lock!Init, LockInv, Lock!NothingElseRefused

LEMMA LockStep == LockInv /\ [Lock!Next]_(Lock!vars) => LockInv'
<1> SUFFICES ASSUME LockInv, [Lock!Next]_(Lock!vars) PROVE LockInv'
  OBVIOUS
<1>1. CASE Lock!Revise \/ Lock!Resolve
  <2>1. v4' = "new" /\ v1' \in LockInstallations
    BY <1>1 DEF Lock!Revise, Lock!Resolve, LockInv
  <2>2. Listed(v3')
    BY <1>1, ResolveListed DEF Lock!Revise, LockInv
  <2> QED
    BY <2>1, <2>2 DEF LockInv, Lock!NothingElseRefused
<1>2. CASE UNCHANGED Lock!vars
  <2>0. UNCHANGED <<v1, v2, v3, v4, v5, v6>>
    BY <1>2 DEF Lock!vars
  <2>1. Lock!Ids(Chosen)' = Lock!Ids(Chosen) /\ \A x : Settled(x)' <=> Settled(x)
    BY <2>0, LockStays DEF Lock!Ids, Settled
  <2>2. WorkList' <=> WorkList
    BY <2>0, <2>1, LockStays DEF WorkList
  <2>3. Lock!SelectionHolds' <=> Lock!SelectionHolds
    BY <2>0, LockStays DEF Lock!SelectionHolds, Chosen
  <2>4. Acceptable' <=> Acceptable
    BY <2>0, <2>1, LockStays DEF Acceptable
  <2>5. Lock!NothingElseRefused'
    <3>1. v4 = "refused" => ~Acceptable
      BY RefusalMeans DEF LockInv
    <3>2. v4' = "refused" => ~Acceptable'
      BY <2>0, <2>4, <3>1
    <3> QED
      BY <3>2 DEF Lock!NothingElseRefused, Acceptable, Admitted, Binds, Chosen
  <2> QED
    BY <2>0, <2>2, <2>3, <2>5, LockStays DEF LockInv
<1> QED
  BY <1>1, <1>2, ValidateKeeps, CloseKeeps, FinishKeeps DEF Lock!Next

\* What LockInv says of an accepted lock.
LEMMA SelectionMeans == LockInv => Lock!SelectionSound
<1> SUFFICES ASSUME LockInv, v4 = "accepted"
             PROVE  /\ v3.revision = v2
                    /\ Lock!Closed(Lock!Ids(Chosen))
                    /\ \A S \in SUBSET Lock!Ids(Chosen) : Lock!Closed(S) => S = Lock!Ids(Chosen)
                    /\ Lock!Ids(Chosen) \cap Lock!Disabled = {}
                    /\ Len(v3.modules) = Lock!Cardinality(Lock!Ids(Chosen))
                    /\ \A e \in Chosen : Lock!Fits(e) /\ e.manifest.conflicts \cap Lock!Ids(Chosen) = {}
  BY DEF Lock!SelectionSound, Chosen
<1>1. WorkList /\ v6 = {} /\ Lock!SelectionHolds /\ v1 \in LockInstallations
  BY DEF LockInv
<1>2. Lock!Ids(Chosen) = v5
  BY <1>1 DEF Lock!SelectionHolds, Chosen
<1>3. v3.revision = v2 /\ Len(v3.modules) = Lock!Cardinality(Lock!Ids(Chosen))
  BY <1>1 DEF WorkList, Admitted, Lock!Bound, Lock!ModulesHold, Lock!Ascending, Chosen
<1>4. /\ Lock!Closed(v5) /\ v5 \cap Lock!Disabled = {}
      /\ \A e \in Chosen : e.module \in v5 => Lock!Fits(e)
  BY <1>1, LoopEnds
<1>5. \A S \in SUBSET Lock!Ids(Chosen) : Lock!Closed(S) => S = Lock!Ids(Chosen)
  BY <1>1, <1>2 DEF WorkList
<1>6. \A e \in Chosen : e.module \in v5
  BY <1>2 DEF Lock!Ids
<1>7. \A e \in Chosen : e.manifest.conflicts \cap Lock!Ids(Chosen) = {}
  BY <1>1 DEF Lock!SelectionHolds, Chosen
<1> QED
  BY <1>2, <1>3, <1>4, <1>5, <1>6, <1>7

LEMMA BindingsMeans == LockInv => Lock!BindingsSound
<1> SUFFICES ASSUME LockInv, v4 = "accepted" PROVE Lock!BindingsSound
  BY DEF Lock!BindingsSound
<1>1. WorkList /\ Binds /\ Listed(v3) /\ v1 \in LockInstallations
  BY DEF LockInv
<1>2. \A e \in Chosen : e \in LockEntries /\ Lock!Coherent(e)
  BY <1>1, ModulesNumbered DEF WorkList, Admitted, Lock!ModulesHold, Chosen
<1> QED
  BY <1>1, <1>2, BindingsMean DEF BoundAll, Binds

\* validate_resolver_result_semantics, for any registry, installations and
\* resolver: an accepted lock is the least selection that serves the installation
\* as it is, its bindings fit together, and a lock of that kind is accepted.
THEOREM LocksAreSound ==
  Spec => [](program = "lock" => Lock!SelectionSound /\ Lock!BindingsSound /\ Lock!NothingElseRefused)
<1> DEFINE Safe == program = "lock" => LockInv
<1>1. Init => Safe
  BY LockInit DEF Init
<1>2. ASSUME Safe, [Next]_vars PROVE Safe'
  <2>1. CASE Next
    <3>1. program' = program
      BY <2>1 DEF Next
    <3>2. ASSUME program = "lock" PROVE LockInv'
      <4>1. LockInv /\ [Lock!Next]_(Lock!vars)
        BY <1>2, <2>1, <3>2 DEF Next
      <4> QED
        BY <4>1, LockStep
    <3> QED
      BY <3>1, <3>2
  <2>2. CASE UNCHANGED vars
    <3>1. program' = program /\ UNCHANGED registries
      BY <2>2 DEF vars
    <3>2. ASSUME LockInv PROVE LockInv'
      <4>1. UNCHANGED Lock!vars
        BY <3>1 DEF registries, Lock!vars
      <4> QED
        BY <3>2, <4>1, LockStep
    <3> QED
      BY <1>2, <3>1, <3>2
  <2> QED
    BY <1>2, <2>1, <2>2
<1>3. Safe => (program = "lock" => Lock!SelectionSound /\ Lock!BindingsSound /\ Lock!NothingElseRefused)
  BY SelectionMeans, BindingsMeans DEF LockInv
<1> QED
  BY <1>1, <1>2, <1>3, PTL DEF Spec

-----------------------------------------------------------------------------
(* Sets of schemas.  What has been read so far are the first parts of the  *)
(* registry, each once; if nothing changed meanwhile they are still there. *)

Part(n) == Schemas!Parts(v7)[n]
Last == Len(v7.entries) + 3

\* The part n is in its place, as it was registered.
There(n) == Schemas!Exact(Part(n).file) /\ v2[Part(n).file].doc = Part(n).digest

TreeTyped ==
  /\ v1 \in SchemasRegistries /\ v7 \in SchemasRegistries
  /\ \A f \in Schemas!File : v2[f] = [kind |-> v2[f].kind, doc |-> v2[f].doc]
  /\ DOMAIN v2 = Schemas!File
  /\ DOMAIN v3 = {"schemas", "conformance"}

\* The loop over the parts has begun; it has come so far.
Loading == v5 \in {"find", "read", "references", "loaded"}

PartsRead ==
  /\ v6 \in 1 .. Last + 1
  /\ v5 \in {"find", "read"} => v6 <= Last
  /\ v5 \in {"references", "loaded"} => v6 = Last + 1
  /\ DOMAIN v8 = {Part(n).file : n \in 1 .. v6 - 1}
  /\ \A n \in 1 .. v6 - 1 : /\ v8[Part(n).file] = Part(n).digest
                            /\ Schemas!Fits(Part(n).file, Part(n).digest)
                            /\ Part(n).right
  /\ \A m, n \in 1 .. v6 - 1 : Part(m).file = Part(n).file => m = n
  /\ v5 = "read" => Part(v6).right /\ Part(v6).file \notin DOMAIN v8
  /\ v5 = "loaded" => \A f \in SchemasId : v8[f].refs \subseteq SchemasId

Undisturbed ==
  /\ v5 # "start" => v7 = v1
  /\ Loading => ~v4 /\ \A f \in SchemasId : Schemas!Exact(f)
  /\ Loading => \A n \in 1 .. v6 - 1 : There(n)
  /\ v5 = "read" => Schemas!Exact(Part(v6).file)
  /\ v5 = "refused" => ~Schemas!Sound
  /\ v5 # "crashed"

SchemaInv ==
  /\ TreeTyped
  /\ v5 \in {"start", "inventory", "find", "read", "references", "loaded", "refused", "crashed"}
  /\ v5 = "inventory" \/ Loading => v7.good /\ Schemas!Identity(v7)
  /\ v5 \in {"start", "inventory"} => v8 = <<>>
  /\ Loading => PartsRead
  /\ ~v10 => Undisturbed

\* The files, and what a registry names.
LEMMA FilesAre ==
  /\ Schemas!File = SchemasId \cup {"profile", "cases", "vectors"}
  /\ DOMAIN Schemas!Rest = 1 .. 3
  /\ Schemas!Rest[1] = "profile" /\ Schemas!Rest[2] = "cases" /\ Schemas!Rest[3] = "vectors"
BY DEF Schemas!File, Schemas!Rest, Schemas!ToSet

LEMMA PartsAre ==
  ASSUME NEW r \in SchemasRegistries
  PROVE  LET k == Len(r.entries) IN
         /\ k \in Nat /\ DOMAIN r.entries = 1 .. k
         /\ Len(Schemas!Parts(r)) = k + 3
         /\ DOMAIN Schemas!Parts(r) = 1 .. k + 3
         /\ \A n \in 1 .. k :
              Schemas!Parts(r)[n] = [file |-> r.entries[n].id, digest |-> r.entries[n].digest,
                                     right |-> r.entries[n].right]
         /\ \A n \in 1 .. 3 :
              Schemas!Parts(r)[k + n] = [file |-> Schemas!Rest[n], digest |-> r.rest[n],
                                         right |-> r.items[IF n = 3 THEN "vectors" ELSE "profiles"]]
<1> DEFINE k == Len(r.entries)
           E(n) == [file |-> r.entries[n].id, digest |-> r.entries[n].digest, right |-> r.entries[n].right]
           R(n) == [file |-> Schemas!Rest[n], digest |-> r.rest[n],
                    right |-> r.items[IF n = 3 THEN "vectors" ELSE "profiles"]]
           s == [n \in 1 .. k |-> E(n)]
           t == [n \in 1 .. 3 |-> R(n)]
           V == {E(n) : n \in 1 .. k} \cup {R(n) : n \in 1 .. 3}
<1>1. k \in Nat /\ DOMAIN r.entries = 1 .. k
  BY SchemaAssumption
<1>2. Schemas!Parts(r) = s \o t
  BY <1>1, FilesAre DEF Schemas!Parts
<1> HIDE DEF E, R, k
<1>3. s \in Seq(V) /\ t \in Seq(V) /\ Len(s) = k /\ Len(t) = 3
  BY <1>1
<1> HIDE DEF V
<1> HIDE DEF s, t
<1>4. /\ DOMAIN (s \o t) = 1 .. k + 3 /\ s \o t \in Seq(V)
      /\ \A i \in 1 .. k : (s \o t)[i] = s[i]
      /\ \A i \in 1 .. 3 : (s \o t)[i + k] = t[i]
  <2>1. s \in Seq(V) /\ t \in Seq(V)
    BY <1>3
  <2>2. /\ s \o t \in Seq(V)
        /\ DOMAIN (s \o t) = 1 .. Len(s) + Len(t)
        /\ \A i \in 1 .. Len(s) : (s \o t)[i] = s[i]
        /\ \A i \in 1 .. Len(t) : (s \o t)[i + Len(s)] = t[i]
    BY <2>1, Parts
  <2> QED
    BY <1>3, <2>2
<1>5. \A n \in 1 .. k : (s \o t)[n] = E(n)
  BY <1>4 DEF s
<1>6. ASSUME NEW n \in 1 .. 3 PROVE (s \o t)[k + n] = R(n)
  <2>1. k + n = n + k
    BY <1>1
  <2> QED
    BY <1>4, <2>1 DEF t
<1>7. Len(s \o t) = k + 3
  <2>1. Len(s \o t) \in Nat /\ DOMAIN (s \o t) = 1 .. Len(s \o t)
    BY <1>4
  <2> QED
    BY <1>1, <1>4, <2>1
<1> QED
  BY <1>1, <1>2, <1>4, <1>5, <1>6, <1>7 DEF E, R, k

\* A part is one of the entries, or of the other three.
LEMMA PartIs ==
  ASSUME TreeTyped
  PROVE  /\ Last \in Nat /\ Last = Len(Schemas!Parts(v7)) /\ DOMAIN Schemas!Parts(v7) = 1 .. Last
         /\ Len(v7.entries) \in Nat /\ DOMAIN v7.entries = 1 .. Len(v7.entries)
         /\ \A n \in 1 .. Len(v7.entries) :
              /\ n \in 1 .. Last
              /\ Part(n).file = v7.entries[n].id /\ Part(n).digest = v7.entries[n].digest
              /\ Part(n).right = v7.entries[n].right
         /\ \A n \in 1 .. 3 :
              /\ Len(v7.entries) + n \in 1 .. Last
              /\ Part(Len(v7.entries) + n).file = Schemas!Rest[n]
              /\ Part(Len(v7.entries) + n).right = v7.items[IF n = 3 THEN "vectors" ELSE "profiles"]
         /\ \A n \in 1 .. Last : \/ n \in 1 .. Len(v7.entries)
                                 \/ \E i \in 1 .. 3 : n = Len(v7.entries) + i
<1> DEFINE k == Len(v7.entries)
<1>1. v7 \in SchemasRegistries
  BY DEF TreeTyped
<1>2. k \in Nat /\ DOMAIN v7.entries = 1 .. k /\ Len(Schemas!Parts(v7)) = k + 3 /\ DOMAIN Schemas!Parts(v7) = 1 .. k + 3
  BY <1>1, PartsAre
<1>3. ASSUME NEW n \in 1 .. k
      PROVE  Part(n).file = v7.entries[n].id /\ Part(n).digest = v7.entries[n].digest /\ Part(n).right = v7.entries[n].right
  <2>1. Part(n) = [file |-> v7.entries[n].id, digest |-> v7.entries[n].digest, right |-> v7.entries[n].right]
    BY <1>1, <1>3, PartsAre DEF Part
  <2> QED
    BY <2>1
<1>4. ASSUME NEW n \in 1 .. 3
      PROVE  Part(k + n).file = Schemas!Rest[n] /\ Part(k + n).right = v7.items[IF n = 3 THEN "vectors" ELSE "profiles"]
  <2>1. Part(k + n) = [file |-> Schemas!Rest[n], digest |-> v7.rest[n],
                       right |-> v7.items[IF n = 3 THEN "vectors" ELSE "profiles"]]
    BY <1>1, <1>4, PartsAre DEF Part
  <2> QED
    BY <2>1
<1>5. Last = k + 3 /\ \A n \in 1 .. Last : n \in 1 .. k \/ \E i \in 1 .. 3 : n = k + i
  <2>1. Last = k + 3
    BY DEF Last
  <2>2. ASSUME NEW n \in 1 .. k + 3, ~(n \in 1 .. k) PROVE n - k \in 1 .. 3 /\ n = k + (n - k)
    BY <1>2, <2>2
  <2> QED
    BY <2>1, <2>2
<1>6. (\A n \in 1 .. k : n \in 1 .. Last) /\ \A n \in 1 .. 3 : k + n \in 1 .. Last
  BY <1>2, <1>5
<1> HIDE DEF k
<1>7. Last \in Nat
  BY <1>2, <1>5
<1> QED
  BY <1>2, <1>3, <1>4, <1>5, <1>6, <1>7 DEF k

\* Parts whose ids are those of the set are files.
LEMMA PartFiles ==
  ASSUME TreeTyped, Schemas!Identity(v7)
  PROVE  /\ \A n \in 1 .. Last : Part(n).file \in Schemas!File
         /\ {Part(n).file : n \in 1 .. Last} = Schemas!File
         /\ \A f \in SchemasId : \E n \in 1 .. Len(v7.entries) : v7.entries[n].id = f
<1>1. ASSUME NEW n \in 1 .. Len(v7.entries) PROVE v7.entries[n].id \in SchemasId
  BY PartIs DEF Schemas!Identity, Schemas!ToSet
<1>2. ASSUME NEW f \in SchemasId PROVE \E n \in 1 .. Len(v7.entries) : v7.entries[n].id = f
  BY PartIs DEF Schemas!Identity, Schemas!ToSet
<1>3. ASSUME NEW n \in 1 .. Last PROVE Part(n).file \in Schemas!File
  <2>1. CASE n \in 1 .. Len(v7.entries)
    BY <1>1, <2>1, PartIs, FilesAre
  <2>2. CASE \E i \in 1 .. 3 : n = Len(v7.entries) + i
    <3>1. PICK i \in 1 .. 3 : n = Len(v7.entries) + i
      BY <2>2
    <3>2. Part(n).file = Schemas!Rest[i]
      BY <3>1, PartIs
    <3>3. i = 1 \/ i = 2 \/ i = 3
      OBVIOUS
    <3> QED
      BY <3>2, <3>3, FilesAre
  <2> QED
    BY <2>1, <2>2, PartIs
<1>4. ASSUME NEW f \in Schemas!File PROVE \E n \in 1 .. Last : Part(n).file = f
  <2>1. CASE f \in SchemasId
    <3>1. PICK n \in 1 .. Len(v7.entries) : v7.entries[n].id = f
      BY <1>2, <2>1
    <3> QED
      BY <3>1, PartIs
  <2>2. CASE f \notin SchemasId
    <3>1. \E i \in 1 .. 3 : f = Schemas!Rest[i]
      BY <2>2, FilesAre
    <3>2. PICK i \in 1 .. 3 : f = Schemas!Rest[i]
      BY <3>1
    <3> QED
      BY <3>2, PartIs
  <2> QED
    BY <2>1, <2>2
<1> QED
  BY <1>2, <1>3, <1>4

\* Which files there are, and what each must hold.
LEMMA FitsMeans ==
  ASSUME NEW f, NEW doc
  PROVE  /\ f \in SchemasId => (Schemas!Fits(f, doc) <=> doc.good /\ doc.id = f)
         /\ f \notin SchemasId /\ f = "profile" => (Schemas!Fits(f, doc) <=> doc.good /\ doc.refs = {})
         /\ f \notin SchemasId /\ f = "cases" => (Schemas!Fits(f, doc) <=> doc.good)
         /\ f \notin SchemasId /\ f = "vectors" => Schemas!Fits(f, doc)
<1>1. CASE f \in SchemasId
  <2>1. f # "profile" /\ f # "cases"
    BY <1>1, SchemaAssumption
  <2> QED
    BY <1>1, <2>1, Zenon DEF Schemas!Fits
<1>2. CASE f \notin SchemasId /\ f = "profile"
  BY <1>2 DEF Schemas!Fits, Schemas!ProfileFits
<1>3. CASE f \notin SchemasId /\ f = "cases"
  BY <1>3, Zenon DEF Schemas!Fits
<1>4. CASE f \notin SchemasId /\ f = "vectors"
  BY <1>4 DEF Schemas!Fits
<1> QED
  BY <1>1, <1>2, <1>3, <1>4

\* In a sound set every id is registered once.
LEMMA SoundIdentity ==
  ASSUME TreeTyped, Schemas!Sound
  PROVE  /\ v1.good /\ Schemas!Identity(v1)
         /\ \A m, n \in 1 .. Len(v1.entries) : v1.entries[m].id = v1.entries[n].id => m = n
<1> DEFINE k == Len(v1.entries)
           At(f) == {n \in 1 .. k : v1.entries[n].id = f}
<1>1. k \in Nat /\ DOMAIN v1.entries = 1 .. k
  BY SchemaAssumption DEF TreeTyped
<1>2. \A n \in 1 .. k : v1.entries[n].id \in SchemasId
  BY <1>1 DEF Schemas!Sound, Schemas!ToSet
<1>3. \A S : Schemas!Cardinality(S) = Cardinality(S)
  BY DEF Cardinality, Schemas!Cardinality
<1>4. ASSUME NEW f \in SchemasId PROVE \E n : At(f) = {n}
  <2>1. Cardinality(At(f)) = 1
    <3>1. Schemas!Cardinality({n \in DOMAIN v1.entries : v1.entries[n].id = f}) = 1
      BY DEF Schemas!Sound
    <3>2. At(f) = {n \in DOMAIN v1.entries : v1.entries[n].id = f}
      BY <1>1
    <3> QED
      BY <1>3, <3>1, <3>2
  <2>2. IsFiniteSet(At(f))
    <3>1. At(f) \in SUBSET (1 .. k)
      OBVIOUS
    <3>2. IsFiniteSet(1 .. k)
      <4>1. 1 \in Int /\ k \in Int
        BY <1>1
      <4> HIDE DEF k
      <4> QED
        BY <4>1, FS_Interval
    <3> QED
      BY <3>1, <3>2, FS_Subset
  <2> DEFINE T == At(f)
  <2>3. IsFiniteSet(T) /\ Cardinality(T) = 1
    BY <2>1, <2>2
  <2> HIDE DEF T
  <2>4. \E n : T = {n}
    BY <2>3, FS_Singleton
  <2> QED
    BY <2>4 DEF T
<1>5. \A m, n \in 1 .. k : v1.entries[m].id = v1.entries[n].id => m = n
  BY <1>2, <1>4
<1>6. \A f \in SchemasId : \E n \in 1 .. k : v1.entries[n].id = f
  BY <1>4
<1> DEFINE g == [n \in 1 .. k |-> v1.entries[n].id]
<1>7. g \in Bijection(1 .. k, SchemasId)
  <2>1. g \in [1 .. k -> SchemasId]
    BY <1>2
  <2>2. \A m, n \in 1 .. k : g[m] = g[n] => m = n
    BY <1>5
  <2>3. \A f \in SchemasId : \E n \in 1 .. k : g[n] = f
    BY <1>6
  <2> HIDE DEF g
  <2>4. g \in Injection(1 .. k, SchemasId) /\ g \in Surjection(1 .. k, SchemasId)
    BY <2>1, <2>2, <2>3 DEF Injection, Surjection, IsInjective
  <2> QED
    BY <2>4 DEF Bijection
<1>8. Cardinality(SchemasId) = k
  BY <1>1, <1>7, FS_CountingElements DEF ExistsBijection
<1>9. v1.good
  BY DEF Schemas!Sound
<1>10. {e.id : e \in Schemas!ToSet(v1.entries)} = SchemasId
  BY <1>1, <1>2, <1>6 DEF Schemas!ToSet
<1> QED
  BY <1>3, <1>5, <1>8, <1>9, <1>10 DEF Schemas!Identity

\* In a sound set nothing is found wrong.
LEMMA SoundMeans ==
  ASSUME TreeTyped, v7 = v1, Schemas!Sound
  PROVE  /\ v7.good /\ Schemas!Identity(v7)
         /\ ~v4 /\ \A f \in Schemas!File : Schemas!Exact(f)
         /\ \A n \in 1 .. Last : /\ Part(n).right /\ There(n)
                                 /\ Schemas!Fits(Part(n).file, Part(n).digest)
                                 /\ Part(n).file \in SchemasId => Part(n).digest.refs \subseteq SchemasId
         /\ \A m, n \in 1 .. Last : Part(m).file = Part(n).file => m = n
<1> DEFINE k == Len(v7.entries)
<1>1. v7.good /\ ~v4
  BY DEF Schemas!Sound
<1>2. Schemas!Identity(v7) /\ \A m, n \in 1 .. k : v7.entries[m].id = v7.entries[n].id => m = n
  BY SoundIdentity
<1>3. ASSUME NEW n \in 1 .. Last
      PROVE  /\ v2[Part(n).file].kind = "file" /\ v2[Part(n).file].doc = Part(n).digest
             /\ Part(n).file \in SchemasId => /\ Part(n).digest.good /\ Part(n).digest.id = Part(n).file
                                              /\ Part(n).digest.refs \subseteq SchemasId
             /\ Part(n).file \in {"profile", "cases"} => Part(n).digest.good
             /\ Part(n).file = "profile" => Part(n).digest.refs = {}
  <2>1. Part(n) \in Schemas!ToSet(Schemas!Parts(v1))
    BY PartIs DEF Part, Schemas!ToSet
  <2>2. /\ v2[Part(n).file] = [kind |-> "file", doc |-> Part(n).digest]
        /\ Part(n).file \in SchemasId => /\ Part(n).digest.good /\ Part(n).digest.id = Part(n).file
                                         /\ Part(n).digest.refs \subseteq SchemasId
        /\ Part(n).file \in {"profile", "cases"} => Part(n).digest.good
        /\ Part(n).file = "profile" => Part(n).digest.refs = {}
    BY <2>1, Zenon DEF Schemas!Sound
  <2> QED
    BY <2>2
<1>4. ASSUME NEW f \in Schemas!File PROVE Schemas!Exact(f)
  <2>1. PICK n \in 1 .. Last : Part(n).file = f
    BY <1>2, PartFiles
  <2>2. v2[f].kind = "file"
    BY <1>3, <2>1
  <2>3. v3[Schemas!Folder(f)] = "dir"
    BY DEF Schemas!Sound, Schemas!Folder, TreeTyped
  <2> QED
    BY <2>2, <2>3 DEF Schemas!Exact
<1>5. ASSUME NEW n \in 1 .. Last PROVE Part(n).right
  <2>1. CASE n \in 1 .. k
    <3>1. v7.entries[n] \in Schemas!ToSet(v1.entries)
      BY <2>1, PartIs DEF Schemas!ToSet
    <3>2. v7.entries[n].right
      BY <3>1 DEF Schemas!Sound
    <3> QED
      BY <2>1, <3>2, PartIs
  <2>2. CASE \E i \in 1 .. 3 : n = k + i
    <3>1. PICK i \in 1 .. 3 : n = k + i
      BY <2>2
    <3>2. Part(n).right = v7.items[IF i = 3 THEN "vectors" ELSE "profiles"]
      BY <3>1, PartIs
    <3>3. v7.items["profiles"] /\ v7.items["vectors"]
      BY DEF Schemas!Sound
    <3> QED
      BY <3>2, <3>3
  <2> QED
    BY <2>1, <2>2, PartIs
<1>6. ASSUME NEW n \in 1 .. Last PROVE There(n) /\ Schemas!Fits(Part(n).file, Part(n).digest)
  <2>1. Part(n).file \in Schemas!File
    BY <1>2, PartFiles
  <2>2. There(n)
    BY <1>3, <1>4, <2>1 DEF There
  <2>3. Schemas!Fits(Part(n).file, Part(n).digest)
    BY <1>3, <2>1, FitsMeans, FilesAre, SchemaAssumption
  <2> QED
    BY <2>2, <2>3
<1>7. ASSUME NEW m \in 1 .. Last, NEW n \in 1 .. Last, Part(m).file = Part(n).file PROVE m = n
  <2>1. ASSUME NEW x \in 1 .. k PROVE Part(x).file \in SchemasId /\ Part(x).file = v7.entries[x].id
    <3>1. v7.entries[x].id \in SchemasId
      BY <1>2, PartIs DEF Schemas!Identity, Schemas!ToSet
    <3> QED
      BY <3>1, PartIs
  <2>2. ASSUME NEW i \in 1 .. 3 PROVE Part(k + i).file = Schemas!Rest[i] /\ Part(k + i).file \notin SchemasId
    <3>1. i = 1 \/ i = 2 \/ i = 3
      OBVIOUS
    <3> QED
      BY <3>1, PartIs, FilesAre, SchemaAssumption
  <2>3. \A i, j \in 1 .. 3 : Schemas!Rest[i] = Schemas!Rest[j] => i = j
    <3>1. \A i \in 1 .. 3 : i = 1 \/ i = 2 \/ i = 3
      OBVIOUS
    <3> QED
      BY <3>1, FilesAre
  <2>4. (m \in 1 .. k \/ \E i \in 1 .. 3 : m = k + i) /\ (n \in 1 .. k \/ \E i \in 1 .. 3 : n = k + i)
    BY PartIs
  <2>5. CASE m \in 1 .. k /\ n \in 1 .. k
    BY <1>2, <1>7, <2>1, <2>5
  <2>6. CASE (\E i \in 1 .. 3 : m = k + i) /\ \E j \in 1 .. 3 : n = k + j
    BY <1>7, <2>2, <2>3, <2>6
  <2>7. CASE m \in 1 .. k /\ \E j \in 1 .. 3 : n = k + j
    BY <1>7, <2>1, <2>2, <2>7
  <2>8. CASE n \in 1 .. k /\ \E j \in 1 .. 3 : m = k + j
    BY <1>7, <2>1, <2>2, <2>8
  <2> QED
    BY <2>4, <2>5, <2>6, <2>7, <2>8
<1> QED
  BY <1>1, <1>2, <1>3, <1>4, <1>5, <1>6, <1>7

\* What was loaded without a change meanwhile is sound.
LEMMA LoadedSound ==
  ASSUME SchemaInv, v5 = "loaded", ~v10
  PROVE  Schemas!Sound
<1> DEFINE k == Len(v7.entries)
<1>1. /\ TreeTyped /\ v7.good /\ Schemas!Identity(v7) /\ v7 = v1
      /\ ~v4 /\ (\A f \in SchemasId : Schemas!Exact(f))
      /\ v6 = Last + 1 /\ \A n \in 1 .. v6 - 1 : There(n)
  BY DEF SchemaInv, Undisturbed, Loading, PartsRead
<1>2. v6 - 1 = Last
  BY <1>1, PartIs
<1>3. /\ \A n \in 1 .. Last : /\ v8[Part(n).file] = Part(n).digest
                              /\ Schemas!Fits(Part(n).file, Part(n).digest)
                              /\ Part(n).right /\ There(n)
      /\ \A m, n \in 1 .. Last : Part(m).file = Part(n).file => m = n
      /\ \A f \in SchemasId : v8[f].refs \subseteq SchemasId
  BY <1>1, <1>2 DEF SchemaInv, Loading, PartsRead
<1>4. \A e \in Schemas!ToSet(v1.entries) : e.right /\ e.id \in SchemasId
  <2>1. ASSUME NEW n \in 1 .. k PROVE v7.entries[n].right /\ v7.entries[n].id \in SchemasId
    <3>1. v7.entries[n].right
      BY <1>1, <1>3, PartIs
    <3> QED
      BY <1>1, <3>1, PartIs DEF Schemas!Identity, Schemas!ToSet
  <2> QED
    BY <1>1, <2>1, PartIs DEF Schemas!ToSet
<1>5. ASSUME NEW f \in SchemasId
      PROVE  Schemas!Cardinality({n \in DOMAIN v1.entries : v1.entries[n].id = f}) = 1
  <2>1. PICK n \in 1 .. k : v7.entries[n].id = f
    BY <1>1, PartFiles
  <2>2. ASSUME NEW m \in 1 .. k, v7.entries[m].id = f PROVE m = n
    BY <1>1, <1>3, <2>1, <2>2, PartIs
  <2>3. {i \in DOMAIN v1.entries : v1.entries[i].id = f} = {n}
    <3>1. n \in DOMAIN v1.entries /\ v1.entries[n].id = f /\ DOMAIN v1.entries = 1 .. k
      BY <1>1, <2>1, PartIs
    <3>2. \A i \in DOMAIN v1.entries : v1.entries[i].id = f => i = n
      BY <1>1, <2>2, <3>1
    <3> QED
      BY <3>1, <3>2
  <2>4. Cardinality({n}) = 1
    BY FS_Singleton
  <2>5. Schemas!Cardinality({n}) = Cardinality({n})
    BY DEF Cardinality, Schemas!Cardinality
  <2> QED
    BY <2>3, <2>4, <2>5
<1>6. v1.items["profiles"] /\ v1.items["vectors"]
  <2>1. /\ k + 1 \in 1 .. Last /\ Part(k + 1).right = v7.items["profiles"]
        /\ k + 3 \in 1 .. Last /\ Part(k + 3).right = v7.items["vectors"]
    BY <1>1, PartIs
  <2> QED
    BY <1>1, <1>3, <2>1
<1>7. \A d \in DOMAIN v3 : v3[d] = "dir"
  <2>1. PICK f \in SchemasId : TRUE
    BY SchemaAssumption
  <2>2. v3["schemas"] = "dir"
    BY <1>1, <2>1 DEF Schemas!Exact, Schemas!Folder
  <2>3. k + 1 \in 1 .. Last /\ Part(k + 1).file = "profile"
    BY <1>1, PartIs, FilesAre
  <2>4. v3["conformance"] = "dir"
    <3>1. There(k + 1) /\ "profile" \notin SchemasId
      BY <1>3, <2>3, SchemaAssumption
    <3> QED
      BY <2>3, <3>1 DEF There, Schemas!Exact, Schemas!Folder
  <2> QED
    BY <1>1, <2>2, <2>4 DEF TreeTyped
<1>8. ASSUME NEW part \in Schemas!ToSet(Schemas!Parts(v1))
      PROVE  /\ v2[part.file] = [kind |-> "file", doc |-> part.digest]
             /\ part.file \in SchemasId => /\ part.digest.good /\ part.digest.id = part.file
                                           /\ part.digest.refs \subseteq SchemasId
             /\ part.file \in {"profile", "cases"} => part.digest.good
             /\ part.file = "profile" => part.digest.refs = {}
  <2>1. PICK n \in 1 .. Last : part = Part(n)
    BY <1>1, PartIs DEF Part, Schemas!ToSet
  <2>2. There(n) /\ part.file \in Schemas!File /\ Schemas!Fits(part.file, part.digest) /\ v8[part.file] = part.digest
    BY <1>1, <1>3, <2>1, PartFiles
  <2>3. v2[part.file] = [kind |-> "file", doc |-> part.digest]
    BY <1>1, <2>1, <2>2 DEF There, Schemas!Exact, TreeTyped
  <2>4. part.file \in SchemasId => part.digest.refs \subseteq SchemasId
    BY <1>3, <2>2
  <2> QED
    BY <2>2, <2>3, <2>4, FitsMeans, SchemaAssumption
<1> QED
  BY <1>1, <1>4, <1>5, <1>6, <1>7, <1>8 DEF Schemas!Sound

\* What does not change with the files.
LEMMA PartsSame ==
  ASSUME UNCHANGED v7
  PROVE  Last' = Last /\ \A n : Part(n)' = Part(n)
BY DEF Last, Part

LEMMA TreeSame ==
  ASSUME UNCHANGED <<v1, v2, v3, v4>>
  PROVE  /\ (\A f : Schemas!Exact(f)' <=> Schemas!Exact(f))
         /\ (Schemas!Sound' <=> Schemas!Sound)
         /\ UNCHANGED v7 => (TreeTyped' <=> TreeTyped) /\ \A n : There(n)' <=> There(n)
<1>1. \A f : Schemas!Exact(f)' <=> Schemas!Exact(f)
  BY DEF Schemas!Exact
<1>2. Schemas!Sound' <=> Schemas!Sound
  BY DEF Schemas!Sound
<1>3. ASSUME UNCHANGED v7 PROVE (TreeTyped' <=> TreeTyped) /\ \A n : There(n)' <=> There(n)
  BY <1>3 DEF TreeTyped, There, Part, Schemas!Exact
<1> QED
  BY <1>1, <1>2, <1>3

LEMMA SchemaInit ==
  ASSUME Schemas!Init
  PROVE  SchemaInv
<1>1. TreeTyped
  BY DEF Schemas!Init, TreeTyped
<1>2. v5 = "start" /\ v8 = <<>>
  BY DEF Schemas!Init
<1> QED
  BY <1>1, <1>2 DEF SchemaInv, Loading, Undisturbed

LEMMA ReadSetKeeps ==
  ASSUME SchemaInv, Schemas!ReadSet
  PROVE  SchemaInv'
<1>1. /\ v5 = "start" /\ v7' = v1 /\ v8 = <<>> /\ v8' = v8 /\ v10' = v10
      /\ v5' = IF v1.good /\ Schemas!Identity(v1) THEN "inventory" ELSE "refused"
      /\ UNCHANGED <<v1, v2, v3, v4>> /\ TreeTyped
  BY DEF SchemaInv, Schemas!ReadSet, Schemas!Go, Schemas!disk
<1>2. TreeTyped'
  BY <1>1 DEF TreeTyped
<1>3. v5' = "refused" => ~Schemas!Sound'
  BY <1>1, SoundIdentity, TreeSame
<1>4. v5' \in {"inventory", "refused"} /\ (v5' = "inventory" => v7'.good /\ Schemas!Identity(v7)')
  BY <1>1 DEF Schemas!Identity
<1>5. ~Loading' /\ v5' # "start" /\ v5' # "read" /\ v5' # "crashed"
  BY <1>4 DEF Loading
<1>6. Undisturbed'
  BY <1>1, <1>3, <1>5 DEF Undisturbed
<1> QED
  BY <1>1, <1>2, <1>4, <1>5, <1>6 DEF SchemaInv

LEMMA InventoryKeeps ==
  ASSUME SchemaInv, Schemas!Inventory
  PROVE  SchemaInv'
<1>1. /\ v5 = "inventory" /\ v6' = 1 /\ v8 = <<>> /\ TreeTyped
      /\ v5' = IF ~v4 /\ \A f \in SchemasId : Schemas!Exact(f) THEN "find" ELSE "refused"
      /\ UNCHANGED <<v1, v2, v3, v4>> /\ UNCHANGED v7 /\ UNCHANGED v8 /\ UNCHANGED v10
      /\ v7.good /\ Schemas!Identity(v7)
      /\ ~v10 => v7 = v1
  BY DEF SchemaInv, Undisturbed, Schemas!Inventory, Schemas!Go, Schemas!disk
<1>2. TreeTyped'
  BY <1>1, TreeSame
<1>3. v7'.good /\ Schemas!Identity(v7)'
  BY <1>1 DEF Schemas!Identity
<1>4. v5' = "find" \/ v5' = "refused"
  BY <1>1
<1>5. ASSUME v5' = "find" PROVE PartsRead'
  <2>1. Last \in Nat /\ 1 <= Last /\ Last' = Last
    BY <1>1, PartIs, PartsSame
  <2>2. {Part(n)'.file : n \in 1 .. 1 - 1} = {} /\ DOMAIN v8' = {} /\ 1 .. 1 - 1 = {}
    BY <1>1
  <2> QED
    BY <1>1, <1>5, <2>1, <2>2 DEF PartsRead
<1>6. ASSUME ~v10' PROVE Undisturbed'
  <2>1. v5' = "refused" => ~Schemas!Sound'
    <3>1. Schemas!Sound => ~v4 /\ \A f \in SchemasId : Schemas!Exact(f)
      BY <1>1, <1>6, SoundMeans, FilesAre
    <3> QED
      BY <1>1, <3>1, TreeSame
  <2>2. v5' = "find" => ~v4' /\ \A f \in SchemasId : Schemas!Exact(f)'
    BY <1>1, TreeSame
  <2>3. v7' = v1' /\ 1 .. v6' - 1 = {}
    BY <1>1, <1>6
  <2> QED
    BY <1>4, <2>1, <2>2, <2>3 DEF Undisturbed, Loading
<1> QED
  BY <1>2, <1>3, <1>4, <1>5, <1>6 DEF SchemaInv, Loading

LEMMA FindKeeps ==
  ASSUME SchemaInv, Schemas!Find
  PROVE  SchemaInv'
<1> DEFINE p == Part(v6)
<1>1. /\ v5 = "find" /\ TreeTyped /\ PartsRead
      /\ v5' = IF p.right /\ p.file \notin DOMAIN v8 /\ Schemas!Exact(p.file) THEN "read" ELSE "refused"
      /\ UNCHANGED <<v1, v2, v3, v4>> /\ UNCHANGED <<v6, v7, v8, v10>>
      /\ v7.good /\ Schemas!Identity(v7)
      /\ ~v10 => Undisturbed
  BY DEF SchemaInv, Loading, Schemas!Find, Schemas!Go, Schemas!disk, Part
<1>2. TreeTyped' /\ \A n : There(n)' <=> There(n)
  BY <1>1, TreeSame
<1>3. v7'.good /\ Schemas!Identity(v7)'
  BY <1>1 DEF Schemas!Identity
<1>4. v5' = "read" \/ v5' = "refused"
  BY <1>1
<1>5. Last' = Last /\ \A n : Part(n)' = Part(n)
  BY <1>1, PartsSame
<1>6. v6 \in 1 .. Last /\ DOMAIN v8 = {Part(n).file : n \in 1 .. v6 - 1}
  BY <1>1, PartIs DEF PartsRead
<1>7. ASSUME v5' = "read" PROVE PartsRead'
  <2>1. p.right /\ p.file \notin DOMAIN v8
    BY <1>1, <1>7
  <2> HIDE DEF p
  <2>2. Part(v6)' = p /\ v6' = v6
    BY <1>1, <1>5 DEF p
  <2>3. v5' # "find" /\ v5' # "references" /\ v5' # "loaded"
    BY <1>7
  <2>4. v6' <= Last'
    BY <1>1, <1>5, <1>6
  <2> QED
    BY <1>1, <1>5, <1>6, <2>1, <2>2, <2>3, <2>4 DEF PartsRead
<1>8. ASSUME ~v10' PROVE Undisturbed'
  <2>1. Undisturbed /\ v7 = v1
    BY <1>1, <1>8 DEF Undisturbed
  <2>2. Schemas!Sound => v5' = "read"
    <3>1. ASSUME Schemas!Sound PROVE p.right /\ p.file \notin DOMAIN v8 /\ Schemas!Exact(p.file)
      <4>1. /\ Part(v6).right /\ There(v6)
            /\ \A m, n \in 1 .. Last : Part(m).file = Part(n).file => m = n
        BY <1>1, <1>6, <2>1, <3>1, SoundMeans
      <4>2. ASSUME NEW n \in 1 .. v6 - 1 PROVE Part(n).file # Part(v6).file
        <5>1. n \in 1 .. Last /\ n # v6
          BY <1>1, <1>6, PartIs
        <5> QED
          BY <1>6, <4>1, <5>1
      <4> QED
        BY <1>6, <4>1, <4>2 DEF There
    <3> QED
      BY <1>1, <3>1
  <2>3. ~v4' /\ (\A f \in SchemasId : Schemas!Exact(f)') /\ \A n \in 1 .. v6' - 1 : There(n)'
    BY <1>1, <1>2, <2>1, TreeSame DEF Undisturbed, Loading
  <2>4. v5' = "read" => Schemas!Exact(Part(v6).file)'
    BY <1>1, <1>5, TreeSame
  <2>5. v5' = "refused" => ~Schemas!Sound'
    BY <1>1, <2>2, TreeSame
  <2>6. v7' = v1'
    BY <1>1, <2>1
  <2> QED
    BY <1>4, <2>3, <2>4, <2>5, <2>6 DEF Undisturbed
<1> QED
  BY <1>2, <1>3, <1>4, <1>7, <1>8 DEF SchemaInv, Loading

LEMMA FileKeeps ==
  ASSUME SchemaInv, Schemas!Read
  PROVE  SchemaInv'
<1> DEFINE p == Part(v6)
           Good == v2[p.file].kind \in {"file", "link"} /\ v2[p.file].doc = p.digest
                     /\ Schemas!Fits(p.file, v2[p.file].doc)
<1>1. /\ v5 = "read" /\ TreeTyped /\ PartsRead
      /\ UNCHANGED <<v1, v2, v3, v4>> /\ UNCHANGED v7 /\ UNCHANGED v10
      /\ v7.good /\ Schemas!Identity(v7)
      /\ ~v10 => Undisturbed
  BY DEF SchemaInv, Loading, Schemas!Read, Schemas!disk
<1>2. /\ Good => Schemas!Keep(p.file, v2[p.file].doc)
      /\ ~Good => /\ v5' = IF v2[p.file].kind \in {"file", "link"} THEN "refused" ELSE "crashed"
  BY DEF Schemas!Read, Part
<1>3. TreeTyped' /\ \A n : There(n)' <=> There(n)
  BY <1>1, TreeSame
<1>4. v7'.good /\ Schemas!Identity(v7)'
  BY <1>1 DEF Schemas!Identity
<1>5. Last' = Last /\ \A n : Part(n)' = Part(n)
  BY <1>1, PartsSame
<1>6. v6 \in 1 .. Last /\ Last \in Nat /\ Last = Len(Schemas!Parts(v7))
  BY <1>1, PartIs DEF PartsRead
<1>7. /\ DOMAIN v8 = {Part(n).file : n \in 1 .. v6 - 1}
      /\ p.right /\ p.file \notin DOMAIN v8
  BY <1>1 DEF PartsRead
<1>8. ASSUME ~v10 PROVE /\ v2[p.file].kind = "file"
                        /\ ~Good => ~Schemas!Sound
  <2>1. Undisturbed /\ v7 = v1 /\ Schemas!Exact(p.file)
    BY <1>1, <1>8 DEF Undisturbed
  <2>2. v2[p.file].kind = "file"
    BY <2>1 DEF Schemas!Exact
  <2>3. Schemas!Sound => v2[p.file].doc = p.digest /\ Schemas!Fits(p.file, p.digest)
    <3>1. Schemas!Sound => There(v6) /\ Schemas!Fits(Part(v6).file, Part(v6).digest)
      BY <1>1, <1>6, <2>1, SoundMeans
    <3> QED
      BY <3>1 DEF There
  <2> QED
    BY <2>2, <2>3
<1>9. CASE ~Good
  <2>1. v5' = "refused" \/ v5' = "crashed"
    BY <1>2, <1>9
  <2>2. ~v10' => v5' = "refused" /\ ~Schemas!Sound' /\ v7' = v1'
    BY <1>1, <1>2, <1>8, <1>9, TreeSame DEF Undisturbed
  <2> HIDE DEF Good
  <2> QED
    BY <1>3, <1>4, <2>1, <2>2 DEF SchemaInv, Loading, Undisturbed
<1>10. CASE Good
  <2>1. /\ v8' = [g \in DOMAIN v8 \cup {p.file} |-> IF g = p.file THEN p.digest ELSE v8[g]]
        /\ v6' = v6 + 1
        /\ v5' = IF v6 = Last THEN "references" ELSE "find"
        /\ Schemas!Fits(p.file, p.digest) /\ v2[p.file].doc = p.digest
    BY <1>2, <1>6, <1>10 DEF Schemas!Keep
  <2> HIDE DEF Good
  <2>2. 1 .. v6' - 1 = (1 .. v6 - 1) \cup {v6} /\ v6 \notin 1 .. v6 - 1
    BY <1>6, <2>1
  <2>3. ASSUME NEW n \in 1 .. v6 - 1 PROVE Part(n).file \in DOMAIN v8 /\ Part(n).file # p.file
    BY <1>7
  <2>4. DOMAIN v8' = {Part(n)'.file : n \in 1 .. v6' - 1}
    <3>1. {Part(n).file : n \in 1 .. v6' - 1} = {Part(n).file : n \in 1 .. v6 - 1} \cup {p.file}
      BY <2>2
    <3> QED
      BY <1>5, <1>7, <2>1, <3>1
  <2>5. ASSUME NEW n \in 1 .. v6' - 1
        PROVE  v8'[Part(n).file] = Part(n).digest /\ Schemas!Fits(Part(n).file, Part(n).digest) /\ Part(n).right
    <3>1. CASE n = v6
      BY <1>7, <2>1, <3>1
    <3>2. CASE n \in 1 .. v6 - 1
      <4>1. v8[Part(n).file] = Part(n).digest /\ Schemas!Fits(Part(n).file, Part(n).digest) /\ Part(n).right
        BY <1>1, <3>2 DEF PartsRead
      <4>2. v8'[Part(n).file] = v8[Part(n).file]
        BY <2>1, <2>3, <3>2
      <4> QED
        BY <4>1, <4>2
    <3> QED
      BY <2>2, <3>1, <3>2
  <2>6. ASSUME NEW m \in 1 .. v6' - 1, NEW n \in 1 .. v6' - 1, Part(m).file = Part(n).file PROVE m = n
    <3>1. CASE m \in 1 .. v6 - 1 /\ n \in 1 .. v6 - 1
      BY <1>1, <2>6, <3>1 DEF PartsRead
    <3>2. CASE m = v6 \/ n = v6
      BY <2>2, <2>3, <2>6, <3>2
    <3> QED
      BY <2>2, <3>1, <3>2
  <2>7. /\ v6' \in 1 .. Last' + 1
        /\ v5' \in {"find", "references"}
        /\ v5' = "find" => v6' <= Last'
        /\ v5' = "references" => v6' = Last' + 1
    BY <1>5, <1>6, <2>1
  <2>8. PartsRead'
    <3>1. /\ v5' \in {"find", "read"} => v6' <= Last'
          /\ v5' \in {"references", "loaded"} => v6' = Last' + 1
          /\ v5' # "read" /\ v5' # "loaded"
      BY <2>7
    <3>2. /\ \A n \in 1 .. v6' - 1 : /\ v8'[Part(n)'.file] = Part(n)'.digest
                                     /\ Schemas!Fits(Part(n)'.file, Part(n)'.digest)
                                     /\ Part(n)'.right
          /\ \A m, n \in 1 .. v6' - 1 : Part(m)'.file = Part(n)'.file => m = n
      BY <1>5, <2>5, <2>6
    <3> QED
      BY <2>4, <2>7, <3>1, <3>2 DEF PartsRead
  <2>9. ASSUME ~v10' PROVE Undisturbed'
    <3>1. Undisturbed
      BY <1>1, <2>9
    <3>2. v7' = v1' /\ ~v4' /\ \A f \in SchemasId : Schemas!Exact(f)'
      BY <1>1, <3>1, TreeSame DEF Undisturbed, Loading
    <3>3. There(v6) /\ \A n \in 1 .. v6 - 1 : There(n)
      BY <1>1, <2>1, <3>1 DEF Undisturbed, Loading, There
    <3>4. \A n \in 1 .. v6' - 1 : There(n)'
      BY <1>3, <2>2, <3>3
    <3> QED
      BY <2>7, <3>2, <3>4 DEF Undisturbed
  <2> QED
    BY <1>3, <1>4, <2>7, <2>8, <2>9 DEF SchemaInv, Loading
<1> QED
  BY <1>9, <1>10

LEMMA ReferencesKeeps ==
  ASSUME SchemaInv, Schemas!References
  PROVE  SchemaInv'
<1>1. /\ v5 = "references" /\ TreeTyped /\ PartsRead
      /\ v5' = IF \A f \in SchemasId : v8[f].refs \subseteq SchemasId THEN "loaded" ELSE "refused"
      /\ UNCHANGED <<v1, v2, v3, v4>> /\ UNCHANGED <<v6, v7, v8, v10>>
      /\ v7.good /\ Schemas!Identity(v7)
      /\ ~v10 => Undisturbed
  BY DEF SchemaInv, Loading, Schemas!References, Schemas!Go, Schemas!disk
<1>2. TreeTyped' /\ \A n : There(n)' <=> There(n)
  BY <1>1, TreeSame
<1>3. v7'.good /\ Schemas!Identity(v7)'
  BY <1>1 DEF Schemas!Identity
<1>4. v5' = "loaded" \/ v5' = "refused"
  BY <1>1
<1>5. Last' = Last /\ \A n : Part(n)' = Part(n)
  BY <1>1, PartsSame
<1>6. v6 = Last + 1 /\ v6 - 1 = Last /\ Last \in Nat
  BY <1>1, PartIs DEF PartsRead
<1>7. ASSUME v5' = "loaded" PROVE PartsRead'
  <2>1. \A f \in SchemasId : v8'[f].refs \subseteq SchemasId
    BY <1>1, <1>7
  <2>2. v6' = Last' + 1 /\ v6' \in 1 .. Last' + 1 /\ v5' # "find" /\ v5' # "read"
    BY <1>1, <1>5, <1>6, <1>7
  <2> QED
    BY <1>1, <1>5, <2>1, <2>2 DEF PartsRead
<1>8. ASSUME ~v10' PROVE Undisturbed'
  <2>1. Undisturbed /\ v7 = v1
    BY <1>1, <1>8 DEF Undisturbed
  <2>2. ASSUME Schemas!Sound, NEW f \in SchemasId PROVE v8[f].refs \subseteq SchemasId
    <3>1. PICK n \in 1 .. Last : Part(n).file = f
      BY <1>1, PartFiles, FilesAre
    <3>2. Part(n).digest.refs \subseteq SchemasId
      BY <1>1, <2>1, <2>2, <3>1, SoundMeans
    <3>3. v8[Part(n).file] = Part(n).digest
      BY <1>1, <1>6 DEF PartsRead
    <3> QED
      BY <3>1, <3>2, <3>3
  <2>3. ~v4' /\ (\A f \in SchemasId : Schemas!Exact(f)') /\ \A n \in 1 .. v6' - 1 : There(n)'
    BY <1>1, <1>2, <2>1, TreeSame DEF Undisturbed, Loading
  <2>4. v5' = "refused" => ~Schemas!Sound'
    BY <1>1, <2>2, TreeSame
  <2>5. v7' = v1'
    BY <1>1, <2>1
  <2> QED
    BY <1>4, <2>3, <2>4, <2>5 DEF Undisturbed
<1> QED
  BY <1>2, <1>3, <1>4, <1>7, <1>8 DEF SchemaInv, Loading

LEMMA EditKeeps ==
  ASSUME SchemaInv, Schemas!Edit
  PROVE  SchemaInv'
<1>1. /\ UNCHANGED <<v5, v6, v7, v8>> /\ v10' = (v10 \/ v5 # "start")
      /\ TreeTyped
  BY DEF SchemaInv, Schemas!Edit
<1>2. TreeTyped'
  <2>1. v7' = v7 /\ v7 \in SchemasRegistries
    BY <1>1 DEF TreeTyped
  <2>2. CASE (\E r \in SchemasRegistries : v1' = r) /\ UNCHANGED <<v2, v3, v4>>
    BY <1>1, <2>1, <2>2 DEF TreeTyped
  <2>3. CASE /\ \E f \in Schemas!File, k \in {"file", "link", "folded", "none"} :
                  \E doc \in {c[f] : c \in SchemasContents} : v2' = [v2 EXCEPT ![f] = [kind |-> k, doc |-> doc]]
             /\ UNCHANGED <<v1, v3, v4>>
    <3>1. PICK f \in Schemas!File, k \in {"file", "link", "folded", "none"} :
            \E doc \in {c[f] : c \in SchemasContents} : v2' = [v2 EXCEPT ![f] = [kind |-> k, doc |-> doc]]
      BY <2>3
    <3>2. PICK doc \in {c[f] : c \in SchemasContents} : v2' = [v2 EXCEPT ![f] = [kind |-> k, doc |-> doc]]
      BY <3>1
    <3>3. /\ DOMAIN v2' = Schemas!File
          /\ \A g \in Schemas!File : v2'[g] = IF g = f THEN [kind |-> k, doc |-> doc] ELSE v2[g]
      BY <1>1, <3>2 DEF TreeTyped
    <3>4. \A g \in Schemas!File : v2'[g] = [kind |-> v2'[g].kind, doc |-> v2'[g].doc]
      BY <1>1, <3>3 DEF TreeTyped
    <3> QED
      BY <1>1, <2>1, <2>3, <3>3, <3>4 DEF TreeTyped
  <2>4. CASE (\E d \in DOMAIN v3 : v3' = [v3 EXCEPT ![d] = "link"]) /\ UNCHANGED <<v1, v2, v4>>
    <3>1. DOMAIN v3' = DOMAIN v3
      BY <2>4
    <3> QED
      BY <1>1, <2>1, <2>4, <3>1 DEF TreeTyped
  <2>5. CASE UNCHANGED <<v1, v2, v3>>
    BY <1>1, <2>1, <2>5 DEF TreeTyped
  <2> QED
    BY <2>2, <2>3, <2>4, <2>5 DEF Schemas!Edit
<1>3. PartsRead' <=> PartsRead
  BY <1>1 DEF PartsRead, Last, Part
<1>4. CASE v5 = "start"
  BY <1>1, <1>2, <1>4 DEF SchemaInv, Undisturbed, Loading
<1>5. CASE v5 # "start"
  <2>1. v10'
    BY <1>1, <1>5
  <2>2. v5' = "inventory" \/ Loading' => v7'.good /\ Schemas!Identity(v7)'
    BY <1>1 DEF SchemaInv, Loading, Schemas!Identity
  <2>3. v5' \in {"start", "inventory"} => v8' = <<>>
    BY <1>1 DEF SchemaInv
  <2>4. Loading' => PartsRead'
    BY <1>1, <1>3 DEF SchemaInv, Loading
  <2>5. v5' \in {"start", "inventory", "find", "read", "references", "loaded", "refused", "crashed"}
    BY <1>1 DEF SchemaInv
  <2> QED
    BY <1>2, <2>1, <2>2, <2>3, <2>4, <2>5 DEF SchemaInv
<1> QED
  BY <1>4, <1>5

LEMMA SchemaStep ==
  ASSUME SchemaInv, [Schemas!Next]_(Schemas!vars)
  PROVE  SchemaInv'
<1>1. CASE UNCHANGED Schemas!vars
  <2>1. UNCHANGED <<v1, v2, v3, v4>> /\ UNCHANGED <<v5, v6, v7, v8>> /\ UNCHANGED v10
    BY <1>1 DEF Schemas!vars
  <2>2. TreeTyped' /\ (\A n : There(n)' <=> There(n)) /\ (\A f : Schemas!Exact(f)' <=> Schemas!Exact(f))
        /\ (Schemas!Sound' <=> Schemas!Sound)
    BY <2>1, TreeSame DEF SchemaInv
  <2>3. PartsRead' <=> PartsRead
    BY <2>1 DEF PartsRead, Last, Part
  <2>4. Undisturbed => Undisturbed'
    <3>1. Part(v6)' = Part(v6)
      BY <2>1 DEF Part
    <3> QED
      BY <2>1, <2>2, <3>1 DEF Undisturbed, Loading
  <2>5. v5' = "inventory" \/ Loading' => v7'.good /\ Schemas!Identity(v7)'
    BY <2>1 DEF SchemaInv, Loading, Schemas!Identity
  <2>6. /\ v5' \in {"start", "inventory"} => v8' = <<>>
        /\ v5' \in {"start", "inventory", "find", "read", "references", "loaded", "refused", "crashed"}
    BY <2>1 DEF SchemaInv
  <2>7. Loading' => PartsRead'
    BY <2>1, <2>3 DEF SchemaInv, Loading
  <2>8. ~v10' => Undisturbed'
    BY <2>1, <2>4 DEF SchemaInv
  <2> QED
    BY <2>2, <2>5, <2>6, <2>7, <2>8 DEF SchemaInv
<1>2. CASE Schemas!Next
  BY <1>2, ReadSetKeeps, InventoryKeeps, FindKeeps, FileKeeps, ReferencesKeeps, EditKeeps DEF Schemas!Next
<1> QED
  BY <1>1, <1>2

\* A set that was loaded is as the property says.
LEMMA SchemaMeans == SchemaInv => Schemas!LoadExact
<1>1. ASSUME SchemaInv, v5 = "loaded"
      PROVE  /\ DOMAIN v8 = Schemas!File
             /\ \A part \in Schemas!ToSet(Schemas!Parts(v7)) :
                  v8[part.file] = part.digest /\ Schemas!Fits(part.file, part.digest)
             /\ \A f \in SchemasId : v8[f].refs \subseteq SchemasId
  <2>1. TreeTyped /\ PartsRead /\ Schemas!Identity(v7)
    BY <1>1 DEF SchemaInv, Loading
  <2>2. v6 - 1 = Last
    BY <1>1, <2>1, PartIs DEF PartsRead
  <2>3. DOMAIN v8 = Schemas!File
    BY <2>1, <2>2, PartFiles DEF PartsRead
  <2>4. ASSUME NEW part \in Schemas!ToSet(Schemas!Parts(v7))
        PROVE  v8[part.file] = part.digest /\ Schemas!Fits(part.file, part.digest)
    <3>1. PICK n \in 1 .. Last : part = Part(n)
      BY <2>1, PartIs DEF Part, Schemas!ToSet
    <3> QED
      BY <2>1, <2>2, <3>1 DEF PartsRead
  <2> QED
    BY <1>1, <2>1, <2>3, <2>4 DEF PartsRead
<1>2. ASSUME SchemaInv, ~v10
      PROVE  (v5 = "loaded" => Schemas!Sound) /\ (v5 = "refused" => ~Schemas!Sound) /\ v5 # "crashed"
  BY <1>2, LoadedSound DEF SchemaInv, Undisturbed
<1> QED
  BY <1>1, <1>2 DEF Schemas!LoadExact

\* SchemaSet.load, for any ids, registries and files: what was loaded is what the
\* registry names, whatever changes meanwhile; if nothing does, exactly the sound
\* sets are loaded, and nothing but a SchemaSetError is raised.
THEOREM SchemasAreExact ==
  Spec => [](program = "schemas" => Schemas!LoadExact)
<1> DEFINE Safe == program = "schemas" => SchemaInv
<1>1. Init => Safe
  BY SchemaInit DEF Init
<1>2. ASSUME Safe, [Next]_vars PROVE Safe'
  <2>1. CASE Next
    <3>1. program' = program
      BY <2>1 DEF Next
    <3>2. ASSUME program = "schemas" PROVE SchemaInv'
      <4>1. SchemaInv /\ [Schemas!Next]_(Schemas!vars)
        BY <1>2, <2>1, <3>2 DEF Next
      <4> QED
        BY <4>1, SchemaStep
    <3> QED
      BY <3>1, <3>2
  <2>2. CASE UNCHANGED vars
    <3>1. program' = program /\ UNCHANGED registries
      BY <2>2 DEF vars
    <3>2. ASSUME SchemaInv PROVE SchemaInv'
      <4>1. UNCHANGED Schemas!vars
        BY <3>1 DEF registries, Schemas!vars
      <4> QED
        BY <3>2, <4>1, SchemaStep
    <3> QED
      BY <1>2, <3>1, <3>2
  <2> QED
    BY <1>2, <2>1, <2>2
<1>3. Safe => (program = "schemas" => Schemas!LoadExact)
  BY SchemaMeans
<1> QED
  BY <1>1, <1>2, <1>3, PTL DEF Spec

-----------------------------------------------------------------------------
(* The router of tools.  While nothing changed, the answer is what the     *)
(* registry says; whatever changed, what is left of the capability that    *)
(* was selected is as it was but for its status, and no other serves the   *)
(* intent or has the id.                                                   *)

\* The capabilities that may be in a registry: a maintainer may have set their status.
Declared == UNION {{r[i] : i \in DOMAIN r} : r \in RoutingRegistries}
Capability == Declared \cup {[c EXCEPT !.status = "external"] : c \in Declared}

Routed(x) ==
  x = [intent |-> x.intent, platform |-> x.platform, answer |-> x.answer, moved |-> x.moved, doubled |-> x.doubled]

\* Capability c would be looked at for the intent of x, or for the id it got.
Meets(c, x) == x.intent = c.id \/ x.intent \in c.intents
Hits(c, x)  == c.id = x.answer.id \/ Meets(c, x)

\* c serves x from the file that it was told.
Suits(c, x) ==
  LET primary == Routing!Primaries(c, x.platform)
  IN /\ Meets(c, x)
     /\ ~Routing!Twice(Routing!Of(c, x.answer.origin))
     /\ primary # {} /\ c.bindings[Routing!First(primary)].origin = x.answer.origin

StillChosen(r, x) ==
  /\ x.answer = [code |-> "resolved", id |-> x.answer.id, origin |-> x.answer.origin]
  /\ \A i \in DOMAIN r : r[i].id = x.answer.id => Suits(r[i], x)
  /\ \A i, j \in DOMAIN r : Hits(r[i], x) /\ Hits(r[j], x) => i = j

RouteInv ==
  /\ v1 \in Seq(Capability)
  /\ Routed(v3)
  /\ v4 # Routing!NoCheck => v3 # Routing!NoRoute
  /\ v3 # Routing!NoRoute => v3.platform \in RoutingPlatforms
  /\ v3 # Routing!NoRoute /\ ~v3.moved => v3.answer = Routing!Resolve(v3.intent, v3.platform)
  /\ v3.answer.code = "resolved" /\ ~v3.doubled => StillChosen(v1, v3)
  /\ ~v3.doubled => (v4.code = "resolved" <=> v4.still)

\* Of places there is a first one; it is alone if there is no second.
LEMMA FirstPlace ==
  ASSUME NEW S \in SUBSET Nat, S # {}
  PROVE  Routing!First(S) \in S
<1>1. PICK x \in S : \A y \in S : x <= y
  BY LeastNat
<1>2. \A y \in S \ {x} : x < y
  BY <1>1
<1> QED
  BY <1>1, <1>2 DEF Routing!First

LEMMA OnlyPlace ==
  ASSUME NEW S, NEW n \in S, ~Routing!Twice(S)
  PROVE  S = {n} /\ Routing!First(S) = n
<1>1. S = {n}
  BY DEF Routing!Twice
<1>2. \A m \in S : m = n
  BY <1>1
<1>3. \A m \in S \ {n} : n < m
  BY <1>1
<1> QED
  BY <1>1, <1>2, <1>3 DEF Routing!First

\* A binding is found in a list.
LEMMA CapabilityShape ==
  ASSUME NEW c \in Capability
  PROVE  DOMAIN c.bindings \subseteq Nat
<1>1. ASSUME NEW d \in Declared
      PROVE  DOMAIN d.bindings \subseteq Nat /\ [d EXCEPT !.status = "external"].bindings = d.bindings
  <2>1. PICK r \in RoutingRegistries : \E i \in DOMAIN r : d = r[i]
    BY DEF Declared
  <2>2. {"bindings"} \subseteq DOMAIN d /\ DOMAIN d.bindings \subseteq Nat
    BY <2>1, RoutingAssumption
  <2>3. [d EXCEPT !.status = "external"].bindings = d.bindings
    BY <2>2
  <2> QED
    BY <2>2, <2>3
<1> QED
  BY <1>1 DEF Capability

\* What passes validate_capability has its files, and one primary binding at most.
LEMMA FaultlessMeans ==
  ASSUME NEW c \in Capability, Routing!CapabilityError(c) = "none"
  PROVE  /\ \A n \in DOMAIN c.bindings : c.bindings[n].origin \in v2
         /\ \A p \in RoutingPlatforms : ~Routing!Twice(Routing!Primaries(c, p))
         /\ \A n \in DOMAIN c.bindings : c.bindings[n].kind = "adapter" => c.bindings[n].target = c.engine
<1> DEFINE wrong == {n \in DOMAIN c.bindings : Routing!BindingError(c, c.bindings[n]) # "none"}
<1>1. wrong = {}
  <2>1. SUFFICES ASSUME wrong # {} PROVE FALSE
    OBVIOUS
  <2>2. wrong \in SUBSET Nat
    BY CapabilityShape
  <2>3. Routing!First(wrong) \in wrong
    BY <2>1, <2>2, FirstPlace
  <2>4. Routing!BindingError(c, c.bindings[Routing!First(wrong)]) # "none"
    BY <2>3
  <2> QED
    BY <2>1, <2>4 DEF Routing!CapabilityError
<1>2. ASSUME NEW p \in RoutingPlatforms PROVE ~Routing!Twice(Routing!Primaries(c, p))
  BY <1>1 DEF Routing!CapabilityError
<1>3. ASSUME NEW n \in DOMAIN c.bindings
      PROVE  /\ c.bindings[n].origin \in v2
             /\ c.bindings[n].kind = "adapter" => c.bindings[n].target = c.engine
  <2>1. Routing!BindingError(c, c.bindings[n]) = "none"
    BY <1>1
  <2> QED
    BY <2>1 DEF Routing!BindingError
<1> QED
  BY <1>2, <1>3

\* What is selected, and from where.
LEMMA SelectedMeans ==
  ASSUME NEW c \in Capability, NEW p \in RoutingPlatforms, Routing!Select(c, p).code = "resolved"
  PROVE  /\ c.status = "managed" /\ Routing!CapabilityError(c) = "none"
         /\ Routing!Select(c, p).id = c.id
         /\ \E n \in Routing!Primaries(c, p) : Routing!Select(c, p).origin = c.bindings[n].origin
<1>1. c.status = "managed"
  BY DEF Routing!Select, Routing!Refused
<1>2. Routing!CapabilityError(c) = "none"
  <2>1. Routing!CapabilityError(c) # "resolved"
    BY DEF Routing!CapabilityError, Routing!BindingError
  <2> QED
    BY <1>1, <2>1 DEF Routing!Select, Routing!Refused
<1>3. Routing!Primaries(c, p) # {}
  BY <1>1, <1>2 DEF Routing!Select, Routing!Refused
<1>4. Routing!Select(c, p) = Routing!Selected(c, Routing!First(Routing!Primaries(c, p)))
  BY <1>1, <1>2, <1>3 DEF Routing!Select
<1>5. Routing!First(Routing!Primaries(c, p)) \in Routing!Primaries(c, p)
  <2>1. Routing!Primaries(c, p) \in SUBSET Nat
    BY CapabilityShape DEF Routing!Primaries, Routing!Serving
  <2> QED
    BY <1>3, <2>1, FirstPlace
<1> QED
  BY <1>1, <1>2, <1>4, <1>5 DEF Routing!Selected

\* An answer is the selection from one capability, or a refusal.
LEMMA ResolvedMeans ==
  ASSUME v1 \in Seq(Capability), NEW intent, NEW p \in RoutingPlatforms,
         Routing!Resolve(intent, p).code = "resolved"
  PROVE  \E i \in DOMAIN v1 : v1[i] \in Capability /\ Routing!Resolve(intent, p) = Routing!Select(v1[i], p)
<1> DEFINE found == Routing!FindByIntent(intent)
<1>1. found # {} /\ ~Routing!Twice(found)
  BY DEF Routing!Resolve, Routing!Refused
<1>2. Routing!Resolve(intent, p) = Routing!Select(v1[Routing!First(found)], p)
  BY <1>1 DEF Routing!Resolve
<1>3. PICK i \in found : TRUE
  BY <1>1
<1> HIDE DEF found
<1>4. Routing!First(found) = i
  BY <1>1, <1>3, OnlyPlace
<1>5. i \in DOMAIN v1
  BY <1>3 DEF found, Routing!FindByIntent
<1>6. v1[i] \in Capability
  BY <1>5
<1> QED
  BY <1>2, <1>4, <1>5, <1>6

LEMMA RouteInit ==
  ASSUME Routing!Init
  PROVE  RouteInv
<1>1. v1 \in RoutingRegistries /\ v3 = Routing!NoRoute /\ v4 = Routing!NoCheck /\ Routed(v3)
  BY DEF Routing!Init, Routing!NoRoute, Routed
<1>2. v1 \in Seq({v1[i] : i \in DOMAIN v1})
  BY <1>1, RoutingAssumption
<1>3. \A i \in DOMAIN v1 : v1[i] \in Capability
  BY <1>1 DEF Capability, Declared
<1>4. v1 \in Seq(Capability)
  BY <1>2, <1>3
<1>5. v3.answer.code # "resolved"
  BY <1>1 DEF Routing!NoRoute, Routing!Refused
<1>6. v4.code # "resolved" /\ ~v4.still
  BY <1>1 DEF Routing!NoCheck
<1> QED
  BY <1>1, <1>4, <1>5, <1>6 DEF RouteInv

\* A maintainer leaves capabilities in the registry.
LEMMA EditLeaves ==
  ASSUME v1 \in Seq(Capability), NEW i \in DOMAIN v1
  PROVE  /\ [v1 EXCEPT ![i].status = "external"] \in Seq(Capability)
         /\ Routing!RemoveAt(v1, i) \in Seq(Capability)
<1>1. v1[i] \in Capability
  OBVIOUS
<1>2. [v1[i] EXCEPT !.status = "external"] \in Capability
  <2>1. CASE v1[i] \in Declared
    BY <2>1 DEF Capability
  <2>2. CASE v1[i] \in {[c EXCEPT !.status = "external"] : c \in Declared}
    <3>1. PICK c \in Declared : v1[i] = [c EXCEPT !.status = "external"]
      BY <2>2
    <3>2. [[c EXCEPT !.status = "external"] EXCEPT !.status = "external"] = [c EXCEPT !.status = "external"]
      OBVIOUS
    <3> QED
      BY <3>1, <3>2 DEF Capability
  <2> QED
    BY <1>1, <2>1, <2>2 DEF Capability
<1>3. [v1 EXCEPT ![i].status = "external"] \in Seq(Capability)
  <2>1. [v1 EXCEPT ![i].status = "external"] = [v1 EXCEPT ![i] = [v1[i] EXCEPT !.status = "external"]]
    OBVIOUS
  <2> QED
    BY <1>2, <2>1
<1>4. Routing!RemoveAt(v1, i) \in Seq(Capability)
  <2>1. SubSeq(v1, 1, i - 1) \in Seq(Capability) /\ SubSeq(v1, i + 1, Len(v1)) \in Seq(Capability)
    OBVIOUS
  <2>2. Routing!RemoveAt(v1, i) = SubSeq(v1, 1, i - 1) \o SubSeq(v1, i + 1, Len(v1))
    BY DEF Routing!RemoveAt
  <2> HIDE DEF Capability
  <2> QED
    BY <2>1, <2>2
<1> QED
  BY <1>3, <1>4

LEMMA CapabilityFields ==
  ASSUME NEW c \in Capability
  PROVE  LET d == [c EXCEPT !.status = "external"]
         IN d.id = c.id /\ d.intents = c.intents /\ d.bindings = c.bindings
<1> SUFFICES {"id", "intents", "bindings"} \subseteq DOMAIN c
  OBVIOUS
<1>1. ASSUME NEW d \in Declared
      PROVE  {"id", "intents", "bindings"} \subseteq DOMAIN d
  <2>1. PICK r \in RoutingRegistries : \E i \in DOMAIN r : d = r[i]
    BY DEF Declared
  <2> QED
    BY <2>1, RoutingAssumption
<1> QED
  BY <1>1 DEF Capability

\* What was chosen still is, if every capability comes from one of its own that
\* differs in its status only.
LEMMA ChosenStays ==
  ASSUME NEW r, NEW s, NEW x, NEW y, StillChosen(r, x),
         x.intent = y.intent, x.platform = y.platform, x.answer = y.answer,
         NEW F \in [DOMAIN s -> DOMAIN r],
         \A i, j \in DOMAIN s : F[i] = F[j] => i = j,
         \A i \in DOMAIN s : /\ s[i].id = r[F[i]].id /\ s[i].intents = r[F[i]].intents
                             /\ s[i].bindings = r[F[i]].bindings
  PROVE  StillChosen(s, y)
<1>1. ASSUME NEW i \in DOMAIN s
      PROVE  /\ Hits(s[i], y) <=> Hits(r[F[i]], x)
             /\ Suits(s[i], y) <=> Suits(r[F[i]], x)
  <2> DEFINE c == s[i]
             d == r[F[i]]
  <2>1. c.id = d.id /\ c.intents = d.intents /\ c.bindings = d.bindings
    OBVIOUS
  <2> HIDE DEF c, d
  <2>2. (Meets(c, y) <=> Meets(d, x)) /\ (Hits(c, y) <=> Hits(d, x))
    BY <2>1 DEF Meets, Hits
  <2>3. /\ Routing!Of(c, y.answer.origin) = Routing!Of(d, x.answer.origin)
        /\ Routing!Primaries(c, y.platform) = Routing!Primaries(d, x.platform)
    BY <2>1 DEF Routing!Of, Routing!Primaries, Routing!Serving
  <2>4. Suits(c, y) <=> Suits(d, x)
    BY <2>1, <2>2, <2>3 DEF Suits
  <2> QED
    BY <2>2, <2>4 DEF c, d
<1>2. y.answer = [code |-> "resolved", id |-> y.answer.id, origin |-> y.answer.origin]
  BY DEF StillChosen
<1>3. \A i \in DOMAIN s : s[i].id = y.answer.id => Suits(s[i], y)
  BY <1>1 DEF StillChosen
<1>4. \A i, j \in DOMAIN s : Hits(s[i], y) /\ Hits(s[j], y) => i = j
  BY <1>1 DEF StillChosen
<1> QED
  BY <1>2, <1>3, <1>4 DEF StillChosen

\* What is left of a list without an entry.
LEMMA Removed ==
  ASSUME NEW S, NEW r \in Seq(S), NEW n \in DOMAIN r
  PROVE  /\ DOMAIN Routing!RemoveAt(r, n) = 1 .. (Len(r) - 1)
         /\ \A i \in 1 .. (Len(r) - 1) : Routing!RemoveAt(r, n)[i] = r[IF i < n THEN i ELSE i + 1]
<1> DEFINE a == SubSeq(r, 1, n - 1)
           b == SubSeq(r, n + 1, Len(r))
<1>0. Routing!RemoveAt(r, n) = a \o b
  BY DEF Routing!RemoveAt
<1>1. Len(r) \in Nat /\ n \in 1 .. Len(r)
  OBVIOUS
<1>2. a \in Seq(S) /\ Len(a) = n - 1 /\ \A i \in 1 .. n - 1 : a[i] = r[i]
  BY <1>1
<1>3. b \in Seq(S) /\ Len(b) = Len(r) - n /\ \A i \in 1 .. Len(r) - n : b[i] = r[i + n]
  BY <1>1
<1> HIDE DEF a, b
<1>4. DOMAIN (a \o b) = 1 .. (Len(r) - 1)
  <2>1. Len(a) + Len(b) = Len(r) - 1
    BY <1>1, <1>2, <1>3
  <2>2. a \o b \in Seq(S) /\ Len(a \o b) = Len(a) + Len(b)
    BY <1>2, <1>3, ConcatProperties, Zenon
  <2>3. DOMAIN (a \o b) = 1 .. Len(a \o b)
    BY <2>2, LenProperties, Zenon
  <2> QED
    BY <2>1, <2>2, <2>3
<1>5. ASSUME NEW i \in 1 .. (Len(r) - 1) PROVE (a \o b)[i] = r[IF i < n THEN i ELSE i + 1]
  <2>1. CASE i < n
    BY <1>1, <1>2, <1>3, <2>1
  <2>2. CASE ~(i < n)
    <3>1. i - Len(a) \in 1 .. Len(b) /\ (a \o b)[i] = b[i - Len(a)]
      BY <1>1, <1>2, <1>3, <2>2
    <3>2. b[i - (n - 1)] = r[i + 1]
      <4>1. i - (n - 1) \in 1 .. Len(r) - n /\ i - (n - 1) + n = i + 1
        BY <1>1, <2>2
      <4> QED
        BY <1>3, <4>1
    <3> QED
      BY <1>1, <1>2, <2>2, <3>1, <3>2
  <2> QED
    BY <2>1, <2>2
<1> QED
  BY <1>0, <1>4, <1>5

\* A step of a maintainer leaves what was chosen as it was.
LEMMA EditChosen ==
  ASSUME v1 \in Seq(Capability), Routing!Edit, StillChosen(v1, v3),
         v3'.intent = v3.intent, v3'.platform = v3.platform, v3'.answer = v3.answer
  PROVE  StillChosen(v1', v3')
<1>1. CASE v1' = v1
  <2> DEFINE F == [i \in DOMAIN v1 |-> i]
  <2>1. F \in [DOMAIN v1' -> DOMAIN v1] /\ \A i \in DOMAIN v1' : F[i] = i
    BY <1>1
  <2> HIDE DEF F
  <2> QED
    BY <1>1, <2>1, ChosenStays
<1>2. ASSUME NEW n \in DOMAIN v1, v1' = [v1 EXCEPT ![n].status = "external"]
      PROVE  StillChosen(v1', v3')
  <2> DEFINE F == [i \in DOMAIN v1 |-> i]
  <2>1. F \in [DOMAIN v1' -> DOMAIN v1] /\ \A i \in DOMAIN v1' : F[i] = i
    BY <1>2
  <2>2. ASSUME NEW i \in DOMAIN v1'
        PROVE  v1'[i].id = v1[i].id /\ v1'[i].intents = v1[i].intents /\ v1'[i].bindings = v1[i].bindings
    <3>1. i \in DOMAIN v1 /\ v1'[i] = IF i = n THEN [v1[i] EXCEPT !.status = "external"] ELSE v1[i]
      BY <1>2
    <3>2. v1[i] \in Capability
      BY <3>1
    <3> QED
      BY <3>1, <3>2, CapabilityFields
  <2> HIDE DEF F
  <2> QED
    BY <2>1, <2>2, ChosenStays
<1>3. ASSUME NEW n \in DOMAIN v1, v1' = Routing!RemoveAt(v1, n)
      PROVE  StillChosen(v1', v3')
  <2> DEFINE F == [i \in DOMAIN v1' |-> IF i < n THEN i ELSE i + 1]
  <2> HIDE DEF Capability
  <2> HIDE DEF F
  <2>1. Len(v1) \in Nat /\ n \in 1 .. Len(v1)
    OBVIOUS
  <2>2. DOMAIN v1' = 1 .. (Len(v1) - 1) /\ \A i \in DOMAIN v1' : v1'[i] = v1[IF i < n THEN i ELSE i + 1]
    BY <1>3, Removed
  <2>3. F \in [DOMAIN v1' -> DOMAIN v1] /\ \A i \in DOMAIN v1' : F[i] = IF i < n THEN i ELSE i + 1
    BY <2>1, <2>2 DEF F
  <2>4. \A i, j \in DOMAIN v1' : F[i] = F[j] => i = j
    BY <2>2, <2>3
  <2> HIDE DEF F
  <2> QED
    BY <2>2, <2>3, <2>4, ChosenStays
<1> QED
  BY <1>1, <1>2, <1>3 DEF Routing!Edit

\* What is selected was chosen, unless it is doubled.
LEMMA ResolveChooses ==
  ASSUME v1 \in Seq(Capability), NEW x, x.platform \in RoutingPlatforms,
         x.answer = Routing!Resolve(x.intent, x.platform),
         x.answer.code = "resolved", ~Routing!Doubled(x.answer)
  PROVE  StillChosen(v1, x)
<1> DEFINE p == x.platform
           a == x.answer
           found == Routing!FindByIntent(x.intent)
<1>1. found # {} /\ ~Routing!Twice(found)
  BY DEF Routing!Resolve, Routing!Refused
<1>2. PICK i \in found : TRUE
  BY <1>1
<1>3. found = {i} /\ Routing!First(found) = i
  <2> HIDE DEF found
  <2> QED
    BY <1>1, <1>2, OnlyPlace
<1>4. i \in DOMAIN v1 /\ v1[i] \in Capability /\ Meets(v1[i], x)
  BY <1>2 DEF Routing!FindByIntent, Meets
<1>5. a = Routing!Select(v1[i], p)
  BY <1>1, <1>3 DEF Routing!Resolve
<1>6. v1[i].status = "managed" /\ Routing!CapabilityError(v1[i]) = "none" /\ a.id = v1[i].id
  BY <1>4, <1>5, SelectedMeans
<1>7. /\ Routing!Primaries(v1[i], p) # {}
      /\ a = Routing!Selected(v1[i], Routing!First(Routing!Primaries(v1[i], p)))
  BY <1>5, <1>6 DEF Routing!Select, Routing!Refused
<1>8. /\ a = [code |-> "resolved", id |-> a.id, origin |-> a.origin]
      /\ a.origin = v1[i].bindings[Routing!First(Routing!Primaries(v1[i], p))].origin
  BY <1>7 DEF Routing!Selected
<1>9. ~Routing!Twice(Routing!Of(v1[i], a.origin)) /\ \A j \in DOMAIN v1 : j # i => v1[j].id # a.id
  BY <1>4, <1>6 DEF Routing!Doubled
<1>10. \A j \in DOMAIN v1 : Hits(v1[j], x) => j = i
  BY <1>3, <1>9 DEF Hits, Meets, Routing!FindByIntent
<1>11. Suits(v1[i], x)
  BY <1>4, <1>7, <1>8, <1>9 DEF Suits
<1> QED
  BY <1>8, <1>9, <1>10, <1>11 DEF StillChosen

\* Of what was chosen, a program starts exactly if it would be selected again.
LEMMA ChosenStarts ==
  ASSUME v1 \in Seq(Capability), NEW x, x.platform \in RoutingPlatforms, StillChosen(v1, x)
  PROVE  (Routing!AssertBinding(x.answer.id, x.answer.origin, x.platform) = "resolved")
           <=> (Routing!Resolve(x.intent, x.platform) = x.answer)
<1> DEFINE p == x.platform
           a == x.answer
           named == {i \in DOMAIN v1 : v1[i].id = a.id}
           again == Routing!Resolve(x.intent, p)
           start == Routing!AssertBinding(a.id, a.origin, p)
<1>1. a = [code |-> "resolved", id |-> a.id, origin |-> a.origin]
  BY DEF StillChosen
<1>2. CASE named = {}
  <2>1. start = "UNKNOWN_CAPABILITY"
    BY <1>2 DEF Routing!AssertBinding
  <2>2. ASSUME again = a PROVE FALSE
    <3>1. PICK i \in DOMAIN v1 : v1[i] \in Capability /\ again = Routing!Select(v1[i], p)
      BY <1>1, <2>2, ResolvedMeans
    <3>2. a.id = v1[i].id
      BY <1>1, <2>2, <3>1, SelectedMeans
    <3> QED
      BY <1>2, <3>2
  <2> QED
    BY <2>1, <2>2
<1>3. ASSUME NEW i \in named PROVE start = "resolved" <=> again = a
  <2> DEFINE c == v1[i]
             n == Routing!First(Routing!Primaries(c, p))
  <2>1. i \in DOMAIN v1 /\ c \in Capability /\ c.id = a.id /\ Suits(c, x)
    BY DEF StillChosen
  <2>2. \A j \in DOMAIN v1 : Hits(v1[j], x) => j = i
    BY <2>1 DEF StillChosen, Hits
  <2>3. named = {i} /\ Routing!FindByIntent(x.intent) = {i}
    BY <2>1, <2>2 DEF Hits, Meets, Suits, Routing!FindByIntent
  <2>4. ~Routing!Twice({i}) /\ Routing!First({i}) = i
    <3>1. ~Routing!Twice({i})
      BY DEF Routing!Twice
    <3> QED
      BY <3>1, OnlyPlace
  <2>5. again = Routing!Select(c, p)
    BY <2>3, <2>4 DEF Routing!Resolve
  <2>6. start = IF c.status # "managed" THEN "UNMANAGED"
                ELSE IF Routing!CapabilityError(c) # "none" THEN "BLOCKED"
                ELSE LET b == c.bindings[Routing!First(Routing!Of(c, a.origin))]
                     IN  IF Routing!Of(c, a.origin) = {} THEN "MISSING_ADAPTER"
                         ELSE IF p \notin b.platforms THEN "UNSUPPORTED_PLATFORM"
                         ELSE IF b.kind = "adapter" /\ b.target # c.engine THEN "ADAPTER_DRIFT" ELSE "resolved"
    BY <2>3, <2>4 DEF Routing!AssertBinding
  <2>7. CASE c.status # "managed" \/ Routing!CapabilityError(c) # "none"
    <3>1. start # "resolved"
      BY <2>6, <2>7
    <3>2. again # a
      BY <1>1, <2>1, <2>5, <2>7, SelectedMeans
    <3> QED
      BY <3>1, <3>2
  <2>8. CASE c.status = "managed" /\ Routing!CapabilityError(c) = "none"
    <3>1. Routing!Primaries(c, p) # {} /\ c.bindings[n].origin = a.origin /\ ~Routing!Twice(Routing!Of(c, a.origin))
      BY <2>1 DEF Suits
    <3>2. again = Routing!Selected(c, n)
      BY <2>5, <2>8, <3>1 DEF Routing!Select
    <3>3. again = a
      BY <1>1, <2>1, <3>1, <3>2 DEF Routing!Selected
    <3>4. n \in Routing!Primaries(c, p)
      <4>1. Routing!Primaries(c, p) \in SUBSET Nat
        BY <2>1, CapabilityShape DEF Routing!Primaries, Routing!Serving
      <4> QED
        BY <3>1, <4>1, FirstPlace
    <3> HIDE DEF n
    <3>5. n \in DOMAIN c.bindings /\ p \in c.bindings[n].platforms /\ n \in Routing!Of(c, a.origin)
      BY <3>1, <3>4 DEF Routing!Primaries, Routing!Serving, Routing!Of
    <3>6. Routing!First(Routing!Of(c, a.origin)) = n /\ Routing!Of(c, a.origin) # {}
      BY <3>1, <3>5, OnlyPlace
    <3>7. c.bindings[n].kind = "adapter" => c.bindings[n].target = c.engine
      BY <2>1, <2>8, <3>5, FaultlessMeans
    <3>8. start = "resolved"
      BY <2>6, <2>8, <3>5, <3>6, <3>7
    <3> QED
      BY <3>3, <3>8
  <2> QED
    BY <2>7, <2>8
<1> QED
  BY <1>2, <1>3

\* What the programs answer depends on the registry and the files.
LEMMA RouteSame ==
  ASSUME UNCHANGED <<v1, v2>>
  PROVE  /\ \A i, p : Routing!Resolve(i, p)' = Routing!Resolve(i, p)
         /\ \A d, o, p : Routing!AssertBinding(d, o, p)' = Routing!AssertBinding(d, o, p)
<1>1. \A c, b : Routing!BindingError(c, b)' = Routing!BindingError(c, b)
  BY DEF Routing!BindingError
<1>2. \A c : Routing!CapabilityError(c)' = Routing!CapabilityError(c)
  BY <1>1 DEF Routing!CapabilityError
<1>3. \A c, p : Routing!Select(c, p)' = Routing!Select(c, p)
  BY <1>2 DEF Routing!Select
<1>4. \A i : Routing!FindByIntent(i)' = Routing!FindByIntent(i)
  BY DEF Routing!FindByIntent
<1>5. \A i, p : Routing!Resolve(i, p)' = Routing!Resolve(i, p)
  BY <1>3, <1>4 DEF Routing!Resolve
<1>6. ASSUME NEW d, NEW o, NEW p PROVE Routing!AssertBinding(d, o, p)' = Routing!AssertBinding(d, o, p)
  <2> DEFINE named == {i \in DOMAIN v1 : v1[i].id = d}
  <2>1. named' = named /\ v1' = v1
    OBVIOUS
  <2>2. Routing!CapabilityError(v1[Routing!First(named)])' = Routing!CapabilityError(v1[Routing!First(named)])
    BY <1>2, <2>1
  <2> QED
    BY <2>1, <2>2 DEF Routing!AssertBinding
<1> QED
  BY <1>5, <1>6

LEMMA RouteStep ==
  ASSUME RouteInv, [Routing!Next]_(Routing!vars)
  PROVE  RouteInv'
<1>1. ASSUME NEW intent, NEW p \in RoutingPlatforms, Routing!Ask(intent, p) PROVE RouteInv'
  <2> DEFINE a == Routing!Resolve(intent, p)
             x == [intent |-> intent, platform |-> p, answer |-> a, moved |-> FALSE, doubled |-> Routing!Doubled(a)]
  <2>1. UNCHANGED <<v1, v2, v4>> /\ v3 = Routing!NoRoute /\ v3' = x
    BY <1>1 DEF Routing!Ask
  <2>2. v4 = Routing!NoCheck
    BY <2>1 DEF RouteInv
  <2>3. Routing!Resolve(intent, p)' = a
    BY <2>1, RouteSame
  <2>4. /\ x.intent = intent /\ x.platform = p /\ x.answer = a /\ x.moved = FALSE
        /\ x.doubled <=> Routing!Doubled(a)
        /\ Routed(x)
    BY DEF Routed
  <2>5. v4.code # "resolved" /\ ~v4.still
    BY <2>2 DEF Routing!NoCheck
  <2> HIDE DEF x
  <2>6. x.answer.code = "resolved" /\ ~x.doubled => StillChosen(v1, x)
    BY <2>4, ResolveChooses DEF RouteInv
  <2> HIDE DEF a
  <2> QED
    BY <2>1, <2>2, <2>3, <2>4, <2>5, <2>6 DEF RouteInv
<1>2. CASE Routing!StartProgram
  <2> DEFINE code == Routing!AssertBinding(v3.answer.id, v3.answer.origin, v3.platform)
             still == Routing!Resolve(v3.intent, v3.platform) = v3.answer
  <2>1. UNCHANGED <<v1, v2, v3>> /\ v3.answer.code = "resolved" /\ v4' = [code |-> code, still |-> still]
    BY <1>2 DEF Routing!StartProgram
  <2>2. v3 # Routing!NoRoute
    BY <2>1 DEF Routing!NoRoute, Routing!Refused
  <2>3. \A i, p : Routing!Resolve(i, p)' = Routing!Resolve(i, p)
    BY <2>1, RouteSame
  <2>4. ~v3.doubled => (code = "resolved" <=> still)
    BY <2>1, <2>2, ChosenStarts DEF RouteInv
  <2>5. v4'.code = code /\ (v4'.still <=> still)
    BY <2>1
  <2> HIDE DEF code, still
  <2>6. ~v3'.doubled => (v4'.code = "resolved" <=> v4'.still)
    BY <2>1, <2>4, <2>5
  <2> QED
    BY <2>1, <2>2, <2>3, <2>6 DEF RouteInv, Routed
<1>3. CASE Routing!Edit
  <2>1. v3' = [v3 EXCEPT !.moved = v3 # Routing!NoRoute] /\ v4' = v4
    BY <1>3 DEF Routing!Edit
  <2>2. v1' \in Seq(Capability)
    BY <1>3, EditLeaves DEF Routing!Edit, RouteInv
  <2>3. v3' = [intent |-> v3.intent, platform |-> v3.platform, answer |-> v3.answer,
               moved |-> (v3 # Routing!NoRoute), doubled |-> v3.doubled]
    BY <2>1 DEF RouteInv, Routed
  <2>4. /\ v3'.intent = v3.intent /\ v3'.platform = v3.platform /\ v3'.answer = v3.answer
        /\ v3'.moved <=> v3 # Routing!NoRoute
        /\ v3'.doubled <=> v3.doubled
        /\ Routed(v3')
    BY <2>3 DEF Routed
  <2>5. v3'.answer.code = "resolved" /\ ~v3'.doubled => StillChosen(v1', v3')
    BY <1>3, <2>4, EditChosen DEF RouteInv
  <2>6. ~v3'.doubled => (v4'.code = "resolved" <=> v4'.still)
    BY <2>1, <2>4 DEF RouteInv
  <2>7. CASE v3 = Routing!NoRoute
    <3>1. v3' = v3
      <4>1. v3.moved = FALSE
        BY <2>7 DEF Routing!NoRoute
      <4> QED
        BY <2>3, <2>7, <4>1 DEF RouteInv, Routed
    <3> QED
      BY <2>1, <2>2, <2>5, <2>6, <2>7, <3>1 DEF RouteInv
  <2>8. CASE v3 # Routing!NoRoute
    <3>1. v3'.moved /\ v3'.platform \in RoutingPlatforms
      BY <2>4, <2>8 DEF RouteInv
    <3>2. v3' # Routing!NoRoute
      BY <3>1 DEF Routing!NoRoute
    <3> QED
      BY <2>2, <2>4, <2>5, <2>6, <3>1, <3>2 DEF RouteInv
  <2> QED
    BY <2>7, <2>8
<1>4. CASE UNCHANGED Routing!vars
  <2>1. UNCHANGED <<v1, v2, v3, v4>>
    BY <1>4 DEF Routing!vars
  <2>2. \A i, p : Routing!Resolve(i, p)' = Routing!Resolve(i, p)
    BY <2>1, RouteSame
  <2> QED
    BY <2>1, <2>2 DEF RouteInv, Routed
<1> QED
  BY <1>1, <1>2, <1>3, <1>4 DEF Routing!Next

LEMMA StartsMeans == RouteInv => Routing!SelectedStarts
  BY DEF RouteInv, Routing!SelectedStarts

LEMMA ResolvesMeans == RouteInv => Routing!ValidResolves
<1> DEFINE intent == v3.intent
           p == v3.platform
           c == CHOOSE x \in Routing!ToSet(v1) : intent \in x.intents
           code == v3.answer.code
           found == Routing!FindByIntent(intent)
<1> SUFFICES ASSUME RouteInv, v3 # Routing!NoRoute, ~v3.moved, Routing!Valid,
                    \E x \in Routing!ToSet(v1) : intent \in x.intents
             PROVE  \/ code = "resolved" /\ v3.answer.id = c.id /\ v3.answer.origin \in v2
                    \/ code = "UNMANAGED" /\ c.status # "managed"
                    \/ code \in {"MISSING_ADAPTER", "UNSUPPORTED_PLATFORM"} /\ Routing!Primaries(c, p) = {}
                    \/ code = "AMBIGUOUS_INTENT" /\ \E x \in Routing!ToSet(v1) : x # c /\ x.id = intent
  BY Zenon DEF Routing!ValidResolves
<1>1. v1 \in Seq(Capability) /\ p \in RoutingPlatforms /\ v3.answer = Routing!Resolve(intent, p)
  BY DEF RouteInv
<1>2. c \in Routing!ToSet(v1) /\ intent \in c.intents
  OBVIOUS
<1> HIDE DEF c, intent, p
<1>3. PICK i \in DOMAIN v1 : c = v1[i]
  BY <1>2 DEF Routing!ToSet
<1>4. c \in Capability /\ Routing!CapabilityError(c) = "none"
  BY <1>1, <1>3 DEF Routing!Valid
<1>5. i \in found
  BY <1>2, <1>3 DEF Routing!FindByIntent
<1>6. CASE Routing!Twice(found)
  <2>1. PICK j \in found : j # i
    BY <1>6 DEF Routing!Twice
  <2>2. j \in DOMAIN v1 /\ (intent = v1[j].id \/ intent \in v1[j].intents)
    BY <2>1 DEF Routing!FindByIntent
  <2>3. v1[i].id # v1[j].id /\ v1[i].intents \cap v1[j].intents = {}
    BY <2>1, <2>2 DEF Routing!Valid
  <2>4. intent = v1[j].id /\ v1[j] # c /\ v1[j] \in Routing!ToSet(v1)
    BY <1>2, <1>3, <2>2, <2>3 DEF Routing!ToSet
  <2>5. code = "AMBIGUOUS_INTENT"
    BY <1>1, <1>5, <1>6 DEF Routing!Resolve, Routing!Refused
  <2> QED
    BY <2>4, <2>5
<1>7. CASE ~Routing!Twice(found)
  <2>1. found # {} /\ Routing!First(found) = i
    <3> HIDE DEF found
    <3> QED
      BY <1>5, <1>7, OnlyPlace
  <2>2. v3.answer = Routing!Select(c, p)
    BY <1>1, <1>3, <1>7, <2>1 DEF Routing!Resolve
  <2>3. CASE c.status # "managed"
    BY <2>2, <2>3 DEF Routing!Select, Routing!Refused
  <2>4. CASE c.status = "managed" /\ Routing!Primaries(c, p) = {}
    BY <1>4, <2>2, <2>4 DEF Routing!Select, Routing!Refused
  <2>5. CASE c.status = "managed" /\ Routing!Primaries(c, p) # {}
    <3>1. Routing!Select(c, p) = Routing!Selected(c, Routing!First(Routing!Primaries(c, p)))
      BY <1>4, <2>5 DEF Routing!Select
    <3>2. code = "resolved"
      BY <2>2, <3>1 DEF Routing!Selected
    <3>3. PICK n \in Routing!Primaries(c, p) : v3.answer.origin = c.bindings[n].origin
      BY <1>1, <1>4, <2>2, <3>2, SelectedMeans
    <3>4. c.bindings[n].origin \in v2
      BY <1>4, <3>3, FaultlessMeans DEF Routing!Primaries, Routing!Serving
    <3>5. v3.answer.id = c.id
      BY <2>2, <3>1 DEF Routing!Selected
    <3> QED
      BY <3>2, <3>3, <3>4, <3>5
  <2> QED
    BY <2>3, <2>4, <2>5
<1> QED
  BY <1>6, <1>7

\* resolve_capability and assert_binding, for any registry and any changes: a
\* program that was selected for an intent starts exactly if it would be selected
\* again, and in a registry that validates an intent leads to the capability that
\* declares it, but in the listed ways.
THEOREM RoutesAreSound ==
  Spec => [](program = "routing" => Routing!SelectedStarts /\ Routing!ValidResolves)
<1> DEFINE Safe == program = "routing" => RouteInv
<1>1. Init => Safe
  BY RouteInit DEF Init
<1>2. ASSUME Safe, [Next]_vars PROVE Safe'
  <2>1. CASE Next
    <3>1. program' = program
      BY <2>1 DEF Next
    <3>2. ASSUME program = "routing" PROVE RouteInv'
      <4>1. RouteInv /\ [Routing!Next]_(Routing!vars)
        BY <1>2, <2>1, <3>2 DEF Next
      <4> QED
        BY <4>1, RouteStep
    <3> QED
      BY <3>1, <3>2
  <2>2. CASE UNCHANGED vars
    <3>1. program' = program /\ UNCHANGED registries
      BY <2>2 DEF vars
    <3>2. ASSUME RouteInv PROVE RouteInv'
      <4>1. UNCHANGED Routing!vars
        BY <3>1 DEF registries, Routing!vars
      <4> QED
        BY <3>2, <4>1, RouteStep
    <3> QED
      BY <1>2, <3>1, <3>2
  <2> QED
    BY <1>2, <2>1, <2>2
<1>3. Safe => (program = "routing" => Routing!SelectedStarts /\ Routing!ValidResolves)
  BY StartsMeans, ResolvesMeans
<1> QED
  BY <1>1, <1>2, <1>3, PTL DEF Spec

-----------------------------------------------------------------------------
(* Redirect URIs.  What Accepted takes is written as Place writes it.      *)

Segment == Seq(UriTokens \ {"/"})
Uri == [scheme : {"https", "http", "HTTPS"}, authority : UriAuthorities, path : Seq(Segment), query : Seq(UriTokens) \cup {Uris!NoQuery}]

UriInv == v1 \in Uri /\ v2 \in Seq(UriOffers)

\* Nothing in an accepted component is to be reduced.
LEMMA NothingReduced ==
  ASSUME NEW s \in Seq(UriTokens), Uris!Component(s)
  PROVE  Uris!Reduced(s) = s
<1>1. ASSUME NEW n \in DOMAIN s
      PROVE  (IF Uris!Byte(s[n]) \in Uris!Unreserved THEN Uris!Byte(s[n]) ELSE Uris!Capital(s[n])) = s[n]
  <2>1. s[n] \in Uris!ToSet(s)
    BY DEF Uris!ToSet
  <2>2. s[n] # "%2e" /\ (Uris!Byte(s[n]) # s[n] => Uris!Byte(s[n]) \notin Uris!Unreserved)
    BY <2>1 DEF Uris!Component, Uris!SmallDigits, Uris!Escape, Uris!NeedsNoEscape
  <2> QED
    BY <2>2 DEF Uris!Capital
<1> QED
  BY <1>1 DEF Uris!Reduced

\* A path without dot segments is left alone.
LEMMA NoDotsLeft ==
  ASSUME NEW path \in Seq(Segment), path # <<>>, \A n \in DOMAIN path : path[n] \notin Uris!Dots
  PROVE  Uris!NoDots(path) = path
<1> DEFINE left == {n \in DOMAIN path : path[n] \notin Uris!Dots /\ ~Uris!TakenOut(path, n)}
           nth(k) == CHOOSE n \in left : Uris!Cardinality({m \in left : m <= n}) = k
<1>0. Len(path) \in Nat /\ Len(path) # 0 /\ DOMAIN path = 1 .. Len(path)
  OBVIOUS
<1>1. \A S : Uris!Cardinality(S) = Cardinality(S)
  BY DEF Cardinality, Uris!Cardinality
<1>2. ASSUME NEW n \in DOMAIN path PROVE ~Uris!TakenOut(path, n)
  <2> SUFFICES ASSUME NEW m \in n + 1 .. Len(path)
               PROVE  ~(Uris!Cardinality({i \in n + 1 .. m : path[i] \notin Uris!Dots})
                         < Uris!Cardinality({i \in n + 1 .. m : path[i] = <<".", ".">>}))
    BY DEF Uris!TakenOut
  <2>1. {i \in n + 1 .. m : path[i] = <<".", ".">>} = {}
    <3>1. <<".", ".">> \in Uris!Dots
      BY DEF Uris!Dots
    <3>2. \A i \in n + 1 .. m : i \in DOMAIN path
      BY <1>0
    <3> QED
      BY <3>1, <3>2
  <2>2. Uris!Cardinality({i \in n + 1 .. m : path[i] = <<".", ".">>}) = 0
    BY <1>1, <2>1, FS_EmptySet
  <2>3. IsFiniteSet({i \in n + 1 .. m : path[i] \notin Uris!Dots})
    <3>1. n + 1 \in Int /\ m \in Int
      BY <1>0
    <3>2. IsFiniteSet(n + 1 .. m)
      BY <3>1, FS_Interval
    <3> QED
      BY <3>2, FS_Subset
  <2>4. Uris!Cardinality({i \in n + 1 .. m : path[i] \notin Uris!Dots}) \in Nat
    BY <1>1, <2>3, FS_CardinalityType
  <2> QED
    BY <2>2, <2>4
<1>3. left = 1 .. Len(path)
  BY <1>0, <1>2
<1>4. ASSUME NEW k \in 1 .. Len(path) PROVE Uris!Cardinality({m \in left : m <= k}) = k
  <2>1. {m \in left : m <= k} = 1 .. k
    BY <1>0, <1>3
  <2>2. k \in Int /\ 1 \in Int /\ ~(1 > k) /\ k - 1 + 1 = k
    BY <1>0
  <2>3. Cardinality(1 .. k) = k
    BY <2>2, FS_Interval
  <2> QED
    BY <1>1, <2>1, <2>3
<1>5. Uris!Cardinality(left) = Len(path)
  <2>1. Len(path) \in Int /\ 1 \in Int /\ ~(1 > Len(path)) /\ Len(path) - 1 + 1 = Len(path)
    BY <1>0
  <2>2. Cardinality(1 .. Len(path)) = Len(path)
    BY <2>1, FS_Interval
  <2> QED
    BY <1>1, <1>3, <2>2
<1> HIDE DEF left
<1>6. ASSUME NEW k \in 1 .. Len(path) PROVE nth(k) = k
  <2>1. \A n \in left : Uris!Cardinality({m \in left : m <= n}) = n
    BY <1>3, <1>4
  <2>2. k \in left /\ Uris!Cardinality({m \in left : m <= k}) = k
    BY <1>3, <1>4
  <2>3. nth(k) \in left /\ Uris!Cardinality({m \in left : m <= nth(k)}) = k
    BY <2>2
  <2> QED
    BY <2>1, <2>3
<1> HIDE DEF nth
<1>7. [k \in 1 .. Uris!Cardinality(left) |-> path[nth(k)]] = path
  BY <1>0, <1>5, <1>6
<1>8. path[Len(path)] \notin Uris!Dots
  BY <1>0
<1>9. Uris!NoDots(path) = IF path[Len(path)] \in Uris!Dots
                         THEN Append([k \in 1 .. Uris!Cardinality(left) |-> path[nth(k)]], <<>>)
                         ELSE [k \in 1 .. Uris!Cardinality(left) |-> path[nth(k)]]
  BY Zenon DEF Uris!NoDots, left, nth
<1> QED
  BY <1>7, <1>8, <1>9

\* A path of accepted components is where it leads to.
LEMMA PathKept ==
  ASSUME NEW path \in Seq(Segment), path # <<>>, Uris!Tidy(path), Uris!Components(path)
  PROVE  /\ Uris!NoDots([n \in DOMAIN path |-> Uris!Reduced(path[n])]) = path
         /\ \A s \in Uris!ToSet(path) : "/" \notin Uris!ToSet(Uris!Decoded(s)) /\ Uris!Decoded(s) \notin Uris!Dots
<1>1. ASSUME NEW s \in Uris!ToSet(path)
      PROVE  /\ s \in Segment /\ s \in Seq(UriTokens) /\ Uris!Component(s)
             /\ "/" \notin Uris!ToSet(Uris!Decoded(s)) /\ Uris!Decoded(s) \notin Uris!Dots
  <2>1. s \in Segment
    BY DEF Uris!ToSet
  <2>2. s \in Seq(UriTokens)
    BY <2>1 DEF Segment
  <2>3. Uris!Component(s) /\ ~Uris!DotSegment(s)
    BY DEF Uris!Components, Uris!Tidy
  <2>4. ASSUME NEW n \in DOMAIN s
        PROVE  /\ s[n] # "/" /\ s[n] \in UriTokens
               /\ Uris!Byte(s[n]) # s[n] => Uris!Byte(s[n]) \notin Uris!Unreserved \cup {"/", " "}
    <3>1. s[n] \in Uris!ToSet(s)
      BY DEF Uris!ToSet
    <3>2. Uris!Escape(s[n]) => Uris!Byte(s[n]) \notin Uris!NeedsNoEscape
      BY <2>3, <3>1 DEF Uris!Component
    <3>3. s[n] \in UriTokens \ {"/"}
      BY <2>1 DEF Segment
    <3> QED
      BY <3>2, <3>3 DEF Uris!Escape, Uris!NeedsNoEscape
  <2>5. "/" \notin Uris!ToSet(Uris!Decoded(s))
    BY <2>4 DEF Uris!ToSet, Uris!Decoded
  <2>6. ASSUME Uris!Decoded(s) \in Uris!Dots PROVE FALSE
    <3>1. \A n \in DOMAIN s : Uris!Byte(s[n]) = "."
      <4>1. ASSUME NEW n \in DOMAIN s PROVE Uris!Byte(s[n]) = Uris!Decoded(s)[n] /\ n \in DOMAIN Uris!Decoded(s)
        BY DEF Uris!Decoded
      <4>2. \A d \in Uris!Dots : \A n \in DOMAIN d : d[n] = "."
        BY DEF Uris!Dots
      <4> QED
        BY <2>6, <4>1, <4>2
    <3>2. \A n \in DOMAIN s : s[n] = "."
      BY <2>4, <3>1 DEF Uris!Unreserved
    <3>3. Uris!Decoded(s) = [n \in DOMAIN s |-> IF s[n] \in {"%2E", "%2e"} THEN "." ELSE s[n]]
      BY <3>1, <3>2 DEF Uris!Decoded
    <3> QED
      BY <2>3, <2>6, <3>3 DEF Uris!DotSegment
  <2> QED
    BY <2>1, <2>2, <2>3, <2>5, <2>6
<1>2. \A n \in DOMAIN path : path[n] \in Uris!ToSet(path)
  BY DEF Uris!ToSet
<1>3. [n \in DOMAIN path |-> Uris!Reduced(path[n])] = path
  BY <1>1, <1>2, NothingReduced
<1>4. ASSUME NEW n \in DOMAIN path PROVE path[n] \notin Uris!Dots
  <2>1. ~Uris!DotSegment(path[n])
    BY <1>2 DEF Uris!Tidy
  <2>2. ASSUME path[n] \in Uris!Dots PROVE FALSE
    <3>1. \A m \in DOMAIN path[n] : path[n][m] = "."
      BY <2>2 DEF Uris!Dots
    <3>2. [m \in DOMAIN path[n] |-> IF path[n][m] \in {"%2E", "%2e"} THEN "." ELSE path[n][m]] = path[n]
      BY <1>1, <1>2, <3>1 DEF Segment
    <3> QED
      BY <2>1, <2>2, <3>2 DEF Uris!DotSegment
  <2> QED
    BY <2>2
<1> QED
  BY <1>1, <1>3, <1>4, NoDotsLeft

\* An accepted URI is, in its normal form, written as its place.
LEMMA AcceptedMeans ==
  ASSUME NEW u \in Uri, NEW a, Uris!Accepted(u, a)
  PROVE  LET n == Uris!Normal(u) IN
         /\ Uris!Parts(n) = Uris!Place(u)
         /\ Uris!Accepted(n, a) /\ Uris!Normal(n) = n
         /\ \A s \in Uris!ToSet(n.path) : "/" \notin Uris!ToSet(Uris!Decoded(s)) /\ Uris!Decoded(s) \notin Uris!Dots
<1> DEFINE n == Uris!Normal(u)
           path == IF u.path = <<>> THEN Uris!Root ELSE u.path
<1>1. /\ n \in Uri /\ n.path = path /\ path \in Seq(Segment) /\ path # <<>>
      /\ n.scheme = u.scheme /\ n.authority = u.authority /\ n.query = u.query
  <2>1. Uris!Root \in Seq(Segment) /\ Uris!Root # <<>>
    BY DEF Uris!Root, Segment
  <2> QED
    BY <2>1 DEF Uris!Normal, Uri
<1>2. /\ u.scheme \in {"https", "http"} /\ Uris!Host(u)
      /\ Uris!Tidy(path) /\ Uris!Components(path)
      /\ u.query # Uris!NoQuery => Uris!Component(u.query)
  BY <1>1 DEF Uris!Accepted
<1>3. Uris!NoDots([m \in DOMAIN path |-> Uris!Reduced(path[m])]) = path
  BY <1>1, <1>2, PathKept
<1>4. \A s \in Uris!ToSet(n.path) : "/" \notin Uris!ToSet(Uris!Decoded(s)) /\ Uris!Decoded(s) \notin Uris!Dots
  BY <1>1, <1>2, PathKept
<1>5. Uris!Normal(n) = n
  BY <1>1 DEF Uris!Normal, Uri
<1>6. Uris!Default(n) <=> Uris!Default(u)
  BY <1>1 DEF Uris!Default
<1>7. Uris!Host(n) <=> Uris!Host(u)
  BY <1>1, <1>6 DEF Uris!Host
<1> HIDE DEF n, path
<1>8. Uris!Accepted(n, a)
  BY <1>1, <1>5, <1>7 DEF Uris!Accepted, n
<1>9. (IF u.query = Uris!NoQuery THEN Uris!NoQuery ELSE Uris!Reduced(u.query)) = u.query
  BY <1>2, NothingReduced DEF Uri
<1>10. Uris!Parts(n) = Uris!Place(u)
  <2>1. u.authority.host = u.authority.canon /\ ~Uris!Default(u)
    BY <1>2 DEF Uris!Host
  <2>2. Uris!Place(u) = [scheme |-> u.scheme, host |-> u.authority.canon, port |-> u.authority.port,
                         path |-> path, query |-> u.query]
    BY <1>2, <1>3, <1>9, <2>1 DEF Uris!Place, path
  <2> QED
    BY <1>1, <2>1, <2>2 DEF Uris!Parts
<1> QED
  BY <1>4, <1>5, <1>8, <1>10 DEF n

LEMMA NormalMeans == UriInv => Uris!NormalFormSound
<1> SUFFICES ASSUME UriInv PROVE Uris!NormalFormSound
  OBVIOUS
<1>1. Uris!Accepted(v1, v3) =>
        LET n == Uris!Normal(v1) IN
        /\ Uris!Parts(n) = Uris!Place(v1)
        /\ Uris!Accepted(n, v3) /\ Uris!Normal(n) = n
        /\ \A s \in Uris!ToSet(n.path) : "/" \notin Uris!ToSet(Uris!Decoded(s)) /\ Uris!Decoded(s) \notin Uris!Dots
  BY AcceptedMeans DEF UriInv
<1>2. Uris!Resource(v1) => Uris!Accepted(v1, FALSE) /\ Uris!Normal(v1) = v1
  <2> SUFFICES ASSUME Uris!Resource(v1) PROVE Uris!Accepted(v1, FALSE) /\ Uris!Normal(v1) = v1
    OBVIOUS
  <2>1. v1.path # <<>>
    BY DEF Uris!Resource
  <2>2. Uris!Normal(v1) = v1
    BY <2>1 DEF Uris!Normal, UriInv, Uri
  <2> QED
    BY <2>2 DEF Uris!Resource, Uris!Accepted
<1>3. ASSUME Uris!Registered(v2) # {}, NEW u \in Uris!ToSet(v2), NEW w \in Uris!ToSet(v2), Uris!Place(u) = Uris!Place(w)
      PROVE  u = w
  <2>1. u \in Uri /\ w \in Uri
    BY UriAssumption DEF UriInv, Uris!ToSet, Uri, Segment
  <2>2. Uris!Accepted(u, v3) /\ Uris!Accepted(w, v3) /\ (Uris!Normal(u) = Uris!Normal(w) => u = w)
    BY <1>3 DEF Uris!Registered
  <2> DEFINE m == Uris!Normal(u)
             n == Uris!Normal(w)
  <2>3. Uris!Parts(m) = Uris!Parts(n)
    BY <1>3, <2>1, <2>2, AcceptedMeans
  <2>4. m \in Uri /\ n \in Uri
    <3>1. Uris!Root \in Seq(Segment)
      BY DEF Uris!Root, Segment
    <3> QED
      BY <2>1, <3>1 DEF Uris!Normal, Uri
  <2> HIDE DEF m, n
  <2>5. /\ m.scheme = n.scheme /\ m.path = n.path /\ m.query = n.query
        /\ m.authority.host = n.authority.host /\ m.authority.port = n.authority.port
    <3> DEFINE p == Uris!Parts(m)
               q == Uris!Parts(n)
    <3>1. p.scheme = q.scheme /\ p.host = q.host /\ p.port = q.port /\ p.path = q.path /\ p.query = q.query
      BY <2>3
    <3> QED
      BY <3>1 DEF Uris!Parts
  <2>6. m.authority = n.authority
    BY <2>4, <2>5, UriAssumption DEF Uri
  <2>7. m = n
    BY <2>4, <2>5, <2>6 DEF Uri
  <2> QED
    BY <2>2, <2>7 DEF m, n
<1> QED
  BY <1>1, <1>2, <1>3 DEF Uris!NormalFormSound

LEMMA UriInit == Uris!Init => UriInv
<1>1. <<>> \in Seq(Segment) /\ <<>> \in Seq(UriOffers)
  OBVIOUS
<1> QED
  BY <1>1 DEF Uris!Init, UriInv, Uri

LEMMA UriStep == UriInv /\ [Uris!Next]_(Uris!vars) => UriInv'
<1> SUFFICES ASSUME UriInv, [Uris!Next]_(Uris!vars) PROVE UriInv'
  OBVIOUS
<1>1. ASSUME NEW t \in UriTokens, Uris!WritePath(t) \/ Uris!WriteQuery(t), v2' = v2 PROVE UriInv'
  <2>1. t \in UriTokens /\ v2' = v2
    BY <1>1
  <2>2. CASE Uris!WritePath(t)
    <3>0. CASE t = "/" /\ v1' = [v1 EXCEPT !.path = Append(v1.path, <<>>)]
      <4>1. <<>> \in Segment /\ v1.path \in Seq(Segment)
        BY DEF Segment, UriInv, Uri
      <4>2. Append(v1.path, <<>>) \in Seq(Segment)
        BY <4>1
      <4> QED
        BY <2>1, <3>0, <4>2 DEF UriInv, Uri
    <3>1. CASE t # "/" /\ v1.path # <<>> /\ v1' = [v1 EXCEPT !.path[Len(v1.path)] = Append(v1.path[Len(v1.path)], t)]
      <4> DEFINE longer == [v1.path EXCEPT ![Len(v1.path)] = Append(v1.path[Len(v1.path)], t)]
      <4>1. v1.path \in Seq(Segment)
        BY DEF UriInv, Uri
      <4>2. Len(v1.path) \in 1 .. Len(v1.path) /\ v1.path[Len(v1.path)] \in Segment
        BY <3>1, <4>1
      <4>3. Append(v1.path[Len(v1.path)], t) \in Segment
        BY <2>1, <3>1, <4>2 DEF Segment
      <4>4. longer \in Seq(Segment)
        BY <4>1, <4>2, <4>3, ExceptSeq
      <4>5. v1' = [v1 EXCEPT !.path = longer]
        BY <3>1
      <4> HIDE DEF longer
      <4> QED
        BY <2>1, <4>4, <4>5 DEF UriInv, Uri
    <3> QED
      BY <2>2, <3>0, <3>1 DEF Uris!WritePath
  <2>3. CASE Uris!WriteQuery(t)
    <3>1. PICK q \in Seq(UriTokens) : v1' = [v1 EXCEPT !.query = q]
      <4>1. v1.query # Uris!NoQuery => Append(v1.query, t) \in Seq(UriTokens)
        BY <2>1 DEF UriInv, Uri
      <4>2. <<>> \in Seq(UriTokens)
        OBVIOUS
      <4> QED
        BY <2>3, <4>1, <4>2 DEF Uris!WriteQuery
    <3> QED
      BY <2>1, <3>1 DEF UriInv, Uri
  <2> QED
    BY <1>1, <2>2, <2>3
<1>2. ASSUME NEW u \in UriOffers, Uris!Offer(u) PROVE UriInv'
  BY <1>2 DEF Uris!Offer, UriInv
<1>3. CASE UNCHANGED Uris!vars
  BY <1>3 DEF UriInv, Uris!vars
<1> QED
  BY <1>1, <1>2, <1>3 DEF Uris!Next, Uris!Write

\* normalize_uri, canonical_ppa_resource_uri and normalize_redirects, for any hosts,
\* signs and lists: what is accepted has one normal form, which RFC 3986 has for
\* the place that it leads to.
THEOREM UrisAreSound ==
  Spec => [](program = "uris" => Uris!NormalFormSound)
<1> DEFINE Safe == program = "uris" => UriInv
<1>1. Init => Safe
  BY UriInit DEF Init
<1>2. ASSUME Safe, [Next]_vars PROVE Safe'
  <2>1. CASE Next
    <3>1. program' = program
      BY <2>1 DEF Next
    <3>2. ASSUME program = "uris" PROVE UriInv'
      <4>1. UriInv /\ [Uris!Next]_(Uris!vars)
        BY <1>2, <2>1, <3>2 DEF Next
      <4> QED
        BY <4>1, UriStep
    <3> QED
      BY <3>1, <3>2
  <2>2. CASE UNCHANGED vars
    <3>1. program' = program /\ UNCHANGED registries
      BY <2>2 DEF vars
    <3>2. ASSUME UriInv PROVE UriInv'
      <4>1. UNCHANGED Uris!vars
        BY <3>1 DEF registries, Uris!vars
      <4> QED
        BY <3>2, <4>1, UriStep
    <3> QED
      BY <1>2, <3>1, <3>2
  <2> QED
    BY <1>2, <2>1, <2>2
<1>3. Safe => (program = "uris" => Uris!NormalFormSound)
  BY NormalMeans
<1> QED
  BY <1>1, <1>2, <1>3, PTL DEF Spec

\* The registries, the locks, the schemas and the redirect URIs, for any of them:
\* what is chosen by them is what they say.
THEOREM RegistriesAreSound == Spec => []RegistriesSound
<1>1. ASSUME program = "routing" => Routing!SelectedStarts /\ Routing!ValidResolves,
             program = "lock" => Lock!SelectionSound /\ Lock!BindingsSound /\ Lock!NothingElseRefused,
             program = "schemas" => Schemas!LoadExact,
             program = "uris" => Uris!NormalFormSound
      PROVE  RegistriesSound
  BY <1>1 DEF RegistriesSound
<1> QED
  BY <1>1, RoutesAreSound, LocksAreSound, SchemasAreExact, UrisAreSound, PTL
=============================================================================
