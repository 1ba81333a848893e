-------------------------- MODULE HomeFragmentProofs --------------------------
(***************************************************************************)
(* The record page under its life cycle: what holds for every clock, every *)
(* depth of the back stack and every threshold.                            *)
(*                                                                         *)
(* The inductive invariant says what the fields of one page have to do     *)
(* with each other, in its object or in its bundle, and which pages of the *)
(* back stack were left.                                                   *)
(***************************************************************************)
EXTENDS HomeFragment, TLAPS, SequenceTheorems

PageType ==
  [home : BOOLEAN, view : BOOLEAN, checked : BOOLEAN, base : Int,
   in : Int \cup {Null}, checkIn : Int, stopOffset : Int,
   inherited : BOOLEAN, WasRunning : BOOLEAN, saved : Bundles \cup {Null},
   pressed : Int, left : BOOLEAN]

PopupType == [page : Int, diff : Int, studied : Int, left : BOOLEAN]

TypeOK ==
  /\ now \in Nat
  /\ pages \in Seq(PageType)
  /\ popups \in SUBSET PopupType
  /\ crashed \in BOOLEAN

\* An object and its bundle agree: only a record page runs or has a bundle, a page
\* with a view has none, a running page counts from its check-in in either, and no
\* object remembers being restored running once its button was shown.
FieldsOK(f) ==
  /\ f.checked => f.home
  /\ ~f.home \/ f.view => f.saved = Null
  /\ f.saved = Null =>
       /\ f.checked => f.in = f.checkIn /\ f.base = f.checkIn
       /\ f.inherited => ~f.WasRunning
  /\ f.saved # Null =>
       /\ f.saved.running = f.checked
       /\ f.checked => f.saved.clock = f.saved.checkIn

\* A running page never counts from before START, and from START exactly while the
\* user has not opened another page.
CreditOK(f, t) ==
  /\ f.pressed <= t
  /\ f.checked => f.pressed <= CheckIn(f)
  /\ f.checked /\ ~f.left => CheckIn(f) = f.pressed

\* The visible page has been shown, and only it may never have been left.
StackOK(ps) ==
  /\ \A i \in 1 .. Len(ps) - 1 : ps[i].left
  /\ ps # <<>> => ps[Len(ps)].saved = Null

PopupOK(p) == p.diff <= p.studied /\ (~p.left => p.diff = p.studied)

PagesOK(ps, t) == \A i \in 1 .. Len(ps) : FieldsOK(ps[i]) /\ CreditOK(ps[i], t)

IInv ==
  /\ TypeOK
  /\ PagesOK(pages, now)
  /\ StackOK(pages)
  /\ \A p \in popups : PopupOK(p)

-----------------------------------------------------------------------------
(* One page.                                                               *)

\* The fields no callback changes: the user does.
Alike(f, g) ==
  /\ g.home = f.home /\ g.checked = f.checked
  /\ g.pressed = f.pressed /\ g.left = f.left

LEMMA NewPageOK ==
  ASSUME NEW home \in BOOLEAN
  PROVE  /\ NewPage(home) \in PageType
         /\ NewPage(home).home = home /\ ~NewPage(home).checked
         /\ ~NewPage(home).left /\ ~NewPage(home).inherited
         /\ NewPage(home).saved = Null /\ NewPage(home).pressed = 0
BY DEF NewPage, PageType

\* START, or a restored button that is checked again.
LEMMA CheckedOK ==
  ASSUME NEW f \in PageType, now \in Int
  PROVE  /\ Checked(f) \in PageType
         /\ Checked(f).checked /\ ~Checked(f).inherited
         /\ Checked(f).home = f.home /\ Checked(f).view = f.view
         /\ Checked(f).WasRunning = f.WasRunning /\ Checked(f).saved = f.saved
         /\ Checked(f).pressed = f.pressed /\ Checked(f).left = f.left
         /\ IF f.inherited /\ f.WasRunning
              THEN Checked(f).in = f.in /\ Checked(f).base = f.base
                   /\ Checked(f).checkIn = f.checkIn
              ELSE Checked(f).in = now /\ Checked(f).base = now
                   /\ Checked(f).checkIn = now
BY DEF Checked, PageType

\* What Show does to a record page, in the three cases the code tells apart: a
\* page with a bundle takes the check-in of the bundle, a running page without one
\* starts anew.
LEMMA ShowOK ==
  ASSUME NEW f \in PageType, now \in Int, FieldsOK(f), f.home
  PROVE  /\ Show(f) \in PageType
         /\ FieldsOK(Show(f)) /\ Show(f).saved = Null
         /\ Alike(f, Show(f))
         /\ f.saved # Null => Show(f).checkIn = f.saved.checkIn
         /\ f.saved = Null /\ f.checked => Show(f).checkIn = now
<1> DEFINE c == CreateView(f)
           g == ActivityCreated(c)
<1>1. /\ c \in PageType /\ c.view /\ c.base = now
      /\ Alike(f, c) /\ c.saved = f.saved
      /\ c.inherited = f.inherited /\ c.WasRunning = f.WasRunning
  BY DEF CreateView, PageType, Alike
<1>2. ASSUME f.saved = Null
      PROVE  g = c
  BY <1>1, <1>2 DEF ActivityCreated
<1>3. ASSUME f.saved # Null
      PROVE  /\ g \in PageType /\ g.inherited
             /\ f.checked => g.WasRunning
             /\ ~f.checked => ~g.WasRunning
             /\ g.checkIn = f.saved.checkIn /\ g.saved = Null
             /\ f.checked => g.base = f.saved.checkIn /\ g.in = f.saved.checkIn
             /\ Alike(f, g)
  <2>1. f.saved \in Bundles /\ c.saved = f.saved
    BY <1>1, <1>3 DEF PageType
  <2>2. f.saved.running = f.checked /\ (f.checked => f.saved.clock = f.saved.checkIn)
    BY <1>3 DEF FieldsOK
  <2>. HIDE DEF c
  <2>3. CASE f.saved.running
    <3> DEFINE h == [c EXCEPT !.inherited = TRUE, !.WasRunning = c.saved.running,
                              !.stopOffset = c.saved.offset,
                              !.checkIn = c.saved.checkIn, !.saved = Null]
    <3>1. /\ h \in PageType /\ h.inherited /\ h.WasRunning
          /\ h.checkIn = f.saved.checkIn /\ h.saved = Null
          /\ Alike(f, h)
      BY <1>1, <2>1, <2>3 DEF PageType, Bundles, Alike
    <3>2. g = [h EXCEPT !.base = c.saved.clock, !.in = c.saved.checkIn]
      BY <1>3, <2>1, <2>3 DEF ActivityCreated
    <3>. HIDE DEF h, g
    <3>3. c.saved.clock \in Int /\ c.saved.checkIn \in Int
      BY <2>1 DEF Bundles
    <3>4. /\ g \in PageType /\ g.inherited /\ g.WasRunning
          /\ g.checkIn = f.saved.checkIn /\ g.saved = Null
          /\ g.base = c.saved.clock /\ g.in = c.saved.checkIn
          /\ Alike(f, g)
      BY <3>1, <3>2, <3>3 DEF PageType, Alike
    <3>5. f.checked /\ f.saved.clock = f.saved.checkIn
      BY <2>2, <2>3
    <3> QED BY <2>1, <3>4, <3>5
  <2>4. CASE ~f.saved.running
    <3> DEFINE h == [c EXCEPT !.inherited = TRUE, !.WasRunning = c.saved.running,
                              !.stopOffset = c.saved.offset,
                              !.checkIn = c.saved.checkIn, !.saved = Null]
    <3>1. /\ h \in PageType /\ h.inherited /\ ~h.WasRunning
          /\ h.checkIn = f.saved.checkIn /\ h.saved = Null
          /\ Alike(f, h)
      BY <1>1, <2>1, <2>4 DEF PageType, Bundles, Alike
    <3>2. g = [h EXCEPT !.base = now - c.saved.offset]
      BY <1>3, <2>1, <2>4 DEF ActivityCreated
    <3>. HIDE DEF c, h, g
    <3>3. now - c.saved.offset \in Int
      BY <2>1 DEF Bundles
    <3>4. /\ g \in PageType /\ g.inherited /\ ~g.WasRunning
          /\ g.checkIn = f.saved.checkIn /\ g.saved = Null
          /\ Alike(f, g)
      BY <3>1, <3>2, <3>3 DEF PageType, Alike
    <3> QED BY <2>2, <2>4, <3>4
  <2> QED BY <2>3, <2>4
<1>4. g \in PageType /\ g.home /\ Alike(f, g) /\ g.saved = Null
  BY <1>1, <1>2, <1>3 DEF Alike
<1>5. Show(f) = IF g.checked THEN Checked(g) ELSE g
  BY <1>4 DEF Show, Alike
<1>. HIDE DEF g
<1>6. CASE ~f.checked
  <2>1. Show(f) = g
    BY <1>4, <1>5, <1>6 DEF Alike
  <2>2. g.inherited => ~g.WasRunning
    BY <1>1, <1>2, <1>3, <1>6 DEF FieldsOK
  <2> QED BY <1>3, <1>4, <1>6, <2>1, <2>2 DEF FieldsOK, Alike
<1>7. CASE f.checked
  <2>1. Show(f) = Checked(g)
    BY <1>4, <1>5, <1>7 DEF Alike
  <2>8. Alike(f, Show(f)) /\ Show(f).saved = Null /\ ~Show(f).inherited
        /\ Show(f).home /\ Show(f).checked
    BY <1>4, <1>7, <2>1, CheckedOK DEF Alike
  <2>2. CASE f.saved = Null
    <3>1. ~(g.inherited /\ g.WasRunning)
      BY <1>1, <1>2, <2>2 DEF FieldsOK
    <3>2. /\ Show(f) \in PageType
          /\ Show(f).in = now /\ Show(f).base = now /\ Show(f).checkIn = now
      BY <1>4, <2>1, <3>1, CheckedOK
    <3> QED BY <2>8, <2>2, <3>2 DEF FieldsOK, Alike
  <2>3. CASE f.saved # Null
    <3>1. /\ g.inherited /\ g.WasRunning
          /\ g.in = f.saved.checkIn /\ g.base = f.saved.checkIn
          /\ g.checkIn = f.saved.checkIn
      BY <1>3, <1>7, <2>3
    <3>2. /\ Show(f) \in PageType
          /\ Show(f).in = g.in /\ Show(f).base = g.base
          /\ Show(f).checkIn = g.checkIn
      BY <1>4, <2>1, <3>1, CheckedOK
    <3> QED BY <2>8, <2>3, <3>1, <3>2 DEF FieldsOK, Alike
  <2> QED BY <2>2, <2>3
<1> QED BY <1>6, <1>7

LEMMA ShowOther ==
  ASSUME NEW f, ~f.home
  PROVE  Show(f) = f
BY DEF Show

\* What onSaveInstanceState saves is what the page showed.
LEMMA RecreatedOK ==
  ASSUME NEW f \in PageType, FieldsOK(f), f.home => f.saved = Null
  PROVE  /\ Recreated(f) \in PageType /\ FieldsOK(Recreated(f))
         /\ Alike(f, Recreated(f))
         /\ CheckIn(f) = f.checkIn
         /\ f.home => /\ Recreated(f).saved # Null
                      /\ CheckIn(Recreated(f)) = f.checkIn
         /\ ~f.home => Recreated(f).saved = Null
<1> DEFINE b == SaveInstanceState(f)
<1>1. b \in Bundles /\ b # Null /\ b.running = f.checked
      /\ b.clock = f.base /\ b.checkIn = f.checkIn
  BY ConstantsOK DEF SaveInstanceState, Bundles, PageType
<1>. HIDE DEF b
<1>2. /\ Recreated(f) \in PageType
      /\ Alike(f, Recreated(f))
      /\ ~Recreated(f).view /\ ~Recreated(f).inherited
      /\ Recreated(f).saved = IF f.home THEN b ELSE Null
  <2> DEFINE s == IF f.home THEN b ELSE Null
             n == NewPage(f.home)
  <2>1. n \in PageType /\ n.home = f.home /\ ~n.view /\ ~n.inherited
    BY DEF NewPage, PageType
  <2>2. s \in Bundles \cup {Null}
    BY <1>1
  <2>3. Recreated(f) = [n EXCEPT !.checked = f.checked, !.pressed = f.pressed,
                                 !.left = f.left, !.saved = s]
    BY DEF Recreated, b
  <2>. HIDE DEF s, n
  <2>4. /\ Recreated(f) \in PageType /\ Alike(f, Recreated(f))
        /\ ~Recreated(f).view /\ ~Recreated(f).inherited
        /\ Recreated(f).saved = s
    BY <2>1, <2>2, <2>3 DEF PageType, Alike
  <2> QED BY <2>4 DEF s
<1> QED BY <1>1, <1>2 DEF FieldsOK, CheckIn, Alike

-----------------------------------------------------------------------------
(* The back stack.                                                         *)

LEMMA LastType ==
  ASSUME NEW ps \in Seq(PageType), ps # <<>>
  PROVE  Last(ps) = ps[Len(ps)] /\ Last(ps) \in PageType /\ Len(ps) \in Nat \ {0}
BY EmptySeq, LenProperties DEF Last

LEMMA FrontType ==
  ASSUME NEW ps \in Seq(PageType), ps # <<>>
  PROVE  /\ Front(ps) \in Seq(PageType) /\ Len(Front(ps)) = Len(ps) - 1
         /\ \A i \in 1 .. Len(ps) - 1 : Front(ps)[i] = ps[i]
<1> DEFINE n == Len(ps) - 1
<1>1. n \in Nat /\ n <= Len(ps) /\ Len(ps) \in Nat
  BY LastType
<1>2. Front(ps) = [i \in 1 .. n |-> ps[i]]
  BY <1>1 DEF Front
<1>3. \A i \in 1 .. n : ps[i] \in PageType
  BY <1>1, ElementOfSeq
<1>. HIDE DEF n
<1>4. [i \in 1 .. n |-> ps[i]] \in Seq(PageType)
  BY <1>1, <1>3
<1> QED BY <1>1, <1>2, <1>4 DEF n

LEMMA LastOrBefore ==
  ASSUME NEW n \in Nat
  PROVE  \A i \in 1 .. n : i \in 1 .. n - 1 \/ i = n
OBVIOUS

LEMMA ReplaceLast ==
  ASSUME NEW ps \in Seq(PageType), ps # <<>>, NEW f \in PageType
  PROVE  LET qs == Front(ps) \o <<f>> IN
         /\ qs \in Seq(PageType) /\ Len(qs) = Len(ps)
         /\ \A i \in 1 .. Len(ps) - 1 : qs[i] = ps[i]
         /\ qs[Len(ps)] = f
BY FrontType, LastType

\* Only the last page of a stack is shown.
LEMMA ShowLastIs ==
  ASSUME NEW ps \in Seq(PageType), ps # <<>>, Show(ps[Len(ps)]) \in PageType
  PROVE  /\ ShowLast(ps) \in Seq(PageType) /\ Len(ShowLast(ps)) = Len(ps)
         /\ \A i \in 1 .. Len(ps) - 1 : ShowLast(ps)[i] = ps[i]
         /\ ShowLast(ps)[Len(ps)] = Show(ps[Len(ps)])
BY ReplaceLast, LastType DEF ShowLast

LEMMA ShowAny ==
  ASSUME NEW f \in PageType, now \in Int, FieldsOK(f)
  PROVE  /\ Show(f) \in PageType /\ FieldsOK(Show(f)) /\ Alike(f, Show(f))
         /\ Show(f).saved = Null
         /\ f.saved # Null => Show(f).checkIn = f.saved.checkIn
         /\ f.checked => f.home
         /\ f.saved = Null /\ f.checked => Show(f).checkIn = now
<1>1. CASE f.home
  BY <1>1, ShowOK
<1>2. CASE ~f.home
  BY <1>2, ShowOther DEF FieldsOK, Alike
<1> QED BY <1>1, <1>2

\* Showing the last page keeps every page in order, unless it is a running page
\* that was never left and has no bundle.
LEMMA ShowLastOK ==
  ASSUME NEW ps \in Seq(PageType), now \in Int, PagesOK(ps, now),
         \A i \in 1 .. Len(ps) - 1 : ps[i].left,
         ps # <<>> => \/ ps[Len(ps)].saved # Null
                      \/ ~ps[Len(ps)].checked \/ ps[Len(ps)].left
  PROVE  /\ ShowLast(ps) \in Seq(PageType) /\ Len(ShowLast(ps)) = Len(ps)
         /\ PagesOK(ShowLast(ps), now) /\ StackOK(ShowLast(ps))
<1>1. CASE ps = <<>>
  BY <1>1 DEF ShowLast, PagesOK, StackOK
<1>2. CASE ps # <<>>
  <2> DEFINE n == Len(ps)
             f == ps[Len(ps)]
             qs == ShowLast(ps)
  <2>1. n \in Nat \ {0} /\ f \in PageType /\ FieldsOK(f) /\ CreditOK(f, now)
    BY <1>2, LastType DEF PagesOK
  <2>2. /\ Show(f) \in PageType /\ FieldsOK(Show(f)) /\ Alike(f, Show(f))
        /\ Show(f).saved = Null
        /\ f.saved # Null => Show(f).checkIn = f.saved.checkIn
        /\ f.saved = Null /\ f.checked => Show(f).checkIn = now
    BY <2>1, ShowAny
  <2>3. CreditOK(Show(f), now)
    BY <1>2, <2>1, <2>2 DEF CreditOK, CheckIn, Alike, PageType
  <2>4. /\ qs \in Seq(PageType) /\ Len(qs) = n
        /\ \A i \in 1 .. n - 1 : qs[i] = ps[i]
        /\ qs[n] = Show(f)
    BY <1>2, <2>2, ShowLastIs
  <2>. HIDE DEF n, f, qs
  <2>5. \A i \in 1 .. n : i \in 1 .. n - 1 \/ i = n
    BY <2>1
  <2>6. \A i \in 1 .. n - 1 : i \in 1 .. n
    BY <2>1
  <2>7. PagesOK(qs, now)
    BY <2>2, <2>3, <2>4, <2>5, <2>6 DEF PagesOK, n
  <2>8. StackOK(qs)
    BY <2>2, <2>4 DEF StackOK, n
  <2> QED BY <2>4, <2>7, <2>8 DEF qs, n
<1> QED BY <1>1, <1>2

LEMMA NewStackOK ==
  ASSUME now \in Nat
  PROVE  LET ps == ShowLast(<<NewPage(TRUE)>>) IN
         /\ ps \in Seq(PageType) /\ PagesOK(ps, now) /\ StackOK(ps)
         /\ Len(ps) = 1 /\ ~ps[1].checked
<1> DEFINE f == NewPage(TRUE)
           q == <<f>>
<1>1. /\ f \in PageType /\ f.home /\ ~f.checked /\ ~f.inherited
      /\ f.saved = Null /\ f.pressed = 0
  BY NewPageOK
<1>2. FieldsOK(f) /\ CreditOK(f, now)
  <2>. HIDE DEF f
  <2> QED BY <1>1 DEF FieldsOK, CreditOK
<1>. HIDE DEF f
<1>3. q \in Seq(PageType) /\ Len(q) = 1 /\ q[1] = f /\ q # <<>>
  BY <1>1
<1>. HIDE DEF q
<1>4. PagesOK(q, now)
  BY <1>2, <1>3 DEF PagesOK
<1>5. Show(f) \in PageType /\ Alike(f, Show(f))
  BY <1>1, <1>2, ShowAny
<1>6. ShowLast(q)[1] = Show(f)
  BY <1>3, <1>5, ShowLastIs
<1>7. /\ ShowLast(q) \in Seq(PageType) /\ Len(ShowLast(q)) = 1
      /\ PagesOK(ShowLast(q), now) /\ StackOK(ShowLast(q))
  <2>1. \A i \in 1 .. Len(q) - 1 : q[i].left
    BY <1>3
  <2>2. ~q[Len(q)].checked /\ now \in Int
    BY <1>1, <1>3
  <2>. HIDE DEF PagesOK, StackOK
  <2> QED BY <1>3, <1>4, <2>1, <2>2, ShowLastOK
<1> QED BY <1>1, <1>5, <1>6, <1>7 DEF Alike, q, f

-----------------------------------------------------------------------------
(* The invariant.                                                          *)

LEMMA VisibleOK ==
  ASSUME TypeOK, PagesOK(pages, now), StackOK(pages), Visible.home
  PROVE  /\ pages # <<>> /\ Visible = pages[Len(pages)]
         /\ Len(pages) \in Nat \ {0}
         /\ Visible \in PageType /\ Visible.saved = Null
         /\ FieldsOK(Visible) /\ CreditOK(Visible, now)
<1>1. pages # <<>>
  BY NewPageOK DEF Visible
<1> QED BY <1>1, LastType DEF Visible, TypeOK, PagesOK, StackOK

\* A page put in the place of the visible one.
LEMMA ReplaceOK ==
  ASSUME TypeOK, PagesOK(pages, now), StackOK(pages), pages # <<>>,
         NEW f \in PageType, FieldsOK(f), CreditOK(f, now), f.saved = Null
  PROVE  LET ps == Front(pages) \o <<f>> IN
         ps \in Seq(PageType) /\ PagesOK(ps, now) /\ StackOK(ps)
<1> DEFINE ps == Front(pages) \o <<f>>
<1>1. Len(pages) \in Nat \ {0}
  BY LastType DEF TypeOK
<1>2. /\ ps \in Seq(PageType) /\ Len(ps) = Len(pages)
      /\ \A i \in 1 .. Len(pages) - 1 : ps[i] = pages[i]
      /\ ps[Len(pages)] = f
  BY ReplaceLast DEF TypeOK
<1>. HIDE DEF ps
<1>3. \A i \in 1 .. Len(pages) : i \in 1 .. Len(pages) - 1 \/ i = Len(pages)
  BY <1>1
<1>4. PagesOK(ps, now)
  BY <1>2, <1>3 DEF PagesOK
<1>5. StackOK(ps)
  BY <1>1, <1>2 DEF StackOK
<1> QED BY <1>2, <1>4, <1>5 DEF ps

LEMMA IInit == Init => IInv
<1> SUFFICES ASSUME Init PROVE IInv
  OBVIOUS
<1>1. now \in Nat /\ popups = {} /\ crashed \in BOOLEAN
  BY DEF Init
<1>2. pages \in Seq(PageType) /\ PagesOK(pages, now) /\ StackOK(pages)
  BY <1>1, NewStackOK DEF Init
<1> QED BY <1>1, <1>2 DEF IInv, TypeOK

LEMMA TickOK == IInv /\ Tick => IInv'
<1> SUFFICES ASSUME IInv, Tick PROVE IInv'
  OBVIOUS
<1>1. TypeOK'
  BY DEF IInv, TypeOK, Tick
<1>2. PagesOK(pages, now)'
  <2>1. SUFFICES ASSUME NEW i \in 1 .. Len(pages)
                 PROVE  FieldsOK(pages[i]) /\ CreditOK(pages[i], now + 1)
    BY DEF PagesOK, Tick, IInv
  <2>2. pages[i] \in PageType /\ FieldsOK(pages[i]) /\ CreditOK(pages[i], now)
    BY ElementOfSeq DEF IInv, TypeOK, PagesOK
  <2>3. pages[i].pressed \in Int /\ now \in Int
    BY <2>2 DEF IInv, TypeOK, PageType
  <2> QED BY <2>2, <2>3 DEF CreditOK
<1> QED BY <1>1, <1>2 DEF IInv, Tick, StackOK

LEMMA StartOK == IInv /\ Start => IInv'
<1> SUFFICES ASSUME IInv, Start PROVE IInv'
  OBVIOUS
<1> DEFINE v == Visible
           c == Checked(v)
           f == [c EXCEPT !.pressed = now, !.left = FALSE]
<1>1. /\ TypeOK /\ PagesOK(pages, now) /\ StackOK(pages)
      /\ now \in Int /\ v.home /\ ~v.checked
  BY DEF IInv, TypeOK, Start
<1>2. /\ pages # <<>> /\ v \in PageType /\ v.saved = Null /\ FieldsOK(v)
  BY <1>1, VisibleOK
<1>3. ~(v.inherited /\ v.WasRunning)
  BY <1>2 DEF FieldsOK
<1>. HIDE DEF v
<1>4. /\ c \in PageType /\ c.checked /\ c.home /\ ~c.inherited /\ c.saved = Null
      /\ c.in = now /\ c.base = now /\ c.checkIn = now
  BY <1>1, <1>2, <1>3, CheckedOK
<1>. HIDE DEF c
<1>5. /\ f \in PageType /\ f.checked /\ f.home /\ ~f.inherited /\ f.saved = Null
      /\ f.in = now /\ f.base = now /\ f.checkIn = now /\ f.pressed = now
  BY <1>1, <1>4 DEF PageType
<1>6. pages' = Front(pages) \o <<f>> /\ now' = now
      /\ popups' = popups /\ crashed' = crashed
  BY DEF Start, c, v
<1>. HIDE DEF f
<1>7. FieldsOK(f) /\ CreditOK(f, now)
  BY <1>1, <1>5 DEF FieldsOK, CreditOK, CheckIn
<1>8. pages' \in Seq(PageType) /\ PagesOK(pages', now) /\ StackOK(pages')
  BY <1>1, <1>2, <1>5, <1>6, <1>7, ReplaceOK
<1> QED BY <1>6, <1>8 DEF IInv, TypeOK

LEMMA StopOK == IInv /\ Stop => IInv'
<1> SUFFICES ASSUME IInv, Stop PROVE IInv'
  OBVIOUS
<1> DEFINE v == Visible
           f == Unchecked(v)
           p == [page |-> Len(pages), diff |-> now - v.in,
                 studied |-> now - v.pressed, left |-> v.left]
<1>1. /\ TypeOK /\ PagesOK(pages, now) /\ StackOK(pages)
      /\ now \in Int /\ v.home /\ v.checked
  BY DEF IInv, TypeOK, Stop
<1>2. /\ pages # <<>> /\ Len(pages) \in Int /\ v \in PageType /\ v.saved = Null
      /\ FieldsOK(v) /\ CreditOK(v, now)
  BY <1>1, VisibleOK
<1>. HIDE DEF v
<1>3. /\ v.in = v.checkIn /\ v.checkIn \in Int /\ v.pressed \in Int
      /\ v.left \in BOOLEAN /\ v.pressed <= v.checkIn
      /\ ~v.left => v.checkIn = v.pressed
  BY <1>1, <1>2 DEF FieldsOK, CreditOK, CheckIn, PageType
<1>4. /\ f \in PageType /\ ~f.checked /\ f.home /\ ~f.inherited /\ f.saved = Null
      /\ f.pressed = v.pressed
  <2>1. f = [v EXCEPT !.checked = FALSE, !.inherited = FALSE, !.stopOffset = now - v.base]
    BY DEF Unchecked
  <2>2. now - v.base \in Int
    BY <1>1, <1>2 DEF PageType
  <2>. HIDE DEF f
  <2> QED BY <1>1, <1>2, <2>1, <2>2 DEF PageType
<1>5. p \in PopupType /\ PopupOK(p)
  BY <1>1, <1>2, <1>3 DEF PopupType, PopupOK
<1>6. /\ pages' = Front(pages) \o <<f>> /\ now' = now /\ crashed' = crashed
      /\ popups' \in {popups, popups \cup {p}}
  BY DEF Stop, v
<1>. HIDE DEF f, p
<1>7. FieldsOK(f) /\ CreditOK(f, now)
  BY <1>2, <1>4 DEF FieldsOK, CreditOK
<1>8. pages' \in Seq(PageType) /\ PagesOK(pages', now) /\ StackOK(pages')
  BY <1>1, <1>2, <1>4, <1>6, <1>7, ReplaceOK
<1>9. popups' \in SUBSET PopupType /\ \A q \in popups' : PopupOK(q)
  BY <1>5, <1>6 DEF IInv, TypeOK
<1> QED BY <1>6, <1>8, <1>9 DEF IInv, TypeOK

LEMMA AnswerOK ==
  ASSUME NEW p, NEW yes \in BOOLEAN
  PROVE  IInv /\ Answer(p, yes) => IInv'
<1> SUFFICES ASSUME IInv, Answer(p, yes) PROVE IInv'
  OBVIOUS
<1>1. crashed' \in BOOLEAN
  BY DEF Answer
<1>2. popups' \subseteq popups /\ pages' = pages /\ now' = now
  BY DEF Answer
<1>3. PagesOK(pages', now') /\ StackOK(pages')
  BY <1>2 DEF IInv
<1> QED BY <1>1, <1>2, <1>3 DEF IInv, TypeOK

LEMMA NavigateOK ==
  ASSUME NEW home \in BOOLEAN
  PROVE  IInv /\ Navigate(home) => IInv'
<1> SUFFICES ASSUME IInv, Navigate(home) PROVE IInv'
  OBVIOUS
<1> DEFINE left == [i \in DOMAIN pages |-> [pages[i] EXCEPT !.left = TRUE]]
           n == NewPage(home)
           ps == Append(left, n)
<1>1. /\ now \in Int /\ now \in Nat /\ Len(pages) \in Nat
      /\ DOMAIN pages = 1 .. Len(pages)
  BY LenProperties DEF IInv, TypeOK
<1>2. n \in PageType /\ n.saved = Null /\ ~n.checked /\ ~n.inherited /\ n.pressed = 0
  BY NewPageOK
<1>3. FieldsOK(n) /\ CreditOK(n, now)
  <2>. HIDE DEF n
  <2> QED BY <1>1, <1>2 DEF FieldsOK, CreditOK
<1>4. \A i \in 1 .. Len(pages) :
        /\ left[i] \in PageType /\ FieldsOK(left[i]) /\ CreditOK(left[i], now)
        /\ left[i].left
  <2> SUFFICES ASSUME NEW i \in 1 .. Len(pages)
               PROVE  /\ left[i] \in PageType /\ FieldsOK(left[i])
                      /\ CreditOK(left[i], now) /\ left[i].left
    OBVIOUS
  <2> DEFINE f == pages[i]
             g == [f EXCEPT !.left = TRUE]
  <2>1. f \in PageType /\ FieldsOK(f) /\ CreditOK(f, now)
    BY ElementOfSeq DEF IInv, TypeOK, PagesOK
  <2>2. left[i] = g
    BY <1>1
  <2>. HIDE DEF f, left
  <2>3. /\ g \in PageType /\ g.left /\ g.home = f.home /\ g.view = f.view
        /\ g.checked = f.checked /\ g.base = f.base /\ g.in = f.in
        /\ g.checkIn = f.checkIn /\ g.inherited = f.inherited
        /\ g.WasRunning = f.WasRunning /\ g.saved = f.saved /\ g.pressed = f.pressed
    BY <2>1 DEF PageType
  <2>. HIDE DEF g
  <2>4. FieldsOK(g) /\ CreditOK(g, now)
    BY <2>1, <2>3 DEF FieldsOK, CreditOK, CheckIn
  <2> QED BY <2>2, <2>3, <2>4
<1>5. left \in Seq(PageType) /\ Len(left) = Len(pages)
  BY <1>1, <1>4
<1>. HIDE DEF left, n
<1>6. /\ ps \in Seq(PageType) /\ Len(ps) = Len(pages) + 1
      /\ \A i \in 1 .. Len(pages) : ps[i] = left[i]
      /\ ps[Len(pages) + 1] = n
  BY <1>2, <1>5, AppendProperties
<1>. HIDE DEF ps
<1>7. \A i \in 1 .. Len(ps) : i \in 1 .. Len(pages) \/ i = Len(pages) + 1
  BY <1>1, <1>6
<1>8. PagesOK(ps, now)
  BY <1>3, <1>4, <1>6, <1>7 DEF PagesOK
<1>9. \A i \in 1 .. Len(ps) - 1 : ps[i].left
  BY <1>1, <1>4, <1>6
<1>10. ~ps[Len(ps)].checked
  BY <1>2, <1>6
<1>11. pages' = ShowLast(ps) /\ now' = now /\ popups' = popups /\ crashed' = crashed
  BY DEF Navigate, left, n, ps
<1>12. pages' \in Seq(PageType) /\ PagesOK(pages', now) /\ StackOK(pages')
  BY <1>1, <1>6, <1>8, <1>9, <1>10, <1>11, ShowLastOK
<1> QED BY <1>11, <1>12 DEF IInv, TypeOK

LEMMA BackOK == IInv /\ Back => IInv'
<1> SUFFICES ASSUME IInv, Back PROVE IInv'
  OBVIOUS
<1> DEFINE ps == Front(pages)
           n == Len(pages)
<1>1. now \in Int /\ pages \in Seq(PageType) /\ pages # <<>> /\ n \in Nat \ {0}
  BY LastType DEF IInv, TypeOK, Back
<1>2. /\ ps \in Seq(PageType) /\ Len(ps) = n - 1
      /\ \A i \in 1 .. n - 1 : ps[i] = pages[i]
  BY <1>1, FrontType
<1>3. \A i \in 1 .. n - 1 : pages[i].left /\ i \in 1 .. n
  BY <1>1 DEF IInv, StackOK
<1>. HIDE DEF ps
<1>4. PagesOK(ps, now)
  BY <1>2, <1>3 DEF IInv, PagesOK
<1>5. /\ \A i \in 1 .. Len(ps) - 1 : ps[i].left
      /\ ps # <<>> => ps[Len(ps)].left
  <2>1. ps # <<>> => Len(ps) \in 1 .. n - 1
    BY <1>2, LastType
  <2>2. \A i \in 1 .. Len(ps) - 1 : i \in 1 .. n - 1
    BY <1>1, <1>2
  <2> QED BY <1>2, <1>3, <2>1, <2>2
<1>6. pages' = ShowLast(ps) /\ now' = now /\ crashed' = crashed
  BY DEF Back, ps
<1>7. pages' \in Seq(PageType) /\ PagesOK(pages', now) /\ StackOK(pages')
  BY <1>1, <1>2, <1>4, <1>5, <1>6, ShowLastOK
<1>8. popups' \in SUBSET PopupType /\ \A q \in popups' : PopupOK(q)
  <2> SUFFICES ASSUME NEW q \in popups'
               PROVE  q \in PopupType /\ PopupOK(q)
    OBVIOUS
  <2>1. PICK p \in popups : q = [p EXCEPT !.page = IF @ = n THEN 0 ELSE @]
    BY DEF Back
  <2>2. p \in PopupType /\ PopupOK(p)
    BY DEF IInv, TypeOK
  <2>3. q \in PopupType /\ q.diff = p.diff /\ q.studied = p.studied /\ q.left = p.left
    BY <1>1, <2>1, <2>2 DEF PopupType
  <2> QED BY <2>2, <2>3 DEF PopupOK
<1> QED BY <1>6, <1>7, <1>8 DEF IInv, TypeOK

LEMMA FinishOK == IInv /\ Finish => IInv'
<1> SUFFICES ASSUME IInv, Finish PROVE IInv'
  OBVIOUS
<1>1. now \in Nat
  BY DEF IInv, TypeOK
<1>2. pages' \in Seq(PageType) /\ PagesOK(pages', now) /\ StackOK(pages')
  BY <1>1, NewStackOK DEF Finish
<1> QED BY <1>2 DEF Finish, IInv, TypeOK

LEMMA RecreateOK == IInv /\ Recreate => IInv'
<1> SUFFICES ASSUME IInv, Recreate PROVE IInv'
  OBVIOUS
<1> DEFINE n == Len(pages)
           ps == [i \in DOMAIN pages |-> Recreated(pages[i])]
<1>1. /\ now \in Int /\ now \in Nat /\ n \in Nat /\ DOMAIN pages = 1 .. n
      /\ pages \in Seq(PageType)
  BY LenProperties DEF IInv, TypeOK
<1>2. \A i \in 1 .. n :
        /\ ps[i] \in PageType /\ FieldsOK(ps[i]) /\ CreditOK(ps[i], now)
        /\ Alike(pages[i], ps[i])
        /\ ps[i].checked => ps[i].saved # Null
  <2> SUFFICES ASSUME NEW i \in 1 .. n
               PROVE  /\ ps[i] \in PageType /\ FieldsOK(ps[i])
                      /\ CreditOK(ps[i], now)
                      /\ Alike(pages[i], ps[i])
                      /\ ps[i].checked => ps[i].saved # Null
    OBVIOUS
  <2> DEFINE f == pages[i]
             g == Recreated(f)
  <2>1. f \in PageType /\ FieldsOK(f) /\ CreditOK(f, now)
    BY <1>1, ElementOfSeq DEF IInv, PagesOK
  <2>2. ps[i] = g
    BY <1>1
  <2>3. f.home => f.saved = Null
    BY <1>1, <2>1 DEF Recreate, CanSave, FieldsOK
  <2>. HIDE DEF f, ps
  <2>4. /\ g \in PageType /\ FieldsOK(g) /\ Alike(f, g)
        /\ CheckIn(f) = f.checkIn
        /\ f.home => g.saved # Null /\ CheckIn(g) = f.checkIn
    BY <2>1, <2>3, RecreatedOK
  <2>. HIDE DEF g
  <2>5. CreditOK(g, now) /\ (g.checked => g.saved # Null)
    BY <2>1, <2>4 DEF CreditOK, Alike, FieldsOK
  <2> QED BY <2>2, <2>4, <2>5 DEF f
<1>3. ps \in Seq(PageType) /\ Len(ps) = n
  BY <1>1, <1>2
<1>. HIDE DEF ps
<1>4. PagesOK(ps, now)
  BY <1>2, <1>3 DEF PagesOK
<1>5. \A i \in 1 .. Len(ps) - 1 : ps[i].left
  BY <1>1, <1>2, <1>3 DEF IInv, StackOK, Alike
<1>6. ps # <<>> => \/ ps[Len(ps)].saved # Null
                   \/ ~ps[Len(ps)].checked
  BY <1>2, <1>3, LastType
<1>7. pages' = ShowLast(ps) /\ now' = now /\ popups' = {} /\ crashed' = crashed
  BY DEF Recreate, ps
<1>8. pages' \in Seq(PageType) /\ PagesOK(pages', now) /\ StackOK(pages')
  BY <1>1, <1>3, <1>4, <1>5, <1>6, <1>7, ShowLastOK
<1> QED BY <1>7, <1>8 DEF IInv, TypeOK

LEMMA IStep == IInv /\ [Next]_vars => IInv'
<1> SUFFICES ASSUME IInv, [Next]_vars PROVE IInv'
  OBVIOUS
<1>1. CASE SaveFails
  BY <1>1 DEF SaveFails, IInv, TypeOK
<1>2. CASE UNCHANGED vars
  BY <1>2 DEF vars, IInv, TypeOK
<1> QED BY <1>1, <1>2, TickOK, StartOK, StopOK, AnswerOK, NavigateOK, BackOK, FinishOK,
           RecreateOK DEF Next

\* The inductive invariant behind the theorems below holds in every reachable state.
THEOREM Inductive == Spec => []IInv
BY IInit, IStep, PTL DEF Spec

-----------------------------------------------------------------------------
(* What the runs check.                                                    *)

\* While the record page is visible and running, its clock counts from the check-in
\* of the session: HomeFragment's chronometer and studySession.in, after any number
\* of openings, restorations and Backs.
THEOREM ClockFollowsSession == Spec => []ClockShowsSession
<1>1. IInv => ClockShowsSession
  <2> SUFFICES ASSUME IInv, Visible.home, Visible.checked
               PROVE  Visible.in # Null /\ Visible.base = Visible.in
    BY DEF ClockShowsSession
  <2>1. Visible \in PageType /\ Visible.saved = Null /\ FieldsOK(Visible)
    BY VisibleOK DEF IInv
  <2>2. Visible.in = Visible.checkIn /\ Visible.base = Visible.checkIn
    BY <2>1 DEF FieldsOK
  <2>3. Visible.checkIn \in Int
    BY <2>1 DEF PageType
  <2> QED BY <2>2, <2>3, ConstantsOK
<1> QED BY <1>1, Inductive, PTL

\* What is asked about is exactly the time since START unless another page was
\* opened: onSaveInstanceState and onActivityCreated lose nothing.
THEOREM BackgroundLosesNothing == Spec => []KeptInBackground
<1>1. IInv => KeptInBackground
  BY DEF IInv, PopupOK, KeptInBackground
<1> QED BY <1>1, Inductive, PTL

\* No page, in its object or its bundle, and no popup credits more than was studied
\* since START was pressed on it.
THEOREM NeverOvercredited == Spec => []NeverMoreThanStudied
<1>1. IInv => NeverMoreThanStudied
  <2> SUFFICES ASSUME IInv PROVE NeverMoreThanStudied
    OBVIOUS
  <2>1. ASSUME NEW i \in DOMAIN pages, pages[i].checked
        PROVE  CheckIn(pages[i]) >= pages[i].pressed
    <3>1. i \in 1 .. Len(pages) /\ pages[i] \in PageType
      BY LenProperties, ElementOfSeq DEF IInv, TypeOK
    <3>2. pages[i].pressed <= CheckIn(pages[i])
      BY <2>1, <3>1 DEF IInv, PagesOK, CreditOK
    <3>3. pages[i].pressed \in Int /\ CheckIn(pages[i]) \in Int
      BY <3>1 DEF PageType, CheckIn, Bundles
    <3> QED BY <3>2, <3>3
  <2> QED BY <2>1 DEF IInv, PopupOK, NeverMoreThanStudied
<1> QED BY <1>1, Inductive, PTL

\* What a step leaves of the check-ins of the running pages that stay on the stack.
CheckInsKept ==
  \A i \in DOMAIN pages \cap DOMAIN pages' :
    pages[i].checked /\ pages'[i].checked =>
      \/ CheckIn(pages'[i]) = CheckIn(pages[i])
      \/ Len(pages') < Len(pages) /\ pages[i].saved = Null

LEMMA ReplaceKeeps ==
  ASSUME IInv, pages # <<>>, NEW f \in PageType, pages' = Front(pages) \o <<f>>,
         ~pages[Len(pages)].checked \/ ~f.checked
  PROVE  CheckInsKept
<1>1. /\ Len(pages) \in Nat \ {0} /\ DOMAIN pages = 1 .. Len(pages)
      /\ \A i \in 1 .. Len(pages) - 1 : pages'[i] = pages[i]
      /\ pages'[Len(pages)] = f
  BY ReplaceLast, LastType, LenProperties DEF IInv, TypeOK
<1>2. Len(pages) \in Nat
  BY <1>1
<1> QED BY <1>1, <1>2, LastOrBefore DEF CheckInsKept

LEMMA NavigateKeeps ==
  ASSUME IInv, NEW home \in BOOLEAN, Navigate(home)
  PROVE  CheckInsKept
<1> DEFINE left == [i \in DOMAIN pages |-> [pages[i] EXCEPT !.left = TRUE]]
           n == NewPage(home)
           ps == Append(left, n)
<1>1. /\ now \in Int /\ Len(pages) \in Nat /\ DOMAIN pages = 1 .. Len(pages)
  BY LenProperties DEF IInv, TypeOK
<1>2. n \in PageType /\ FieldsOK(n)
  BY NewPageOK DEF FieldsOK
<1>3. \A i \in 1 .. Len(pages) :
        left[i] \in PageType /\ CheckIn(left[i]) = CheckIn(pages[i])
  <2> SUFFICES ASSUME NEW i \in 1 .. Len(pages)
               PROVE  left[i] \in PageType /\ CheckIn(left[i]) = CheckIn(pages[i])
    OBVIOUS
  <2> DEFINE f == pages[i]
             g == [f EXCEPT !.left = TRUE]
  <2>1. f \in PageType /\ left[i] = g
    BY <1>1, ElementOfSeq DEF IInv, TypeOK
  <2>. HIDE DEF f, left
  <2>2. g \in PageType /\ g.checkIn = f.checkIn /\ g.saved = f.saved
    BY <2>1 DEF PageType
  <2>. HIDE DEF g
  <2> QED BY <2>1, <2>2 DEF CheckIn, f
<1>4. left \in Seq(PageType) /\ Len(left) = Len(pages)
  BY <1>1, <1>3
<1>. HIDE DEF left, n
<1>5. /\ ps \in Seq(PageType) /\ Len(ps) = Len(pages) + 1
      /\ \A i \in 1 .. Len(pages) : ps[i] = left[i]
      /\ ps[Len(pages) + 1] = n
  BY <1>2, <1>4, AppendProperties
<1>6. pages' = ShowLast(ps)
  BY DEF Navigate, left, n, ps
<1>. HIDE DEF ps
<1>7. \A i \in 1 .. Len(pages) : pages'[i] = left[i]
  <2>1. PICK k \in Nat : k = Len(pages)
    BY <1>1
  <2>2. ps # <<>> /\ ps[Len(ps)] = n
    BY <1>5, <2>1, EmptySeq
  <2>3. Show(ps[Len(ps)]) \in PageType
    BY <1>1, <1>2, <2>2, ShowAny
  <2>4. \A i \in 1 .. Len(ps) - 1 : ShowLast(ps)[i] = ps[i]
    BY <1>5, <2>2, <2>3, ShowLastIs
  <2>5. 1 .. Len(pages) = 1 .. Len(ps) - 1
    BY <1>5, <2>1
  <2> QED BY <1>5, <1>6, <2>4, <2>5
<1> QED BY <1>1, <1>3, <1>7 DEF CheckInsKept

LEMMA BackKeeps ==
  ASSUME IInv, Back
  PROVE  CheckInsKept
<1> DEFINE ps == Front(pages)
           n == Len(pages)
<1>1. now \in Int /\ pages \in Seq(PageType) /\ pages # <<>> /\ n \in Nat \ {0}
  BY LastType DEF IInv, TypeOK, Back
<1>2. /\ ps \in Seq(PageType) /\ Len(ps) = n - 1
      /\ \A i \in 1 .. n - 1 : ps[i] = pages[i]
  BY <1>1, FrontType
<1>3. pages' = ShowLast(ps)
  BY DEF Back, ps
<1>. HIDE DEF ps
<1>4. CASE ps = <<>>
  BY <1>3, <1>4 DEF ShowLast, CheckInsKept
<1>5. CASE ps # <<>>
  <2> DEFINE f == ps[n - 1]
  <2>1. n - 1 \in 1 .. n - 1 /\ f \in PageType /\ f = pages[n - 1] /\ FieldsOK(f)
    BY <1>1, <1>2, <1>5, LastType DEF IInv, PagesOK
  <2>2. /\ Show(f) \in PageType /\ Show(f).saved = Null
        /\ f.saved # Null => CheckIn(Show(f)) = CheckIn(f)
    BY <1>1, <2>1, ShowAny DEF CheckIn
  <2>3. /\ pages' \in Seq(PageType) /\ Len(pages') = n - 1
        /\ \A i \in 1 .. n - 2 : pages'[i] = ps[i]
        /\ pages'[n - 1] = Show(f)
    BY <1>1, <1>2, <1>3, <1>5, <2>2, ShowLastIs
  <2>4. \A i \in 1 .. n - 1 : i \in 1 .. n - 2 \/ i = n - 1
    BY <1>1
  <2>5. DOMAIN pages' = 1 .. n - 1 /\ \A i \in 1 .. n - 2 : i \in 1 .. n - 1
    BY <1>1, <2>3, LenProperties
  <2>6. Len(pages') < Len(pages)
    BY <1>1, <2>3
  <2>. HIDE DEF f
  <2> QED BY <1>2, <2>1, <2>2, <2>3, <2>4, <2>5, <2>6 DEF CheckInsKept
<1> QED BY <1>4, <1>5

LEMMA FinishKeeps ==
  ASSUME IInv, Finish
  PROVE  CheckInsKept
<1>1. pages' \in Seq(PageType) /\ Len(pages') = 1 /\ ~pages'[1].checked
  BY NewStackOK DEF IInv, TypeOK, Finish
<1>2. DOMAIN pages' = {1}
  BY <1>1, LenProperties
<1> QED BY <1>1, <1>2 DEF CheckInsKept

LEMMA RecreateKeeps ==
  ASSUME IInv, Recreate
  PROVE  CheckInsKept
<1> DEFINE n == Len(pages)
           ps == [i \in DOMAIN pages |-> Recreated(pages[i])]
<1>1. /\ now \in Int /\ n \in Nat /\ DOMAIN pages = 1 .. n /\ pages \in Seq(PageType)
  BY LenProperties DEF IInv, TypeOK
<1>2. \A i \in 1 .. n :
        /\ ps[i] \in PageType /\ FieldsOK(ps[i])
        /\ Alike(pages[i], ps[i])
        /\ ps[i].checked => ps[i].saved # Null /\ CheckIn(ps[i]) = CheckIn(pages[i])
  <2> SUFFICES ASSUME NEW i \in 1 .. n
               PROVE  /\ ps[i] \in PageType /\ FieldsOK(ps[i])
                      /\ Alike(pages[i], ps[i])
                      /\ ps[i].checked => /\ ps[i].saved # Null
                                          /\ CheckIn(ps[i]) = CheckIn(pages[i])
    OBVIOUS
  <2> DEFINE f == pages[i]
             g == Recreated(f)
  <2>1. f \in PageType /\ FieldsOK(f)
    BY <1>1, ElementOfSeq DEF IInv, PagesOK
  <2>2. ps[i] = g
    BY <1>1
  <2>3. f.home => f.saved = Null
    BY <1>1, <2>1 DEF Recreate, CanSave, FieldsOK
  <2>. HIDE DEF f, ps
  <2>4. /\ g \in PageType /\ FieldsOK(g) /\ Alike(f, g)
        /\ CheckIn(f) = f.checkIn
        /\ f.home => g.saved # Null /\ CheckIn(g) = f.checkIn
    BY <2>1, <2>3, RecreatedOK
  <2>. HIDE DEF g
  <2> QED BY <2>1, <2>2, <2>4 DEF f, FieldsOK, Alike
<1>3. ps \in Seq(PageType) /\ Len(ps) = n
  BY <1>1, <1>2
<1>4. pages' = ShowLast(ps)
  BY DEF Recreate, ps
<1>. HIDE DEF ps
<1>5. CASE ps = <<>>
  BY <1>3, <1>4, <1>5 DEF ShowLast, CheckInsKept
<1>6. CASE ps # <<>>
  <2> DEFINE f == ps[n]
  <2>1. n \in 1 .. n /\ f \in PageType /\ FieldsOK(f)
    BY <1>1, <1>2, <1>3, <1>6, LastType
  <2>2. /\ Show(f) \in PageType /\ Alike(f, Show(f)) /\ Show(f).saved = Null
        /\ f.saved # Null => CheckIn(Show(f)) = CheckIn(f)
    BY <1>1, <2>1, ShowAny DEF CheckIn
  <2>3. /\ \A i \in 1 .. n - 1 : pages'[i] = ps[i]
        /\ pages'[n] = Show(f)
    BY <1>3, <1>4, <1>6, <2>2, ShowLastIs
  <2>4. \A i \in 1 .. n : i \in 1 .. n - 1 \/ i = n
    BY <1>1, LastOrBefore
  <2>5. \A i \in 1 .. n : pages'[i].checked => CheckIn(pages'[i]) = CheckIn(ps[i])
    BY <1>2, <2>1, <2>2, <2>3, <2>4 DEF Alike, FieldsOK
  <2>6. \A i \in 1 .. n : pages'[i].checked => ps[i].checked
    BY <2>2, <2>3, <2>4 DEF Alike
  <2> QED BY <1>1, <1>2, <2>5, <2>6 DEF CheckInsKept
<1> QED BY <1>5, <1>6

\* Only Back takes the check-in of a page that keeps running away, and not after
\* Android destroyed the activity: every callback of HomeFragment hands it on.
THEOREM OnlyBackLosesCheckIn == Spec => OnlyBackRestarts
<1>1. IInv /\ [Next]_vars => CheckInsKept \/ UNCHANGED vars
  <2> SUFFICES ASSUME IInv, Next PROVE CheckInsKept
    BY DEF vars
  <2>1. CASE UNCHANGED pages
    BY <2>1 DEF CheckInsKept
  <2>2. CASE Start
    <3> DEFINE f == [Checked(Visible) EXCEPT !.pressed = now, !.left = FALSE]
    <3>1. /\ pages # <<>> /\ Visible = pages[Len(pages)] /\ Visible \in PageType
          /\ now \in Int
      BY <2>2, VisibleOK DEF IInv, TypeOK, Start
    <3>2. Checked(Visible) \in PageType
      BY <3>1, CheckedOK
    <3>3. f \in PageType
      <4> DEFINE g == Checked(Visible)
      <4>1. g \in PageType /\ f = [g EXCEPT !.pressed = now, !.left = FALSE] /\ now \in Int
        BY <3>1, <3>2
      <4> HIDE DEF g, f
      <4> QED BY <4>1 DEF PageType
    <3>4. pages' = Front(pages) \o <<f>> /\ ~pages[Len(pages)].checked
      BY <2>2, <3>1 DEF Start
    <3>. HIDE DEF f
    <3> QED BY <3>1, <3>3, <3>4, ReplaceKeeps
  <2>3. CASE Stop
    <3> DEFINE f == Unchecked(Visible)
    <3>1. pages # <<>> /\ Visible \in PageType /\ now \in Int
      BY <2>3, VisibleOK DEF IInv, TypeOK, Stop
    <3>2. now - Visible.base \in Int
      BY <3>1 DEF PageType
    <3>3. f \in PageType /\ ~f.checked
      BY <3>1, <3>2 DEF PageType, Unchecked
    <3>4. pages' = Front(pages) \o <<f>>
      BY <2>3 DEF Stop
    <3>. HIDE DEF f
    <3> QED BY <3>1, <3>3, <3>4, ReplaceKeeps
  <2> QED BY <2>1, <2>2, <2>3, NavigateKeeps, BackKeeps, FinishKeeps, RecreateKeeps
          DEF Next, Tick, Answer, SaveFails
<1>2. CheckInsKept \/ UNCHANGED vars <=>
        [\A i \in DOMAIN pages \cap DOMAIN pages' :
           pages[i].checked /\ pages'[i].checked =>
             \/ CheckIn(pages'[i]) = CheckIn(pages[i])
             \/ Len(pages') < Len(pages) /\ pages[i].saved = Null]_vars
  BY DEF CheckInsKept
<1> QED BY <1>1, <1>2, Inductive, PTL DEF Spec, OnlyBackRestarts
=============================================================================
