---------------------------- MODULE MessageProofs ----------------------------
(***************************************************************************)
(* What the codec reads back, for every message; what follows for the      *)
(* exchange of ChatStream when recv() returns whole messages; and the text *)
(* of the listings that the longest answers carry.                         *)
(***************************************************************************)
EXTENDS ChatStream, Listing, TLAPS

\* Sequences that agree everywhere are the same.
LEMMA SameSeq ==
  ASSUME NEW S, NEW a \in Seq(S), NEW b \in Seq(S), Len(a) = Len(b),
         \A i \in 1 .. Len(a) : a[i] = b[i]
  PROVE  a = b
  OBVIOUS

\* The provers of a leaf that names none, in the order they are tried.
USE SMT, ZenonT(30), SMTT(30), ZenonT(60)

-----------------------------------------------------------------------------
(* Listings: cutting and appending.                                        *)

\* The first n characters of a text are a text of at most n.
LEMMA CutIs ==
  ASSUME NEW s \in Seq(Chars), NEW n \in Nat
  PROVE  /\ Cut(s, n) \in Seq(Chars)
         /\ Len(Cut(s, n)) = (IF Len(s) <= n THEN Len(s) ELSE n)
         /\ \A i \in 1 .. Len(Cut(s, n)) : Cut(s, n)[i] = s[i]
         /\ Len(s) <= n => Cut(s, n) = s
  <1> DEFINE m == IF Len(s) <= n THEN Len(s) ELSE n
  <1>1. m \in Nat /\ m <= Len(s)
    OBVIOUS
  <1>2. /\ SubSeq(s, 1, m) \in Seq(Chars)
        /\ Len(SubSeq(s, 1, m)) = m
        /\ \A i \in 1 .. m : SubSeq(s, 1, m)[i] = s[i]
    BY <1>1
  <1>3. m = Len(s) => SubSeq(s, 1, m) = s
    BY <1>1, <1>2
  <1> QED
    BY <1>1, <1>2, <1>3 DEF Cut

\* snprintf() after a text that fits leaves what a cut of both together would.
LEMMA CutOfBoth ==
  ASSUME NEW s \in Seq(Chars), NEW t \in Seq(Chars), NEW n \in Nat, Len(s) <= n
  PROVE  s \o Cut(t, n - Len(s)) = Cut(s \o t, n)
  <1> DEFINE r == Cut(t, n - Len(s))
             w == s \o t
  <1>1. n - Len(s) \in Nat /\ w \in Seq(Chars) /\ Len(w) = Len(s) + Len(t)
    OBVIOUS
  <1>2. /\ r \in Seq(Chars) /\ Len(r) = (IF Len(t) <= n - Len(s) THEN Len(t) ELSE n - Len(s))
        /\ \A i \in 1 .. Len(r) : r[i] = t[i]
    BY <1>1, CutIs
  <1>3. /\ Cut(w, n) \in Seq(Chars) /\ Len(Cut(w, n)) = (IF Len(w) <= n THEN Len(w) ELSE n)
        /\ \A i \in 1 .. Len(Cut(w, n)) : Cut(w, n)[i] = w[i]
    BY <1>1, CutIs, ZenonT(30), ZenonT(60)
  <1> HIDE DEF r
  <1>4. s \o r \in Seq(Chars) /\ Len(s \o r) = Len(Cut(w, n))
    <2>1. s \o r \in Seq(Chars) /\ Len(s \o r) = Len(s) + Len(r)
      <3>1. r \in Seq(Chars)
        BY ONLY <1>2
      <3> QED
        BY ONLY <3>1, s \in Seq(Chars)
    <2> HIDE DEF w
    <2> QED
      <3>1. /\ Len(s) \in Nat /\ Len(t) \in Nat
            /\ Len(s \o r) = Len(s) + (IF Len(t) <= n - Len(s) THEN Len(t) ELSE n - Len(s))
            /\ Len(Cut(w, n)) = (IF Len(s) + Len(t) <= n THEN Len(s) + Len(t) ELSE n)
        <4>1. Len(s) \in Nat /\ Len(t) \in Nat
          BY ONLY s \in Seq(Chars), t \in Seq(Chars)
        <4> QED
          BY ONLY <1>1, <1>2, <1>3, <2>1, <4>1
      <3>2. Len(s \o r) = Len(Cut(w, n))
        BY ONLY <3>1, n \in Nat, Len(s) <= n
      <3> QED
        BY ONLY <2>1, <3>2
  <1>5. \A i \in 1 .. Len(s \o r) : (s \o r)[i] = Cut(w, n)[i]
    <2>1. ASSUME NEW i \in 1 .. Len(s \o r) PROVE (s \o r)[i] = w[i]
      <3>1. CASE i <= Len(s)
        BY ONLY <3>1, <1>2, i \in 1 .. Len(s \o r), s \in Seq(Chars), t \in Seq(Chars)
      <3>2. CASE i > Len(s)
        <4>1. i - Len(s) \in 1 .. Len(r) /\ r[i - Len(s)] = t[i - Len(s)] /\ Len(r) <= Len(t)
          BY ONLY <3>2, <1>1, <1>2, i \in 1 .. Len(s \o r), s \in Seq(Chars), t \in Seq(Chars)
        <4> QED
          BY ONLY <3>2, <4>1, <1>2, i \in 1 .. Len(s \o r), s \in Seq(Chars), t \in Seq(Chars)
      <3> QED
        BY ONLY <3>1, <3>2, <1>2, i \in 1 .. Len(s \o r), s \in Seq(Chars)
    <2> HIDE DEF w
    <2> QED
      BY ONLY <1>3, <1>4, <2>1
  <1> HIDE DEF w
  <1>6. s \o r = Cut(w, n)
    BY ONLY <1>3, <1>4, <1>5, SameSeq, ZenonT(30), ZenonT(60)
  <1> QED
    BY <1>6 DEF r, w

\* A buffer of the given size in which texts are printed one after the other: it holds
\* the cut of all of them, and the offset is at the end as long as they fit.
Contexts ==
  [buf: Seq(Chars), offset: Nat, first: BOOLEAN, more: BOOLEAN, all: Seq(Chars), ends: Seq(Nat)]

CtxOK(c, size) ==
  /\ c \in Contexts
  /\ c.all \in Seq(Chars)
  /\ c.ends \in Seq(Nat)
  /\ \A i \in 1 .. Len(c.ends) : c.ends[i] <= Len(c.all)
  /\ c.first \in BOOLEAN
  /\ c.more \in BOOLEAN
  /\ c.buf = Cut(c.all, size - 1)
  /\ c.offset \in Nat
  /\ c.offset <= Len(c.buf)
  /\ c.more => c.offset = Len(c.all) /\ Len(c.all) < size
  /\ ~c.more => Len(c.all) >= size

\* Such a buffer is not overrun, and is full when something did not fit.
LEMMA CtxFits ==
  ASSUME NEW c, NEW size \in Nat \ {0}, CtxOK(c, size)
  PROVE  /\ c.buf \in Seq(Chars)
         /\ Len(c.buf) < size
         /\ ~c.more => Len(c.buf) = size - 1
  <1>1. size - 1 \in Nat /\ c.all \in Seq(Chars) /\ c.buf = Cut(c.all, size - 1)
    BY DEF CtxOK
  <1>2. c.buf \in Seq(Chars) /\ Len(c.buf) = (IF Len(c.all) <= size - 1 THEN Len(c.all) ELSE size - 1)
    BY <1>1, CutIs
  <1> QED
    BY <1>1, <1>2 DEF CtxOK

\* AppendItem, field by field.
LEMMA AppendedFields ==
  ASSUME NEW size \in Nat \ {0}, NEW all \in Seq(Chars), NEW t \in Seq(Chars), Len(all) < size
  PROVE  LET room == size - Len(all)
         IN  /\ SubSeq(Cut(all, size - 1), 1, Len(all)) \o Cut(t, room - 1) = Cut(all \o t, size - 1)
             /\ all \o t \in Seq(Chars)
             /\ Len(all \o t) = Len(all) + Len(t)
             /\ Len(t) < room => Len(all \o t) < size
             /\ ~(Len(t) < room) => Len(all \o t) >= size
             /\ Len(all) <= Len(Cut(all \o t, size - 1))
             /\ Len(t) < room => Len(all \o t) = Len(Cut(all \o t, size - 1))
  <1> DEFINE n == size - 1
             w == all \o t
  <1>1. n \in Nat /\ Len(all) <= n /\ size - Len(all) - 1 = n - Len(all) /\ size = n + 1
    OBVIOUS
  <1> HIDE DEF n
  <1>2. Cut(all, n) = all
    BY ONLY <1>1, all \in Seq(Chars), CutIs
  <1>3. SubSeq(all, 1, Len(all)) = all
    OBVIOUS
  <1>4. all \o Cut(t, n - Len(all)) = Cut(all \o t, n)
    BY ONLY <1>1, all \in Seq(Chars), t \in Seq(Chars), CutOfBoth
  <1>5. all \o t \in Seq(Chars) /\ Len(all \o t) = Len(all) + Len(t)
    OBVIOUS
  <1>6. Len(Cut(w, n)) = (IF Len(w) <= n THEN Len(w) ELSE n)
    BY ONLY <1>1, <1>5, CutIs, ZenonT(30), ZenonT(60)
  <1>7. SubSeq(Cut(all, n), 1, Len(all)) \o Cut(t, size - Len(all) - 1) = Cut(w, n)
    BY ONLY <1>1, <1>2, <1>3, <1>4, ZenonT(30), ZenonT(60)
  <1> HIDE DEF w
  <1>8. /\ Len(t) < size - Len(all) => Len(w) < size
        /\ ~(Len(t) < size - Len(all)) => Len(w) >= size
        /\ Len(all) <= Len(Cut(w, n))
        /\ Len(t) < size - Len(all) => Len(w) = Len(Cut(w, n))
    <2>1. Len(all) \in Nat /\ Len(t) \in Nat /\ Len(w) = Len(all) + Len(t)
      BY ONLY <1>5, all \in Seq(Chars), t \in Seq(Chars) DEF w
    <2> QED
      BY ONLY <1>1, <1>6, <2>1
  <1> QED
    BY ONLY <1>5, <1>7, <1>8, ZenonT(30), ZenonT(60) DEF n, w

\* AppendItem keeps it so.
LEMMA Appended ==
  ASSUME NEW c, NEW size \in Nat \ {0}, CtxOK(c, size), c.more,
         NEW sep \in Seq(Chars), NEW item \in Seq(Chars)
  PROVE  LET d == AppendItem(c, size, sep, item)
         IN  /\ CtxOK(d, size)
             /\ Part(c, sep, item) \in Seq(Chars)
             /\ d.all = c.all \o Part(c, sep, item)
             /\ d.ends = Append(c.ends, Len(d.all))
             /\ d.first = FALSE
  <1> DEFINE t == Part(c, sep, item)
             d == AppendItem(c, size, sep, item)
             room == size - c.offset
  <1>1. t \in Seq(Chars)
    BY DEF Part, CtxOK
  <1>2. /\ c.all \in Seq(Chars) /\ c.ends \in Seq(Nat) /\ Len(c.all) < size /\ c.offset = Len(c.all)
        /\ \A i \in 1 .. Len(c.ends) : c.ends[i] <= Len(c.all)
        /\ c.buf = Cut(c.all, size - 1)
    BY DEF CtxOK
  <1>3. PICK all \in Seq(Chars), ends \in Seq(Nat), u \in Seq(Chars) :
          all = c.all /\ ends = c.ends /\ u = t
    BY ONLY <1>1, <1>2
  <1> DEFINE w == all \o u
  <1>4. /\ SubSeq(c.buf, 1, c.offset) \o Cut(t, room - 1) = Cut(w, size - 1)
        /\ w \in Seq(Chars)
        /\ Len(w) = Len(all) + Len(u)
        /\ Len(u) < room => Len(w) < size
        /\ ~(Len(u) < room) => Len(w) >= size
        /\ Len(all) <= Len(Cut(w, size - 1))
        /\ Len(u) < room => Len(w) = Len(Cut(w, size - 1))
    <2>1. /\ SubSeq(Cut(all, size - 1), 1, Len(all)) \o Cut(u, size - Len(all) - 1) = Cut(w, size - 1)
          /\ w \in Seq(Chars)
          /\ Len(w) = Len(all) + Len(u)
          /\ Len(u) < size - Len(all) => Len(w) < size
          /\ ~(Len(u) < size - Len(all)) => Len(w) >= size
          /\ Len(all) <= Len(Cut(w, size - 1))
          /\ Len(u) < size - Len(all) => Len(w) = Len(Cut(w, size - 1))
      <3>1. Len(all) < size
        BY ONLY <1>2, <1>3
      <3> QED
        BY ONLY <3>1, AppendedFields, size \in Nat \ {0}, all \in Seq(Chars), u \in Seq(Chars), ZenonT(30), ZenonT(60)
    <2>2. c.offset = Len(all) /\ c.buf = Cut(all, size - 1) /\ t = u
      BY ONLY <1>2, <1>3
    <2> HIDE DEF w, t
    <2> QED
      BY ONLY <2>1, <2>2, ZenonT(30), ZenonT(60)
  <1>5. /\ d.buf = Cut(w, size - 1)
        /\ d.offset = (IF Len(u) < room THEN Len(all) + Len(u) ELSE Len(all))
        /\ d.first = FALSE
        /\ d.all = w
        /\ d.ends = Append(ends, Len(w))
    BY ONLY <1>2, <1>3, <1>4, ZenonT(30), ZenonT(60) DEF AppendItem
  <1>9. d.more \in BOOLEAN /\ (d.more <=> Len(u) < room)
    <2>1. d.more = (Len(t) < room)
      BY ONLY Zenon, ZenonT(30) DEF AppendItem
    <2>2. u = t
      BY ONLY <1>3
    <2> HIDE DEF t, d, room
    <2>3. (Len(t) < room) \in BOOLEAN
      BY ONLY SMT, SMTT(30)
    <2> QED
      BY ONLY <2>1, <2>2, <2>3, ZenonT(30), ZenonT(60)
  <1>6. /\ Append(ends, Len(w)) \in Seq(Nat)
        /\ \A i \in 1 .. Len(Append(ends, Len(w))) : Append(ends, Len(w))[i] <= Len(w)
    <2>1. \A i \in 1 .. Len(ends) : ends[i] <= Len(all)
      BY ONLY <1>2, <1>3
    <2> HIDE DEF w
    <2>2. Len(w) \in Nat /\ Len(all) <= Len(w) /\ Len(all) \in Nat
      <3>1. Len(w) = Len(all) + Len(u)
        BY ONLY <1>4
      <3> QED
        BY ONLY <3>1, all \in Seq(Chars), u \in Seq(Chars)
    <2> DEFINE m == Len(ends)
               e == Append(ends, Len(w))
    <2>3. e \in Seq(Nat) /\ Len(e) = m + 1 /\ e[m + 1] = Len(w) /\ m \in Nat
      BY ONLY <2>2, ends \in Seq(Nat)
    <2>4. \A i \in 1 .. m : e[i] = ends[i] /\ ends[i] \in Nat
      BY ONLY <2>2, ends \in Seq(Nat)
    <2> HIDE DEF e, m
    <2>5. ASSUME NEW i \in 1 .. m + 1 PROVE e[i] <= Len(w)
      <3>1. CASE i = m + 1
        BY ONLY <2>2, <2>3, <3>1
      <3>2. CASE i # m + 1
        <4>1. i \in 1 .. m
          BY ONLY <2>3, <3>2, i \in 1 .. m + 1
        <4>2. e[i] = ends[i] /\ ends[i] \in Nat /\ ends[i] <= Len(all)
          BY ONLY <2>1, <2>4, <4>1 DEF m
        <4> QED
          BY ONLY <2>2, <4>2
      <3> QED
        BY <3>1, <3>2
    <2> QED
      BY ONLY <2>3, <2>5 DEF e
  <1> HIDE DEF w, d
  <1>7. /\ d.offset \in Nat
        /\ d.offset <= Len(d.buf)
        /\ d.more => d.offset = Len(d.all) /\ Len(d.all) < size
        /\ ~d.more => Len(d.all) >= size
    <2>1. c.offset = Len(all) /\ Len(all) \in Nat /\ Len(u) \in Nat
      BY ONLY <1>2, <1>3, all \in Seq(Chars), u \in Seq(Chars)
    <2>2. CASE Len(u) < room
      <3>1. d.more /\ d.offset = Len(all) + Len(u)
        BY ONLY <1>5, <1>9, <2>2
      <3> QED
        BY ONLY <1>4, <1>5, <2>1, <2>2, <3>1
    <2>3. CASE ~(Len(u) < room)
      <3>1. ~d.more /\ d.offset = Len(all)
        BY ONLY <1>5, <1>9, <2>3
      <3> QED
        BY ONLY <1>4, <1>5, <2>1, <2>3, <3>1, SMTT(30), SMTT(60)
    <2> QED
      BY ONLY <2>2, <2>3
  <1>8. CtxOK(d, size)
    <2>1. d.ends \in Seq(Nat) /\ \A i \in 1 .. Len(d.ends) : d.ends[i] <= Len(d.all)
      BY ONLY <1>5, <1>6
    <2>2. d.first \in BOOLEAN /\ d.more \in BOOLEAN
      BY ONLY <1>5, <1>9, ZenonT(30), ZenonT(60)
    <2>3. d.all \in Seq(Chars) /\ d.buf = Cut(d.all, size - 1)
      BY ONLY <1>4, <1>5
    <2>4. d.buf \in Seq(Chars)
      <3>1. size - 1 \in Nat
        BY ONLY size \in Nat \ {0}
      <3> QED
        BY ONLY <2>3, <3>1, CutIs, ZenonT(30), ZenonT(60)
    <2>5. d = [buf |-> d.buf, offset |-> d.offset, first |-> d.first, more |-> d.more,
               all |-> d.all, ends |-> d.ends]
      BY ONLY SMT, SMTT(30) DEF d, AppendItem
    <2>6. d \in Contexts
      BY ONLY <1>7, <2>1, <2>2, <2>3, <2>4, <2>5 DEF Contexts
    <2> QED
      BY ONLY <1>7, <2>1, <2>2, <2>3, <2>6 DEF CtxOK
  <1> QED
    BY ONLY <1>1, <1>3, <1>5, <1>8 DEF d, w

\* A part more, printed after the others.
LEMMA LaidMore ==
  ASSUME NEW all \in Seq(Chars), NEW ends \in Seq(Nat), \A i \in 1 .. Len(ends) : ends[i] <= Len(all),
         NEW n \in Nat, NEW p, NEW q, NEW t \in Seq(Chars),
         Len(p) = n, DOMAIN p = 1 .. n, \A i \in 1 .. n : p[i] \in Seq(Chars),
         Len(q) = n + 1, DOMAIN q = 1 .. n + 1, \A i \in 1 .. n : q[i] = p[i],
         q[n + 1] = t,
         LaidEndToEnd(all, ends, p)
  PROVE  LaidEndToEnd(all \o t, Append(ends, Len(all \o t)), q)
  <1> DEFINE w == all \o t
             e == Append(ends, Len(w))
  <1>1. w \in Seq(Chars) /\ Len(w) = Len(all) + Len(t) /\ Len(w) \in Nat
    BY ONLY all \in Seq(Chars), t \in Seq(Chars)
  <1>2. /\ Len(ends) = n /\ Len(all) = EndOf(ends, n)
        /\ \A i \in 1 .. n : /\ ends[i] = EndOf(ends, i - 1) + Len(p[i])
                             /\ \A k \in DOMAIN p[i] : all[EndOf(ends, i - 1) + k] = p[i][k]
    BY ONLY LaidEndToEnd(all, ends, p), Len(p) = n, DOMAIN p = 1 .. n DEF LaidEndToEnd
  <1>3. \A i \in 1 .. Len(all) : w[i] = all[i]
    BY ONLY all \in Seq(Chars), t \in Seq(Chars)
  <1>4. \A k \in 1 .. Len(t) : w[Len(all) + k] = t[k]
    BY ONLY all \in Seq(Chars), t \in Seq(Chars)
  <1> HIDE DEF w
  <1>5. e \in Seq(Nat) /\ Len(e) = n + 1 /\ e[n + 1] = Len(w) /\ \A i \in 1 .. n : e[i] = ends[i]
    BY ONLY <1>1, <1>2, ends \in Seq(Nat), n \in Nat
  <1> HIDE DEF e
  <1>6. \A i \in 1 .. n + 1 : EndOf(e, i - 1) = EndOf(ends, i - 1) /\ EndOf(ends, i - 1) \in Nat
    <2> SUFFICES ASSUME NEW i \in 1 .. n + 1
                 PROVE  EndOf(e, i - 1) = EndOf(ends, i - 1) /\ EndOf(ends, i - 1) \in Nat
      BY ZenonT(30), ZenonT(60)
    <2>1. CASE i = 1
      BY ONLY <2>1 DEF EndOf
    <2>2. CASE i # 1
      <3>1. i - 1 \in 1 .. n /\ i - 1 # 0
        BY ONLY <2>2, n \in Nat, i \in 1 .. n + 1
      <3> QED
        <4>1. EndOf(e, i - 1) = e[i - 1] /\ EndOf(ends, i - 1) = ends[i - 1]
          BY ONLY <3>1 DEF EndOf
        <4>2. e[i - 1] = ends[i - 1]
          BY ONLY <1>5, <3>1
        <4>3. ends[i - 1] \in Nat
          BY ONLY <1>2, <3>1, ends \in Seq(Nat)
        <4> QED
          BY ONLY <4>1, <4>2, <4>3
    <2> QED
      BY <2>1, <2>2
  <1>7. EndOf(e, Len(e)) = Len(w)
    BY ONLY <1>5, n \in Nat DEF EndOf
  <1>8. ASSUME NEW i \in DOMAIN q
        PROVE  /\ e[i] = EndOf(e, i - 1) + Len(q[i])
               /\ \A k \in DOMAIN q[i] : w[EndOf(e, i - 1) + k] = q[i][k]
    <2>1. CASE i = n + 1
      <3>1. EndOf(e, i - 1) = Len(all) /\ q[i] = t /\ e[i] = Len(w) /\ DOMAIN t = 1 .. Len(t)
        BY ONLY <1>2, <1>5, <1>6, <2>1, n \in Nat, q[n + 1] = t, t \in Seq(Chars)
      <3> QED
        BY ONLY <1>1, <1>4, <3>1, ZenonT(30), ZenonT(60)
    <2>2. CASE i \in 1 .. n
      <3>1. q[i] = p[i] /\ p[i] \in Seq(Chars) /\ e[i] = ends[i] /\ EndOf(e, i - 1) = EndOf(ends, i - 1) /\ EndOf(ends, i - 1) \in Nat
        BY <1>5, <1>6, <2>2
      <3>2. /\ e[i] = EndOf(e, i - 1) + Len(q[i])
            /\ \A k \in DOMAIN q[i] : all[EndOf(e, i - 1) + k] = q[i][k]
        BY ONLY <1>2, <2>2, <3>1
      <3>3. ends[i] <= Len(all)
        BY <1>2, <2>2
      <3>4. PICK z \in Nat, r \in Seq(Chars) : z = EndOf(e, i - 1) /\ r = q[i]
        BY ONLY <3>1, ZenonT(30), ZenonT(60)
      <3>5. z + Len(r) <= Len(all)
        BY ONLY <3>1, <3>2, <3>3, <3>4
      <3>6. \A k \in DOMAIN r : z + k \in 1 .. Len(all)
        BY ONLY <3>5, z \in Nat, r \in Seq(Chars), all \in Seq(Chars)
      <3> QED
        BY ONLY <1>3, <3>2, <3>4, <3>6, SMTT(30), SMTT(60)
    <2> QED
      BY <2>1, <2>2
  <1>9. LaidEndToEnd(w, e, q)
    BY ONLY <1>5, <1>7, <1>8, Len(q) = n + 1 DEF LaidEndToEnd
  <1> QED
    BY ONLY <1>9 DEF w, e

-----------------------------------------------------------------------------
(* The line of a user.                                                     *)

\* The line under way: what is in it are the first parts of the user's line.
LineBegun(u, l, k) ==
  /\ l.first <=> Len(l.ends) = 1
  /\ Len(l.ends) \in 1 .. Len(LineParts(u))
  /\ LaidEndToEnd(l.all, l.ends, SubSeq(LineParts(u), 1, Len(l.ends)))
  /\ IF u.groups = << >> THEN Len(l.ends) = 2 ELSE k = Len(l.ends)

\* What the line of a user is made of are texts.
LEMMA UserTexts ==
  ASSUME NEW u \in Users
  PROVE  /\ Comma \in Seq(Chars) /\ NewLine \in Seq(Chars) /\ None \in Seq(Chars)
         /\ NamePart(u) \in Seq(Chars)
         /\ u.groups \in Seq(GroupNames)
         /\ \A k \in DOMAIN u.groups : u.groups[k] \in Seq(Chars)
         /\ LineSize \in Nat \ {0}
  <1>1. u.name \in Seq(Chars) /\ u.groups \in Seq(GroupNames)
    BY ListingAssumption
  <1>2. /\ Comma \in Seq(Chars) /\ NewLine \in Seq(Chars) /\ None \in Seq(Chars) /\ Arrow \in Seq(Chars)
        /\ LineSize \in Nat \ {0}
    BY ONLY ListingAssumption
  <1>3. NamePart(u) \in Seq(Chars)
    BY ONLY <1>1, <1>2 DEF NamePart
  <1>4. \A k \in DOMAIN u.groups : u.groups[k] \in GroupNames
    BY ONLY <1>1
  <1>5. GroupNames \subseteq Seq(Chars)
    BY ONLY ListingAssumption
  <1> QED
    BY ONLY <1>1, <1>2, <1>3, <1>4, <1>5

\* The parts of a line: the name first, each later group after a comma.
LEMMA LinePartsAre ==
  ASSUME NEW u \in Users
  PROVE  LET p == LineParts(u)
             n == IF u.groups = << >> THEN 2 ELSE Len(u.groups) + 1
         IN  /\ n \in Nat /\ n >= 2
             /\ p \in Seq(Seq(Chars))
             /\ Len(p) = n
             /\ p[1] = NamePart(u)
             /\ u.groups = << >> => p[2] = None
             /\ \A k \in DOMAIN u.groups : p[k + 1] = IF k = 1 THEN u.groups[k] ELSE Comma \o u.groups[k]
  <1>1. /\ Comma \in Seq(Chars) /\ None \in Seq(Chars) /\ NamePart(u) \in Seq(Chars)
        /\ u.groups \in Seq(GroupNames) /\ \A k \in DOMAIN u.groups : u.groups[k] \in Seq(Chars)
    BY UserTexts
  <1>2. CASE u.groups = << >>
    <2>1. LineParts(u) = <<NamePart(u), None>> /\ DOMAIN u.groups = {}
      BY <1>2 DEF LineParts
    <2> QED
      BY ONLY <1>1, <1>2, <2>1
  <1>3. CASE u.groups # << >>
    <2>1. PICK g \in Seq(GroupNames) : g = u.groups
      BY ONLY <1>1
    <2> DEFINE f(i) == IF i = 1 THEN NamePart(u) ELSE IF i = 2 THEN g[1] ELSE Comma \o g[i - 1]
    <2>2. Len(g) \in Nat /\ Len(g) >= 1 /\ DOMAIN g = 1 .. Len(g)
      BY ONLY <1>3, <2>1
    <2>3. LineParts(u) = [i \in 1 .. Len(g) + 1 |-> f(i)]
      BY ONLY <1>3, <2>1 DEF LineParts
    <2>4. \A i \in 1 .. Len(g) + 1 : f(i) \in Seq(Chars)
      <3> SUFFICES ASSUME NEW i \in 1 .. Len(g) + 1 PROVE f(i) \in Seq(Chars)
        OBVIOUS
      <3>1. i = 1 \/ i = 2 \/ i - 1 \in 1 .. Len(g)
        BY ONLY <2>2, i \in 1 .. Len(g) + 1
      <3>2. \A k \in 1 .. Len(g) : g[k] \in Seq(Chars) /\ Comma \o g[k] \in Seq(Chars)
        BY ONLY <1>1, <2>1, <2>2
      <3> QED
        BY ONLY <1>1, <2>2, <3>1, <3>2
    <2>5. \A k \in 1 .. Len(g) : k + 1 \in 1 .. Len(g) + 1 /\ f(k + 1) = IF k = 1 THEN g[k] ELSE Comma \o g[k]
      <3> SUFFICES ASSUME NEW k \in 1 .. Len(g)
                   PROVE  k + 1 \in 1 .. Len(g) + 1 /\ f(k + 1) = IF k = 1 THEN g[k] ELSE Comma \o g[k]
        OBVIOUS
      <3>1. k \in Int /\ k + 1 # 1 /\ (k + 1 = 2 <=> k = 1) /\ (k + 1) - 1 = k /\ k + 1 \in 1 .. Len(g) + 1
        BY ONLY <2>2, k \in 1 .. Len(g)
      <3> QED
        BY ONLY <3>1
    <2> HIDE DEF f
    <2>6. LineParts(u) \in Seq(Seq(Chars)) /\ Len(LineParts(u)) = Len(g) + 1
      BY ONLY <2>2, <2>3, <2>4
    <2>7. \A i \in 1 .. Len(g) + 1 : LineParts(u)[i] = f(i)
      BY ONLY <2>3
    <2>8. f(1) = NamePart(u)
      BY DEF f
    <2>9. \A k \in DOMAIN u.groups : LineParts(u)[k + 1] = IF k = 1 THEN u.groups[k] ELSE Comma \o u.groups[k]
      BY ONLY <2>1, <2>2, <2>5, <2>7
    <2>10. 1 \in 1 .. Len(g) + 1
      BY ONLY <2>2
    <2> QED
      BY ONLY <1>3, <2>1, <2>2, <2>6, <2>7, <2>8, <2>9, <2>10
  <1> QED
    BY <1>2, <1>3

\* The first n of a sequence of parts, and one more.
LEMMA FirstParts ==
  ASSUME NEW p \in Seq(Seq(Chars)), NEW n \in Nat, n <= Len(p)
  PROVE  LET q == SubSeq(p, 1, n)
         IN  /\ Len(q) = n /\ DOMAIN q = 1 .. n
             /\ \A i \in 1 .. n : q[i] = p[i] /\ q[i] \in Seq(Chars)
  <1>1. SubSeq(p, 1, n) \in Seq(Seq(Chars)) /\ Len(SubSeq(p, 1, n)) = n
    OBVIOUS
  <1>2. \A i \in 1 .. n : SubSeq(p, 1, n)[i] = p[i]
    OBVIOUS
  <1>3. \A i \in 1 .. n : p[i] \in Seq(Chars)
    OBVIOUS
  <1>4. DOMAIN SubSeq(p, 1, n) = 1 .. n
    BY ONLY <1>1
  <1> QED
    BY ONLY <1>1, <1>2, <1>3, <1>4

\* What AppendItem adds to a line is its next part.
LEMMA LineGrows ==
  ASSUME NEW u \in Users, NEW l, CtxOK(l, LineSize), l.more,
         NEW n \in Nat, n < Len(LineParts(u)), Len(l.ends) = n,
         LaidEndToEnd(l.all, l.ends, SubSeq(LineParts(u), 1, n)),
         NEW item \in Seq(Chars), Part(l, Comma, item) = LineParts(u)[n + 1]
  PROVE  LET d == AppendItem(l, LineSize, Comma, item)
         IN  /\ CtxOK(d, LineSize)
             /\ Len(d.ends) = n + 1
             /\ d.first = FALSE
             /\ LaidEndToEnd(d.all, d.ends, SubSeq(LineParts(u), 1, n + 1))
  <1> DEFINE d == AppendItem(l, LineSize, Comma, item)
             t == Part(l, Comma, item)
  <1>1. Comma \in Seq(Chars) /\ LineSize \in Nat \ {0}
    BY UserTexts
  <1>2. /\ CtxOK(d, LineSize) /\ t \in Seq(Chars) /\ d.all = l.all \o t
        /\ d.ends = Append(l.ends, Len(d.all)) /\ d.first = FALSE
    BY ONLY <1>1, CtxOK(l, LineSize), l.more, item \in Seq(Chars), Appended, ZenonT(30), ZenonT(60)
  <1>3. PICK all \in Seq(Chars), ends \in Seq(Nat), p \in Seq(Seq(Chars)) :
          all = l.all /\ ends = l.ends /\ p = LineParts(u)
    <2>1. LineParts(u) \in Seq(Seq(Chars))
      BY LinePartsAre
    <2> QED
      BY ONLY <2>1, CtxOK(l, LineSize) DEF CtxOK
  <1>4. \A i \in 1 .. Len(ends) : ends[i] <= Len(all)
    BY ONLY <1>3, CtxOK(l, LineSize) DEF CtxOK
  <1> DEFINE a == SubSeq(p, 1, n)
             b == SubSeq(p, 1, n + 1)
  <1>5. Len(a) = n /\ DOMAIN a = 1 .. n /\ \A i \in 1 .. n : a[i] = p[i] /\ a[i] \in Seq(Chars)
    <2>1. n <= Len(p)
      BY ONLY <1>3, n \in Nat, n < Len(LineParts(u)), p \in Seq(Seq(Chars))
    <2> QED
      BY ONLY <2>1, n \in Nat, p \in Seq(Seq(Chars)), FirstParts
  <1>6. Len(b) = n + 1 /\ DOMAIN b = 1 .. n + 1 /\ \A i \in 1 .. n + 1 : b[i] = p[i]
    <2>1. n + 1 \in Nat /\ n + 1 <= Len(p)
      BY ONLY <1>3, n \in Nat, n < Len(LineParts(u)), p \in Seq(Seq(Chars))
    <2> QED
      BY ONLY <2>1, p \in Seq(Seq(Chars)), FirstParts
  <1>7. LaidEndToEnd(all, ends, a)
    BY ONLY <1>3, LaidEndToEnd(l.all, l.ends, SubSeq(LineParts(u), 1, n))
  <1> HIDE DEF a, b, t, d
  <1>8. b[n + 1] = t /\ \A i \in 1 .. n : b[i] = a[i]
    <2>1. n + 1 \in 1 .. n + 1 /\ \A i \in 1 .. n : i \in 1 .. n + 1
      BY ONLY n \in Nat
    <2>2. t = p[n + 1]
      BY ONLY <1>3, Part(l, Comma, item) = LineParts(u)[n + 1] DEF t
    <2> QED
      BY ONLY <1>5, <1>6, <2>1, <2>2, ZenonT(30), ZenonT(60)
  <1>9. LaidEndToEnd(all \o t, Append(ends, Len(all \o t)), b)
    BY ONLY <1>2, <1>4, <1>5, <1>6, <1>7, <1>8, n \in Nat, all \in Seq(Chars), ends \in Seq(Nat), LaidMore, ZenonT(30), ZenonT(60)
  <1>10. LaidEndToEnd(d.all, d.ends, b)
    BY ONLY <1>2, <1>3, <1>9
  <1>11. Len(d.ends) = n + 1
    BY ONLY <1>6, <1>10 DEF LaidEndToEnd
  <1> QED
    BY ONLY <1>2, <1>3, <1>10, <1>11 DEF b, d

\* FormatUserGroupsLine before the loop.
LEMMA LineStarts ==
  ASSUME NEW u \in Users, Fits(u),
         NEW l, l = [Fresh EXCEPT !.buf = NamePart(u), !.offset = Len(NamePart(u)),
                                  !.all = NamePart(u), !.ends = <<Len(NamePart(u))>>]
  PROVE  /\ CtxOK(l, LineSize)
         /\ l.first = TRUE /\ l.more = TRUE /\ Len(l.ends) = 1
         /\ LaidEndToEnd(l.all, l.ends, SubSeq(LineParts(u), 1, 1))
  <1>1. PICK t \in Seq(Chars) : t = NamePart(u)
    BY UserTexts
  <1>2. l = [buf |-> t, offset |-> Len(t), first |-> TRUE, more |-> TRUE, all |-> t, ends |-> <<Len(t)>>]
    BY ONLY <1>1, l = [Fresh EXCEPT !.buf = NamePart(u), !.offset = Len(NamePart(u)),
                                  !.all = NamePart(u), !.ends = <<Len(NamePart(u))>>], ZenonT(30), ZenonT(60) DEF Fresh
  <1>3. Len(t) < LineSize /\ LineSize \in Nat \ {0}
    BY ONLY <1>1, Fits(u), UserTexts, u \in Users DEF Fits
  <1>4. LineSize - 1 \in Nat /\ Len(t) <= LineSize - 1 /\ Len(t) \in Nat
    BY ONLY <1>3, t \in Seq(Chars)
  <1>5. Cut(t, LineSize - 1) = t
    BY ONLY <1>4, t \in Seq(Chars), CutIs
  <1>6. /\ <<Len(t)>> \in Seq(Nat) /\ Len(<<Len(t)>>) = 1
        /\ \A i \in 1 .. Len(<<Len(t)>>) : <<Len(t)>>[i] <= Len(t)
    BY ONLY <1>4
  <1>7. l \in Contexts
    BY ONLY <1>2, <1>4, <1>6, t \in Seq(Chars) DEF Contexts
  <1>8. CtxOK(l, LineSize)
    BY ONLY <1>2, <1>3, <1>4, <1>5, <1>6, <1>7, t \in Seq(Chars) DEF CtxOK
  <1>9. LineParts(u) \in Seq(Seq(Chars)) /\ Len(LineParts(u)) >= 2 /\ LineParts(u)[1] = t
    BY ONLY <1>1, u \in Users, LinePartsAre
  <1> DEFINE q == SubSeq(LineParts(u), 1, 1)
  <1>10. Len(q) = 1 /\ DOMAIN q = 1 .. 1 /\ q[1] = t
    <2>1. 1 \in Nat /\ 1 <= Len(LineParts(u)) /\ 1 \in 1 .. 1
      BY ONLY <1>9
    <2> QED
      BY ONLY <1>9, <2>1, FirstParts
  <1> HIDE DEF q
  <1>11. LaidEndToEnd(t, <<Len(t)>>, q)
    BY ONLY <1>4, <1>6, <1>10, t \in Seq(Chars) DEF LaidEndToEnd, EndOf
  <1> QED
    BY ONLY <1>2, <1>6, <1>8, <1>11 DEF q

\* The line as the loop over the groups finds it, or with "(none)".
LEMMA LineBegins ==
  ASSUME NEW u \in Users, Fits(u),
         NEW s, s = [Fresh EXCEPT !.buf = NamePart(u), !.offset = Len(NamePart(u)),
                                  !.all = NamePart(u), !.ends = <<Len(NamePart(u))>>],
         NEW l, l = IF u.groups = << >> THEN AppendItem(s, LineSize, Comma, None) ELSE s
  PROVE  CtxOK(l, LineSize) /\ LineBegun(u, l, 1)
  <1>1. /\ CtxOK(s, LineSize) /\ s.first = TRUE /\ s.more = TRUE /\ Len(s.ends) = 1
        /\ LaidEndToEnd(s.all, s.ends, SubSeq(LineParts(u), 1, 1))
    BY LineStarts, ZenonT(30), ZenonT(60)
  <1>2. /\ Len(LineParts(u)) \in Nat /\ Len(LineParts(u)) >= 2
        /\ u.groups = << >> => Len(LineParts(u)) = 2 /\ LineParts(u)[2] = None
    BY ONLY u \in Users, LinePartsAre
  <1>3. CASE u.groups = << >>
    <2>1. None \in Seq(Chars) /\ Part(s, Comma, None) = LineParts(u)[1 + 1]
      BY ONLY <1>1, <1>2, <1>3, u \in Users, UserTexts DEF Part
    <2>2. 1 \in Nat /\ 1 < Len(LineParts(u))
      BY ONLY <1>2
    <2>3. l = AppendItem(s, LineSize, Comma, None) /\ s.more
      BY <1>1, <1>3
    <2>4. /\ CtxOK(l, LineSize) /\ Len(l.ends) = 1 + 1 /\ l.first = FALSE
          /\ LaidEndToEnd(l.all, l.ends, SubSeq(LineParts(u), 1, 1 + 1))
      BY ONLY <1>1, <2>1, <2>2, <2>3, u \in Users, LineGrows, ZenonT(30), ZenonT(60)
    <2> QED
      BY ONLY <1>2, <1>3, <2>4 DEF LineBegun
  <1>4. CASE u.groups # << >>
    <2>1. l = s
      BY <1>4
    <2>2. 1 = Len(l.ends) /\ l.first
      BY ONLY <1>1, <2>1
    <2>3. Len(l.ends) \in 1 .. Len(LineParts(u))
      BY ONLY <1>2, <2>2
    <2> QED
      BY ONLY <1>1, <1>4, <2>1, <2>2, <2>3, ZenonT(30), ZenonT(60) DEF LineBegun
  <1> QED
    BY <1>3, <1>4

\* FormatGroupName.
LEMMA LineGoesOn ==
  ASSUME NEW u \in Users, NEW l, NEW k, CtxOK(l, LineSize), LineBegun(u, l, k), l.more,
         k \in DOMAIN u.groups
  PROVE  LET d == AppendItem(l, LineSize, Comma, u.groups[k])
         IN  CtxOK(d, LineSize) /\ LineBegun(u, d, k + 1)
  <1> DEFINE d == AppendItem(l, LineSize, Comma, u.groups[k])
  <1>1. u.groups \in Seq(GroupNames) /\ u.groups[k] \in Seq(Chars)
    BY UserTexts
  <1>2. k \in Nat /\ k >= 1 /\ k <= Len(u.groups) /\ Len(u.groups) \in Nat /\ u.groups # << >>
    BY ONLY <1>1, k \in DOMAIN u.groups
  <1>3. /\ Len(LineParts(u)) = Len(u.groups) + 1
        /\ LineParts(u)[k + 1] = IF k = 1 THEN u.groups[k] ELSE Comma \o u.groups[k]
    BY ONLY <1>2, u \in Users, k \in DOMAIN u.groups, LinePartsAre
  <1>4. /\ Len(l.ends) = k /\ (l.first <=> k = 1)
        /\ LaidEndToEnd(l.all, l.ends, SubSeq(LineParts(u), 1, k))
    BY ONLY <1>2, LineBegun(u, l, k), ZenonT(30), ZenonT(60) DEF LineBegun
  <1>5. Part(l, Comma, u.groups[k]) = LineParts(u)[k + 1]
    BY ONLY <1>3, <1>4 DEF Part
  <1>6. k < Len(LineParts(u))
    BY ONLY <1>2, <1>3
  <1>7. /\ CtxOK(d, LineSize) /\ Len(d.ends) = k + 1 /\ d.first = FALSE
        /\ LaidEndToEnd(d.all, d.ends, SubSeq(LineParts(u), 1, k + 1))
    BY ONLY <1>1, <1>2, <1>4, <1>5, <1>6, u \in Users, CtxOK(l, LineSize), l.more, LineGrows, ZenonT(30), ZenonT(60)
  <1> HIDE DEF d
  <1>8. LineBegun(u, d, k + 1)
    BY ONLY <1>2, <1>3, <1>7 DEF LineBegun
  <1> QED
    BY ONLY <1>7, <1>8 DEF d

\* The line AppendUserGroupsLine is given.
LEMMA LineEnds ==
  ASSUME NEW u \in Users, NEW l, NEW k, CtxOK(l, LineSize), LineBegun(u, l, k),
         k \in DOMAIN u.groups => ~l.more
  PROVE  LineIsCut(u, l)
  <1>1. u.groups \in Seq(GroupNames) /\ LineSize \in Nat \ {0}
    BY UserTexts
  <1>2. /\ Len(LineParts(u)) = (IF u.groups = << >> THEN 2 ELSE Len(u.groups) + 1)
    BY ONLY u \in Users, LinePartsAre
  <1>3. l.buf = Cut(l.all, LineSize - 1) /\ (~l.more => Len(l.buf) = LineSize - 1)
    BY ONLY <1>1, CtxOK(l, LineSize), CtxFits, ZenonT(30), ZenonT(60) DEF CtxOK
  <1>4. Len(l.ends) < Len(LineParts(u)) => Len(l.buf) = LineSize - 1
    <2> SUFFICES ASSUME Len(l.ends) < Len(LineParts(u)) PROVE Len(l.buf) = LineSize - 1
      OBVIOUS
    <2>1. /\ Len(l.ends) \in Nat /\ Len(l.ends) >= 1
          /\ IF u.groups = << >> THEN Len(l.ends) = 2 ELSE k = Len(l.ends)
      BY ONLY <1>1, <1>2, LineBegun(u, l, k) DEF LineBegun
    <2>2. u.groups # << >>
      <3>1. u.groups = << >> => Len(LineParts(u)) = 2 /\ Len(l.ends) = 2
        BY ONLY <1>2, <2>1
      <3> QED
        BY ONLY <3>1, Len(l.ends) < Len(LineParts(u))
    <2>3. k \in DOMAIN u.groups
      <3>1. Len(u.groups) \in Nat /\ DOMAIN u.groups = 1 .. Len(u.groups)
        BY ONLY <1>1
      <3>2. Len(l.ends) < Len(u.groups) + 1 /\ k = Len(l.ends)
        BY ONLY <1>2, <2>1, <2>2, Len(l.ends) < Len(LineParts(u))
      <3> QED
        BY ONLY <2>1, <3>1, <3>2
    <2> QED
      BY ONLY <1>3, <2>3, k \in DOMAIN u.groups => ~l.more
  <1> QED
    BY ONLY <1>2, <1>1, <1>3, <1>4, LineBegun(u, l, k) DEF LineBegun, LineIsCut

-----------------------------------------------------------------------------
(* The walk.                                                               *)

Entries == IF list = "groups" THEN GroupNames ELSE Users

\* The inductive invariant. While a line is being made the user it is for has been
\* visited and not been added to the listing yet.
ListingTypes ==
  /\ list \in {"groups", "users"}
  /\ bufSize \in Nat \ {0}
  /\ todo \subseteq Entries
  /\ visited \in Seq(Entries)
  /\ itr \in Nat
  /\ lines \in Seq(Contexts)
  /\ CtxOK(ctx, bufSize)
  /\ CtxOK(line, LineSize)
  /\ itr = 0 => Len(visited) = Len(ctx.ends)
  /\ itr # 0 => Len(visited) = Len(ctx.ends) + 1
  /\ list = "users" => Len(lines) = Len(ctx.ends)
  /\ list = "groups" => lines = << >> /\ itr = 0
  /\ itr # 0 => ctx.more

FirstIsFirst == ctx.first <=> \A j \in 1 .. Len(ctx.ends) : ~Shown(j)

PartsLaid == LaidEndToEnd(ctx.all, ctx.ends, [i \in 1 .. Len(ctx.ends) |-> ListPart(i)])

LinesAreCut == \A i \in 1 .. Len(lines) : Fits(visited[i]) => LineIsCut(visited[i], lines[i])

LineUnderWay ==
  itr # 0 => LET u == visited[Len(visited)] IN Fits(u) /\ LineBegun(u, line, itr)

ListingInv == ListingTypes /\ FirstIsFirst /\ PartsLaid /\ LinesAreCut /\ LineUnderWay

\* What the types say of the entries visited and of the lines kept.
LEMMA EntriesSeen ==
  ASSUME ListingTypes
  PROVE  /\ Len(ctx.ends) \in Nat
         /\ Len(ctx.ends) <= Len(visited)
         /\ Len(visited) \in Nat
         /\ \A i \in 1 .. Len(visited) : visited[i] \in Entries
         /\ list = "groups" => \A i \in 1 .. Len(visited) : visited[i] \in Seq(Chars)
         /\ \A i \in 1 .. Len(lines) : lines[i] \in Contexts /\ lines[i].buf \in Seq(Chars)
         /\ Comma \in Seq(Chars) /\ NewLine \in Seq(Chars)
         /\ LineSize \in Nat \ {0}
  <1>0. CtxOK(ctx, bufSize)
    BY ONLY ListingTypes DEF ListingTypes
  <1>1. ctx.ends \in Seq(Nat)
    BY ONLY <1>0 DEF CtxOK
  <1>2. /\ visited \in Seq(Entries) /\ lines \in Seq(Contexts)
        /\ Len(visited) = Len(ctx.ends) \/ Len(visited) = Len(ctx.ends) + 1
    BY ONLY ListingTypes DEF ListingTypes
  <1>3. Len(ctx.ends) \in Nat /\ Len(ctx.ends) <= Len(visited) /\ Len(visited) \in Nat
    BY ONLY <1>1, <1>2
  <1>4. \A i \in 1 .. Len(visited) : visited[i] \in Entries
    BY ONLY <1>2
  <1>5. Comma \in Seq(Chars) /\ NewLine \in Seq(Chars) /\ LineSize \in Nat \ {0} /\ GroupNames \subseteq Seq(Chars)
    BY ONLY ListingAssumption
  <1>6. list = "groups" => \A i \in 1 .. Len(visited) : visited[i] \in Seq(Chars)
    BY ONLY <1>4, <1>5 DEF Entries
  <1>7. \A i \in 1 .. Len(lines) : lines[i] \in Contexts
    BY ONLY <1>2
  <1>8. \A c \in Contexts : c.buf \in Seq(Chars)
    BY ONLY SMT, SMTT(30) DEF Contexts
  <1> QED
    BY ONLY <1>3, <1>4, <1>5, <1>6, <1>7, <1>8

\* What an entry adds is a text.
LEMMA PartTyped ==
  ASSUME ListingTypes, NEW i \in 1 .. Len(ctx.ends)
  PROVE  ListPart(i) \in Seq(Chars)
  <1>1. Comma \in Seq(Chars) /\ NewLine \in Seq(Chars) /\ << >> \in Seq(Chars)
    BY EntriesSeen
  <1>2. CASE list = "groups"
    <2>1. visited[i] \in Seq(Chars)
      BY <1>2, EntriesSeen
    <2>2. Comma \o visited[i] \in Seq(Chars)
      BY ONLY <1>1, <2>1
    <2> QED
      BY ONLY <1>1, <1>2, <2>1, <2>2 DEF ListPart
  <1>3. CASE list = "users"
    <2>1. i \in 1 .. Len(lines)
      BY <1>3 DEF ListingTypes
    <2>2. lines[i].buf \in Seq(Chars)
      BY <2>1, EntriesSeen
    <2>3. NewLine \o lines[i].buf \in Seq(Chars)
      BY ONLY <1>1, <2>2
    <2> QED
      BY ONLY <1>1, <1>3, <2>2, <2>3 DEF ListPart
  <1> QED
    BY <1>2, <1>3 DEF ListingTypes

\* What the entries visited before have added does not change.
Kept ==
  /\ list' = list
  /\ \A i \in 1 .. Len(ctx.ends) : visited'[i] = visited[i]
  /\ list = "users" => \A i \in 1 .. Len(ctx.ends) : lines'[i] = lines[i]

\* So the parts laid before, and whether they are shown, stay what they were.
LEMMA PartsKept ==
  ASSUME ListingTypes, Kept, NEW i \in 1 .. Len(ctx.ends)
  PROVE  ListPart(i)' = ListPart(i) /\ (Shown(i)' <=> Shown(i))
  <1>1. Len(ctx.ends) \in Nat
    BY EntriesSeen
  <1>2. \A j \in 1 .. Len(ctx.ends) : Shown(j)' <=> Shown(j)
    BY ONLY Kept DEF Kept, Shown, Fits, NamePart
  <1>3. \A j \in 1 .. i - 1 : j \in 1 .. Len(ctx.ends)
    BY ONLY <1>1, i \in 1 .. Len(ctx.ends)
  <1>4. (\E j \in 1 .. i - 1 : Shown(j)') <=> (\E j \in 1 .. i - 1 : Shown(j))
    BY ONLY <1>2, <1>3
  <1>5. list' = list /\ visited'[i] = visited[i] /\ (list = "users" => lines'[i] = lines[i])
    BY ONLY Kept, i \in 1 .. Len(ctx.ends) DEF Kept
  <1>6. list \in {"groups", "users"}
    BY DEF ListingTypes
  <1> QED
    BY ONLY <1>2, <1>4, <1>5, <1>6, i \in 1 .. Len(ctx.ends) DEF ListPart

\* A function on 1 .. m is a sequence.
LEMMA IsSeq ==
  ASSUME NEW S, NEW m \in Nat, NEW f \in [1 .. m -> S]
  PROVE  f \in Seq(S) /\ Len(f) = m
  OBVIOUS

\* An appender that prints the next part.
LEMMA WalkGrows ==
  ASSUME ListingTypes, PartsLaid, Kept, NEW n \in Nat, n = Len(ctx.ends), NEW t \in Seq(Chars),
         ctx'.all = ctx.all \o t, ctx'.ends = Append(ctx.ends, Len(ctx'.all)),
         ListPart(n + 1)' = t
  PROVE  PartsLaid' /\ Len(ctx'.ends) = n + 1
  <1>1. CtxOK(ctx, bufSize)
    BY ONLY ListingTypes DEF ListingTypes
  <1>2. PICK all \in Seq(Chars), ends \in Seq(Nat) : all = ctx.all /\ ends = ctx.ends /\ n = Len(ctx.ends)
    BY ONLY <1>1, n = Len(ctx.ends) DEF CtxOK
  <1>3. \A i \in 1 .. Len(ends) : ends[i] <= Len(all)
    BY ONLY <1>1, <1>2 DEF CtxOK
  <1> DEFINE p == [i \in 1 .. n |-> ListPart(i)]
             q == [i \in 1 .. n + 1 |-> ListPart(i)']
  <1>5. \A i \in 1 .. n : ListPart(i) \in Seq(Chars) /\ ListPart(i)' = ListPart(i)
    BY <1>2, PartTyped, PartsKept
  <1>6. DOMAIN p = 1 .. n /\ \A i \in 1 .. n : p[i] = ListPart(i)
    OBVIOUS
  <1>7. DOMAIN q = 1 .. n + 1 /\ \A i \in 1 .. n + 1 : q[i] = ListPart(i)'
    OBVIOUS
  <1>4. (\A i \in 1 .. n : p[i] \in Seq(Chars)) => p \in [1 .. n -> Seq(Chars)]
    BY ONLY SMT, SMTT(30)
  <1>17. (\A i \in 1 .. n + 1 : q[i] \in Seq(Chars)) => q \in [1 .. n + 1 -> Seq(Chars)]
    BY ONLY SMT, SMTT(30)
  <1> HIDE DEF p, q
  <1>8. n + 1 \in Nat /\ n + 1 \in 1 .. n + 1 /\ \A i \in 1 .. n : i \in 1 .. n + 1
    BY ONLY n \in Nat
  <1>9. q[n + 1] = t
    BY ONLY <1>7, <1>8, ListPart(n + 1)' = t
  <1>10. \A i \in 1 .. n : p[i] \in Seq(Chars) /\ q[i] = p[i]
    BY ONLY <1>5, <1>6, <1>7, <1>8
  <1>11. Len(p) = n
    <2>1. p \in [1 .. n -> Seq(Chars)]
      BY ONLY <1>4, <1>10
    <2> QED
      BY ONLY <2>1, n \in Nat, IsSeq
  <1>12. Len(q) = n + 1
    <2>1. \A i \in 1 .. n + 1 : q[i] \in Seq(Chars)
      <3>1. \A i \in 1 .. n + 1 : i \in 1 .. n \/ i = n + 1
        BY ONLY n \in Nat
      <3> QED
        BY ONLY <1>9, <1>10, <3>1, t \in Seq(Chars)
    <2>2. q \in [1 .. n + 1 -> Seq(Chars)]
      BY ONLY <1>17, <2>1
    <2> QED
      BY ONLY <1>8, <2>2, IsSeq
  <1>13. LaidEndToEnd(all, ends, p)
    BY ONLY <1>2, PartsLaid DEF PartsLaid, p
  <1>14. LaidEndToEnd(all \o t, Append(ends, Len(all \o t)), q)
    BY ONLY <1>3, <1>6, <1>7, <1>9, <1>10, <1>11, <1>12, <1>13, n \in Nat, t \in Seq(Chars),
            all \in Seq(Chars), ends \in Seq(Nat), LaidMore, ZenonT(30), ZenonT(60)
  <1>15. ctx'.all = all \o t /\ ctx'.ends = Append(ends, Len(all \o t))
    BY ONLY <1>2, ctx'.all = ctx.all \o t, ctx'.ends = Append(ctx.ends, Len(ctx'.all))
  <1>16. Len(ctx'.ends) = n + 1
    BY ONLY <1>12, <1>14, <1>15 DEF LaidEndToEnd
  <1> QED
    BY ONLY <1>2, <1>14, <1>15, <1>16 DEF PartsLaid, q

\* The part of an entry that is shown: the separator is there unless it is the first.
LEMMA NextPart ==
  ASSUME ListingTypes, FirstIsFirst, Kept, NEW n \in Nat, n = Len(ctx.ends), Shown(n + 1)',
         NEW sep, sep = IF list = "groups" THEN Comma ELSE NewLine,
         NEW item, item = IF list = "groups" THEN visited'[n + 1] ELSE lines'[n + 1].buf
  PROVE  ListPart(n + 1)' = Part(ctx, sep, item)
  <1>2. (n + 1) - 1 = n
    BY ONLY n \in Nat
  <1>3. \A j \in 1 .. n : Shown(j)' <=> Shown(j)
    BY ONLY n = Len(ctx.ends), ListingTypes, Kept, PartsKept
  <1>4. ctx.first <=> ~ \E j \in 1 .. (n + 1) - 1 : Shown(j)'
    BY ONLY n = Len(ctx.ends), <1>2, <1>3, FirstIsFirst DEF FirstIsFirst
  <1>5. list' = list
    BY ONLY Kept DEF Kept
  <1>6. /\ Shown(n + 1)'
        /\ item = IF list' = "groups" THEN visited'[n + 1] ELSE lines'[n + 1].buf
        /\ sep = IF list' = "groups" THEN Comma ELSE NewLine
    BY <1>5
  <1>7. ListPart(n + 1)' = IF ~Shown(n + 1)' THEN << >>
                           ELSE IF \E j \in 1 .. (n + 1) - 1 : Shown(j)' THEN sep \o item ELSE item
    BY ONLY <1>6 DEF ListPart
  <1>8. ListPart(n + 1)' = IF ctx.first THEN item ELSE sep \o item
    BY ONLY <1>4, <1>6, <1>7
  <1> QED
    BY ONLY <1>8 DEF Part

\* The two appenders, on an entry that is shown.
LEMMA EntryShown ==
  ASSUME ListingTypes, FirstIsFirst, PartsLaid, Kept, NEW n \in Nat, n = Len(ctx.ends), Shown(n + 1)',
         NEW sep, sep = IF list = "groups" THEN Comma ELSE NewLine,
         NEW item, item = IF list = "groups" THEN visited'[n + 1] ELSE lines'[n + 1].buf,
         item \in Seq(Chars), ctx.more, ctx' = AppendItem(ctx, bufSize, sep, item)
  PROVE  /\ CtxOK(ctx', bufSize)
         /\ Len(ctx'.ends) = n + 1
         /\ FirstIsFirst'
         /\ PartsLaid'
  <1>1. sep \in Seq(Chars)
    BY EntriesSeen
  <1>2. CtxOK(ctx, bufSize) /\ bufSize \in Nat \ {0}
    BY ONLY ListingTypes DEF ListingTypes
  <1> DEFINE t == Part(ctx, sep, item)
  <1>3. /\ CtxOK(ctx', bufSize) /\ t \in Seq(Chars) /\ ctx'.all = ctx.all \o t
        /\ ctx'.ends = Append(ctx.ends, Len(ctx'.all)) /\ ctx'.first = FALSE
    BY ONLY <1>1, <1>2, item \in Seq(Chars), ctx.more, ctx' = AppendItem(ctx, bufSize, sep, item), Appended, ZenonT(30), ZenonT(60)
  <1>4. ListPart(n + 1)' = t
    BY NextPart
  <1> HIDE DEF t
  <1>5. PartsLaid' /\ Len(ctx'.ends) = n + 1
    BY ONLY <1>3, <1>4, ListingTypes, PartsLaid, Kept, n \in Nat, n = Len(ctx.ends), WalkGrows, ZenonT(30), ZenonT(60)
  <1>6. n + 1 \in 1 .. n + 1
    BY ONLY n \in Nat
  <1>7. FirstIsFirst'
    BY ONLY <1>3, <1>5, <1>6, Shown(n + 1)' DEF FirstIsFirst
  <1> QED
    BY ONLY <1>3, <1>5, <1>7

\* An entry more, and what it leaves of the others.
LEMMA VisitedMore ==
  ASSUME ListingTypes, NEW e \in todo, Visit(e)
  PROVE  /\ e \in Entries /\ Entries' = Entries
         /\ list' = list /\ bufSize' = bufSize
         /\ itr = 0 /\ ctx.more
         /\ todo' \subseteq Entries
         /\ visited' \in Seq(Entries)
         /\ Len(visited) = Len(ctx.ends)
         /\ Len(visited') = Len(visited) + 1
         /\ visited'[Len(visited')] = e
         /\ visited'[Len(visited) + 1] = e
         /\ \A i \in 1 .. Len(visited) : visited'[i] = visited[i]
  <1>1. /\ list' = list /\ bufSize' = bufSize /\ itr = 0 /\ ctx.more
        /\ todo' = todo \ {e} /\ visited' = Append(visited, e)
    BY ONLY Visit(e) DEF Visit
  <1>2. todo \subseteq Entries /\ visited \in Seq(Entries) /\ Len(visited) = Len(ctx.ends)
    BY ONLY <1>1, ListingTypes DEF ListingTypes
  <1>3. e \in Entries /\ todo' \subseteq Entries
    BY ONLY <1>1, <1>2, e \in todo
  <1>4. Entries' = Entries
    BY ONLY <1>1 DEF Entries
  <1>5. /\ visited' \in Seq(Entries) /\ Len(visited') = Len(visited) + 1
        /\ visited'[Len(visited) + 1] = e /\ \A i \in 1 .. Len(visited) : visited'[i] = visited[i]
    BY ONLY <1>1, <1>2, <1>3
  <1> QED
    BY ONLY <1>1, <1>2, <1>3, <1>4, <1>5

\* appendGroupName keeps the invariant.
LEMMA GroupStep ==
  ASSUME ListingInv, NEW g \in todo, appendGroupName(g)
  PROVE  ListingInv'
  <1>1. ListingTypes /\ FirstIsFirst /\ PartsLaid
    BY ONLY ListingInv DEF ListingInv
  <1>2. /\ list = "groups" /\ Visit(g) /\ ctx' = AppendItem(ctx, bufSize, Comma, g)
        /\ itr' = itr /\ line' = line /\ lines' = lines
    BY ONLY appendGroupName(g) DEF appendGroupName
  <1>3. /\ g \in Entries /\ Entries' = Entries
        /\ list' = list /\ bufSize' = bufSize
        /\ itr = 0 /\ ctx.more
        /\ todo' \subseteq Entries
        /\ visited' \in Seq(Entries)
        /\ Len(visited) = Len(ctx.ends)
        /\ Len(visited') = Len(visited) + 1
        /\ visited'[Len(visited) + 1] = g
        /\ \A i \in 1 .. Len(visited) : visited'[i] = visited[i]
    BY ONLY <1>1, <1>2, g \in todo, VisitedMore
  <1>4. PICK n \in Nat : n = Len(ctx.ends)
    BY <1>1, EntriesSeen
  <1>5. g \in Seq(Chars)
    BY ONLY <1>2, <1>3, ListingAssumption DEF Entries
  <1>6. Kept
    BY ONLY <1>2, <1>3 DEF Kept
  <1>7. Shown(n + 1)'
    BY ONLY <1>2, <1>3 DEF Shown
  <1>8. CtxOK(ctx', bufSize) /\ Len(ctx'.ends) = n + 1 /\ FirstIsFirst' /\ PartsLaid'
    <2>1. /\ Comma = IF list = "groups" THEN Comma ELSE NewLine
          /\ g = IF list = "groups" THEN visited'[n + 1] ELSE lines'[n + 1].buf
      BY ONLY <1>2, <1>3, <1>4
    <2> QED
      BY ONLY <1>1, <1>2, <1>3, <1>4, <1>5, <1>6, <1>7, <2>1, EntryShown
  <1>9. /\ bufSize \in Nat \ {0} /\ lines \in Seq(Contexts) /\ CtxOK(line, LineSize)
        /\ lines = << >>
    BY ONLY <1>1, <1>2 DEF ListingTypes
  <1>10. ListingTypes'
    <2>1. /\ list' = list /\ list = "groups" /\ bufSize' = bufSize /\ itr' = 0
          /\ todo' \subseteq Entries' /\ visited' \in Seq(Entries') /\ Len(visited') = n + 1 /\ lines' = lines /\ line' = line
      BY ONLY <1>2, <1>3, <1>4
    <2> QED
      BY ONLY <1>8, <1>9, <2>1 DEF ListingTypes
  <1>11. LinesAreCut' /\ LineUnderWay'
    BY ONLY <1>2, <1>3, <1>9 DEF LinesAreCut, LineUnderWay
  <1> QED
    BY ONLY <1>8, <1>10, <1>11 DEF ListingInv

\* A line more.
LEMMA LinesMore ==
  ASSUME ListingTypes, LinesAreCut, list = "users", NEW l \in Contexts, lines' = Append(lines, l),
         NEW n \in Nat, n = Len(ctx.ends), \A i \in 1 .. n : visited'[i] = visited[i],
         NEW u, visited'[n + 1] = u, Fits(u) => LineIsCut(u, l)
  PROVE  /\ lines' \in Seq(Contexts)
         /\ Len(lines') = n + 1
         /\ \A i \in 1 .. n : lines'[i] = lines[i]
         /\ lines'[n + 1] = l
         /\ LinesAreCut'
  <1>1. lines \in Seq(Contexts) /\ Len(lines) = n
    BY DEF ListingTypes
  <1>2. /\ lines' \in Seq(Contexts) /\ Len(lines') = n + 1
        /\ \A i \in 1 .. n : lines'[i] = lines[i]
        /\ lines'[n + 1] = l
    BY ONLY <1>1, l \in Contexts, lines' = Append(lines, l)
  <1>3. ASSUME NEW i \in 1 .. n + 1, Fits(visited'[i]) PROVE LineIsCut(visited'[i], lines'[i])
    <2>1. i \in 1 .. n \/ i = n + 1
      BY ONLY n \in Nat, i \in 1 .. n + 1
    <2>2. CASE i \in 1 .. n
      <3>1. visited'[i] = visited[i] /\ lines'[i] = lines[i]
        BY <1>2, <2>2
      <3> QED
        BY ONLY <1>1, <1>3, <2>2, <3>1, LinesAreCut DEF LinesAreCut
    <2>3. CASE i = n + 1
      BY ONLY <1>2, <1>3, <2>3, visited'[n + 1] = u, Fits(u) => LineIsCut(u, l)
    <2> QED
      BY ONLY <2>1, <2>2, <2>3
  <1>4. \A i \in 1 .. n + 1 : Fits(visited'[i]) => LineIsCut(visited'[i], lines'[i])
    BY <1>3, ZenonT(30), ZenonT(60)
  <1>5. LinesAreCut'
    BY ONLY <1>2, <1>4, ZenonT(30), ZenonT(60) DEF LinesAreCut, Fits, NamePart, LineIsCut, LineParts
  <1> QED
    BY ONLY <1>2, <1>5

\* A user skipped leaves the text as it is.
LEMMA CtxSkips ==
  ASSUME NEW c, NEW size, CtxOK(c, size), NEW d, d = [c EXCEPT !.ends = Append(@, Len(c.all))]
  PROVE  CtxOK(d, size) /\ d.all = c.all \o << >> /\ d.ends = Append(c.ends, Len(d.all)) /\ d.first = c.first
         /\ d.more = c.more
  <1>1. c \in Contexts
    BY DEF CtxOK
  <1>2. /\ d.buf = c.buf /\ d.offset = c.offset /\ d.first = c.first /\ d.more = c.more /\ d.all = c.all
        /\ d.ends = Append(c.ends, Len(c.all))
    BY <1>1 DEF Contexts
  <1>3. c.all \in Seq(Chars) /\ c.ends \in Seq(Nat)
    BY ONLY CtxOK(c, size) DEF CtxOK
  <1>4. c.all \o << >> = c.all /\ Len(c.all) \in Nat
    BY ONLY <1>3
  <1>5. d.ends \in Seq(Nat) /\ \A i \in 1 .. Len(d.ends) : d.ends[i] <= Len(d.all)
    <2>1. \A i \in 1 .. Len(c.ends) : c.ends[i] <= Len(c.all)
      BY ONLY CtxOK(c, size) DEF CtxOK
    <2> QED
      BY ONLY <1>2, <1>3, <1>4, <2>1
  <1>6. d \in Contexts
    BY ONLY <1>1, <1>2, <1>5, d = [c EXCEPT !.ends = Append(@, Len(c.all))], ZenonT(30), ZenonT(60) DEF Contexts
  <1>7. CtxOK(d, size)
    BY ONLY <1>2, <1>5, <1>6, CtxOK(c, size) DEF CtxOK
  <1> QED
    BY ONLY <1>2, <1>4, <1>7

\* An empty buffer (a_buf[0] = '\0').
LEMMA FreshIs ==
  ASSUME NEW size \in Nat \ {0}
  PROVE  CtxOK(Fresh, size)
  <1>1. << >> \in Seq(Chars) /\ << >> \in Seq(Nat) /\ Len(<< >>) = 0
    OBVIOUS
  <1>2. Fresh \in Contexts
    BY ONLY <1>1 DEF Fresh, Contexts
  <1>3. size - 1 \in Nat
    OBVIOUS
  <1>4. Cut(<< >>, size - 1) = << >>
    <2>1. PICK e \in Seq(Chars) : e = << >> /\ Len(e) = 0
      BY ONLY <1>1, ZenonT(30), ZenonT(60)
    <2>2. Len(e) <= size - 1
      BY ONLY <1>3, <2>1
    <2>3. Cut(e, size - 1) = e
      BY ONLY <1>3, <2>2, e \in Seq(Chars), CutIs
    <2> QED
      BY ONLY <2>1, <2>3
  <1> QED
    BY <1>1, <1>2, <1>4 DEF CtxOK, Fresh

\* AppendUserGroupsLine keeps it when it skips a user.
LEMMA SkipStep ==
  ASSUME ListingInv, NEW u \in todo, SkipUser(u)
  PROVE  ListingInv'
  <1>1. ListingTypes /\ FirstIsFirst /\ PartsLaid /\ LinesAreCut
    BY ONLY ListingInv DEF ListingInv
  <1>2. /\ list = "users" /\ Visit(u) /\ ~Fits(u) /\ ctx' = [ctx EXCEPT !.ends = Append(@, Len(ctx.all))]
        /\ itr' = itr /\ line' = line /\ lines' = Append(lines, Fresh)
    BY ONLY SkipUser(u) DEF SkipUser
  <1>3. /\ u \in Entries /\ Entries' = Entries
        /\ list' = list /\ bufSize' = bufSize
        /\ itr = 0 /\ ctx.more
        /\ todo' \subseteq Entries
        /\ visited' \in Seq(Entries)
        /\ Len(visited) = Len(ctx.ends)
        /\ Len(visited') = Len(visited) + 1
        /\ visited'[Len(visited) + 1] = u
        /\ \A i \in 1 .. Len(visited) : visited'[i] = visited[i]
    BY ONLY <1>1, <1>2, u \in todo, VisitedMore
  <1>4. PICK n \in Nat : n = Len(ctx.ends)
    BY <1>1, EntriesSeen
  <1>5. /\ bufSize \in Nat \ {0} /\ CtxOK(ctx, bufSize) /\ CtxOK(line, LineSize)
    BY ONLY <1>1 DEF ListingTypes
  <1>6. Fresh \in Contexts
    BY ONLY <1>5, FreshIs, ZenonT(30), ZenonT(60) DEF CtxOK
  <1>7. /\ lines' \in Seq(Contexts) /\ Len(lines') = n + 1 /\ \A i \in 1 .. n : lines'[i] = lines[i]
        /\ LinesAreCut'
    BY ONLY <1>1, <1>2, <1>3, <1>4, <1>6, LinesMore
  <1>8. Kept
    BY ONLY <1>2, <1>3, <1>4, <1>7 DEF Kept
  <1>9. /\ CtxOK(ctx', bufSize) /\ ctx'.all = ctx.all \o << >> /\ ctx'.ends = Append(ctx.ends, Len(ctx'.all))
        /\ ctx'.first = ctx.first
    BY ONLY <1>2, <1>5, CtxSkips
  <1>10. ~Shown(n + 1)'
    BY ONLY <1>2, <1>3, <1>4, ZenonT(30), ZenonT(60) DEF Shown, Fits, NamePart
  <1>11. ListPart(n + 1)' = << >> /\ << >> \in Seq(Chars)
    BY ONLY <1>10 DEF ListPart
  <1>12. PartsLaid' /\ Len(ctx'.ends) = n + 1
    BY ONLY <1>1, <1>4, <1>8, <1>9, <1>11, WalkGrows, ZenonT(30), ZenonT(60)
  <1>13. FirstIsFirst'
    <2>1. \A j \in 1 .. n : Shown(j)' <=> Shown(j)
      BY ONLY <1>1, <1>4, <1>8, PartsKept
    <2>2. \A j \in 1 .. n + 1 : j \in 1 .. n \/ j = n + 1
      BY ONLY n \in Nat
    <2>3. \A j \in 1 .. n : j \in 1 .. n + 1
      BY ONLY n \in Nat
    <2>4. (\A j \in 1 .. n + 1 : ~Shown(j)') <=> (\A j \in 1 .. n : ~Shown(j))
      BY ONLY <1>10, <2>1, <2>2, <2>3
    <2> QED
      BY ONLY <1>1, <1>4, <1>9, <1>12, <2>4 DEF FirstIsFirst
  <1>14. ListingTypes'
    BY ONLY <1>2, <1>3, <1>4, <1>5, <1>7, <1>9, <1>12 DEF ListingTypes
  <1>15. LineUnderWay'
    BY ONLY <1>2, <1>3 DEF LineUnderWay
  <1> QED
    BY ONLY <1>7, <1>12, <1>13, <1>14, <1>15 DEF ListingInv

\* FormatUserGroupsLine keeps it: nothing is added to the listing yet.
LEMMA BeginStep ==
  ASSUME ListingInv, NEW u \in todo, FormatUserGroupsLine(u)
  PROVE  ListingInv'
  <1>1. ListingTypes /\ FirstIsFirst /\ PartsLaid /\ LinesAreCut
    BY ONLY ListingInv DEF ListingInv
  <1> DEFINE start == [Fresh EXCEPT !.buf = NamePart(u), !.offset = Len(NamePart(u)),
                                    !.all = NamePart(u), !.ends = <<Len(NamePart(u))>>]
  <1>2. /\ list = "users" /\ Visit(u) /\ Fits(u)
        /\ line' = IF u.groups = << >> THEN AppendItem(start, LineSize, Comma, None) ELSE start
        /\ itr' = 1 /\ ctx' = ctx /\ lines' = lines
    BY ONLY FormatUserGroupsLine(u) DEF FormatUserGroupsLine
  <1>3. /\ u \in Entries /\ Entries' = Entries
        /\ list' = list /\ bufSize' = bufSize
        /\ itr = 0 /\ ctx.more
        /\ todo' \subseteq Entries
        /\ visited' \in Seq(Entries)
        /\ Len(visited) = Len(ctx.ends)
        /\ Len(visited') = Len(visited) + 1
        /\ visited'[Len(visited')] = u
        /\ \A i \in 1 .. Len(visited) : visited'[i] = visited[i]
    BY ONLY <1>1, <1>2, u \in todo, VisitedMore
  <1>4. u \in Users
    BY ONLY <1>2, <1>3 DEF Entries
  <1>5. CtxOK(line', LineSize) /\ LineBegun(u, line', 1)
    BY ONLY <1>2, <1>4, LineBegins, ZenonT(30), ZenonT(60)
  <1> HIDE DEF start
  <1>6. /\ bufSize \in Nat \ {0} /\ lines \in Seq(Contexts) /\ CtxOK(ctx, bufSize) /\ Len(lines) = Len(ctx.ends)
    BY ONLY <1>1, <1>2 DEF ListingTypes
  <1>7. ListingTypes'
    BY ONLY <1>2, <1>3, <1>5, <1>6 DEF ListingTypes
  <1>8. Kept
    BY ONLY <1>2, <1>3 DEF Kept
  <1>9. PICK n \in Nat : n = Len(ctx.ends) /\ n = Len(ctx'.ends)
    BY <1>1, <1>2, EntriesSeen
  <1>10. \A i \in 1 .. n : ListPart(i)' = ListPart(i) /\ (Shown(i)' <=> Shown(i))
    BY ONLY <1>1, <1>8, <1>9, PartsKept
  <1>11. FirstIsFirst'
    BY ONLY <1>1, <1>2, <1>9, <1>10 DEF FirstIsFirst
  <1>12. PartsLaid'
    <2>1. [i \in 1 .. n |-> ListPart(i)'] = [i \in 1 .. n |-> ListPart(i)]
      BY ONLY <1>10
    <2> QED
      BY ONLY <1>1, <1>2, <1>9, <2>1 DEF PartsLaid
  <1>13. LinesAreCut'
    <2>1. \A i \in 1 .. Len(lines) : visited'[i] = visited[i]
      BY ONLY <1>3, <1>6
    <2>2. \A i \in 1 .. Len(lines) : Fits(visited'[i]) => LineIsCut(visited'[i], lines[i])
      BY ONLY <1>1, <2>1 DEF LinesAreCut
    <2> QED
      BY ONLY <1>2, <2>2, ZenonT(30), ZenonT(60) DEF LinesAreCut, Fits, NamePart, LineIsCut, LineParts
  <1>14. LineUnderWay'
    <2>1. Fits(visited'[Len(visited')]) /\ LineBegun(visited'[Len(visited')], line', itr')
      BY ONLY <1>2, <1>3, <1>5
    <2> QED
      BY ONLY <2>1 DEF LineUnderWay, Fits, NamePart, LineBegun, LineParts
  <1> QED
    BY ONLY <1>7, <1>11, <1>12, <1>13, <1>14 DEF ListingInv

\* The user whose line is being made.
LEMMA LineOfUser ==
  ASSUME ListingInv, itr # 0
  PROVE  /\ list = "users" /\ ctx.more
         /\ Len(visited) = Len(ctx.ends) + 1
         /\ visited[Len(visited)] \in Users
         /\ Groups = visited[Len(visited)].groups
         /\ Fits(visited[Len(visited)])
         /\ LineBegun(visited[Len(visited)], line, itr)
         /\ CtxOK(line, LineSize)
  <1>1. /\ list = "users" /\ ctx.more /\ Len(visited) = Len(ctx.ends) + 1 /\ CtxOK(line, LineSize)
        /\ visited \in Seq(Entries)
    BY ONLY ListingInv, itr # 0 DEF ListingInv, ListingTypes
  <1>2. Len(ctx.ends) \in Nat
    BY ONLY ListingInv, EntriesSeen DEF ListingInv
  <1>3. Len(visited) \in 1 .. Len(visited)
    BY ONLY <1>1, <1>2
  <1>4. visited[Len(visited)] \in Entries
    BY ONLY <1>1, <1>3
  <1>5. visited[Len(visited)] \in Users
    BY ONLY <1>1, <1>4 DEF Entries
  <1>6. Fits(visited[Len(visited)]) /\ LineBegun(visited[Len(visited)], line, itr)
    BY ONLY ListingInv, itr # 0 DEF ListingInv, LineUnderWay
  <1> QED
    BY ONLY <1>1, <1>5, <1>6 DEF Groups

\* So does a turn of its loop.
LEMMA GoOnStep ==
  ASSUME ListingInv, FormatGroupName
  PROVE  ListingInv'
  <1>1. /\ itr > 0 /\ itr \in DOMAIN Groups /\ line.more
        /\ line' = AppendItem(line, LineSize, Comma, Groups[itr]) /\ itr' = itr + 1
        /\ list' = list /\ bufSize' = bufSize /\ todo' = todo /\ visited' = visited
        /\ ctx' = ctx /\ lines' = lines
    BY ONLY FormatGroupName DEF FormatGroupName
  <1>2. ListingTypes /\ FirstIsFirst /\ PartsLaid /\ LinesAreCut
    BY ONLY ListingInv DEF ListingInv
  <1>3. itr \in Nat /\ itr # 0 /\ itr' \in Nat /\ itr' # 0
    BY ONLY <1>1, <1>2 DEF ListingTypes
  <1>4. PICK u \in Users : /\ u = visited[Len(visited)] /\ Groups = u.groups /\ Fits(u)
                           /\ LineBegun(u, line, itr) /\ CtxOK(line, LineSize)
    BY ONLY <1>3, ListingInv, LineOfUser
  <1>5. CtxOK(line', LineSize) /\ LineBegun(u, line', itr')
    BY ONLY <1>1, <1>4, LineGoesOn
  <1>6. ListingTypes'
    BY ONLY <1>1, <1>2, <1>3, <1>5 DEF ListingTypes, Entries
  <1>7. FirstIsFirst' /\ PartsLaid' /\ LinesAreCut'
    BY ONLY <1>1, <1>2, ZenonT(30), ZenonT(60) DEF FirstIsFirst, PartsLaid, LinesAreCut, ListPart, Shown, Fits, NamePart, LineIsCut, LineParts
  <1>8. LineUnderWay'
    <2>1. Fits(visited'[Len(visited')]) /\ LineBegun(visited'[Len(visited')], line', itr')
      BY ONLY <1>1, <1>4, <1>5
    <2> QED
      BY ONLY <2>1 DEF LineUnderWay, Fits, NamePart, LineBegun, LineParts
  <1> QED
    BY ONLY <1>6, <1>7, <1>8 DEF ListingInv

\* AppendUserGroupsLine keeps it when it adds the line.
LEMMA EndStep ==
  ASSUME ListingInv, AppendUserGroupsLine
  PROVE  ListingInv'
  <1>1. /\ itr > 0 /\ (itr \in DOMAIN Groups => ~line.more)
        /\ ctx' = AppendItem(ctx, bufSize, NewLine, line.buf) /\ lines' = Append(lines, line) /\ itr' = 0
        /\ list' = list /\ bufSize' = bufSize /\ todo' = todo /\ visited' = visited /\ line' = line
    BY ONLY AppendUserGroupsLine DEF AppendUserGroupsLine
  <1>2. ListingTypes /\ FirstIsFirst /\ PartsLaid /\ LinesAreCut
    BY ONLY ListingInv DEF ListingInv
  <1>3. itr \in Nat /\ itr # 0
    BY ONLY <1>1, <1>2 DEF ListingTypes
  <1>4. PICK n \in Nat : n = Len(ctx.ends)
    BY ONLY <1>2, EntriesSeen
  <1>5. PICK u \in Users : /\ u = visited[Len(visited)] /\ Groups = u.groups /\ Fits(u)
                           /\ LineBegun(u, line, itr) /\ CtxOK(line, LineSize)
    BY ONLY <1>3, ListingInv, LineOfUser
  <1>6. list = "users" /\ ctx.more /\ Len(visited) = n + 1 /\ visited[n + 1] = u
    BY ONLY <1>3, <1>4, <1>5, ListingInv, LineOfUser
  <1>7. LineIsCut(u, line)
    BY ONLY <1>1, <1>5, LineEnds
  <1>8. line \in Contexts /\ line.buf \in Seq(Chars)
    <2>1. LineSize \in Nat \ {0}
      BY ONLY <1>2, EntriesSeen
    <2> QED
      BY ONLY <1>5, <2>1, CtxFits, ZenonT(30), ZenonT(60) DEF CtxOK
  <1>9. /\ lines' \in Seq(Contexts) /\ Len(lines') = n + 1 /\ \A i \in 1 .. n : lines'[i] = lines[i]
        /\ lines'[n + 1] = line /\ LinesAreCut'
    BY ONLY <1>1, <1>2, <1>4, <1>6, <1>7, <1>8, LinesMore
  <1>10. Kept
    BY ONLY <1>1, <1>4, <1>9 DEF Kept
  <1>11. Shown(n + 1)'
    BY ONLY <1>1, <1>5, <1>6 DEF Shown, Fits, NamePart
  <1>12. CtxOK(ctx', bufSize) /\ Len(ctx'.ends) = n + 1 /\ FirstIsFirst' /\ PartsLaid'
    <2>1. /\ NewLine = IF list = "groups" THEN Comma ELSE NewLine
          /\ line.buf = IF list = "groups" THEN visited'[n + 1] ELSE lines'[n + 1].buf
      BY ONLY <1>6, <1>9
    <2> QED
      BY ONLY <1>1, <1>2, <1>4, <1>6, <1>8, <1>10, <1>11, <2>1, EntryShown, ZenonT(30), ZenonT(60)
  <1>13. ListingTypes'
    <2>1. bufSize \in Nat \ {0} /\ todo \subseteq Entries /\ visited \in Seq(Entries)
      BY ONLY <1>2 DEF ListingTypes
    <2>2. Entries' = Entries
      BY ONLY <1>1 DEF Entries
    <2> QED
      BY ONLY <1>1, <1>5, <1>6, <1>9, <1>12, <2>1, <2>2 DEF ListingTypes
  <1>14. LineUnderWay'
    BY ONLY <1>1 DEF LineUnderWay
  <1> QED
    BY ONLY <1>9, <1>12, <1>13, <1>14 DEF ListingInv

\* It holds before the first entry is visited.
LEMMA ListingStarts ==
  ASSUME ListingInit
  PROVE  ListingInv
  <1>1. /\ list \in {"groups", "users"} /\ todo \subseteq Entries /\ bufSize \in BufSizes
        /\ visited = << >> /\ ctx = Fresh /\ itr = 0 /\ line = Fresh /\ lines = << >>
    BY ONLY ListingInit DEF ListingInit, FormatAllUsersAndGroups, FormatGroupList, Entries
  <1>2. bufSize \in Nat \ {0} /\ LineSize \in Nat \ {0}
    BY ONLY <1>1, ListingAssumption
  <1>3. CtxOK(ctx, bufSize) /\ CtxOK(line, LineSize)
    BY ONLY <1>1, <1>2, FreshIs
  <1>4. ctx.ends = << >> /\ ctx.all = << >> /\ ctx.first = TRUE
    BY ONLY <1>1 DEF Fresh
  <1>5. /\ visited \in Seq(Entries) /\ lines \in Seq(Contexts) /\ Len(visited) = 0 /\ Len(lines) = 0
        /\ Len(ctx.ends) = 0
    BY ONLY <1>1, <1>4
  <1>6. ListingTypes
    BY ONLY <1>1, <1>2, <1>3, <1>5 DEF ListingTypes
  <1>7. \A j \in 1 .. 0 : FALSE
    OBVIOUS
  <1>8. FirstIsFirst /\ LinesAreCut /\ LineUnderWay
    BY ONLY <1>1, <1>4, <1>5, <1>7 DEF FirstIsFirst, LinesAreCut, LineUnderWay
  <1>9. PartsLaid
    <2> DEFINE p == [i \in 1 .. 0 |-> ListPart(i)]
    <2>1. DOMAIN p = 1 .. 0 /\ (\A i \in 1 .. 0 : p[i] \in Seq(Chars)) /\ p \in [1 .. 0 -> Seq(Chars)]
      BY ONLY <1>7
    <2>2. Len(p) = 0
      BY ONLY <2>1, IsSeq
    <2> HIDE DEF p
    <2>3. LaidEndToEnd(ctx.all, ctx.ends, p)
      BY ONLY <1>4, <1>5, <1>7, <2>1, <2>2 DEF LaidEndToEnd, EndOf
    <2> QED
      BY ONLY <1>5, <2>3 DEF PartsLaid, p
  <1> QED
    BY ONLY <1>6, <1>8, <1>9 DEF ListingInv

\* The inductive invariant holds throughout: one step of the proof per action.
LEMMA ListingInvariance == ListingSpec => []ListingInv
  <1>1. ListingInit => ListingInv
    BY ListingStarts
  <1>2. ListingInv /\ [ListingNext]_listingVars => ListingInv'
    <2> SUFFICES ASSUME ListingInv, [ListingNext]_listingVars PROVE ListingInv'
      OBVIOUS
    <2>1. ASSUME NEW e \in todo, appendGroupName(e) PROVE ListingInv'
      BY <2>1, GroupStep
    <2>2. ASSUME NEW e \in todo, SkipUser(e) PROVE ListingInv'
      BY <2>2, SkipStep
    <2>3. ASSUME NEW e \in todo, FormatUserGroupsLine(e) PROVE ListingInv'
      BY <2>3, BeginStep
    <2>4. CASE FormatGroupName
      BY <2>4, GoOnStep
    <2>5. CASE AppendUserGroupsLine
      BY <2>5, EndStep
    <2>6. CASE UNCHANGED listingVars
      BY <2>6, ZenonT(30), ZenonT(60) DEF listingVars, ListingInv, ListingTypes, Entries, FirstIsFirst, PartsLaid, LinesAreCut,
                  LineUnderWay, ListPart, Shown, Fits, NamePart, LineIsCut, LineParts, LineBegun
    <2> QED
      BY ONLY <2>1, <2>2, <2>3, <2>4, <2>5, <2>6, [ListingNext]_listingVars DEF ListingNext
  <1> QED
    BY <1>1, <1>2, PTL DEF ListingSpec

\* Neither listing, nor the line of a user, leaves its buffer, and no size handed to
\* snprintf() wraps (appendGroupName, AppendUserGroupsLine, FormatUserGroupsLine), for
\* any names, users and buffer sizes.
THEOREM ListingFitsCorrect == ListingSpec => []ListingFits
  <1>1. ListingInv => ListingFits
    <2> SUFFICES ASSUME ListingInv PROVE ListingFits
      OBVIOUS
    <2>1. CtxOK(ctx, bufSize) /\ CtxOK(line, LineSize) /\ bufSize \in Nat \ {0} /\ LineSize \in Nat \ {0}
      BY ListingAssumption DEF ListingInv, ListingTypes
    <2>2. Len(ctx.buf) < bufSize /\ Len(line.buf) < LineSize
      BY ONLY <2>1, CtxFits
    <2>3. ctx.offset <= Len(ctx.buf) /\ line.offset <= Len(line.buf)
      BY ONLY <2>1 DEF CtxOK
    <2> QED
      BY ONLY <2>2, <2>3 DEF ListingFits
  <1> QED
    BY <1>1, ListingInvariance, PTL

\* A listing is the whole text of the entries visited, cut once, and so is every line in
\* it (appendGroupName, AppendUserGroupsLine, FormatUserGroupsLine), for any names, users
\* and buffer sizes.
THEOREM ListingIsCutCorrect == ListingSpec => []ListingIsCut
  <1>1. ListingInv => ListingIsCut
    <2> SUFFICES ASSUME ListingInv PROVE ListingIsCut
      OBVIOUS
    <2>1. ListingTypes /\ PartsLaid /\ LinesAreCut
      BY DEF ListingInv
    <2>2. /\ CtxOK(ctx, bufSize) /\ bufSize \in Nat \ {0} /\ visited \in Seq(Entries) /\ lines \in Seq(Contexts)
          /\ itr = 0 => Len(visited) = Len(ctx.ends)
      BY ONLY <2>1 DEF ListingTypes
    <2>3. ctx.buf = Cut(ctx.all, bufSize - 1) /\ (~ctx.more => Len(ctx.buf) = bufSize - 1)
      BY ONLY <2>2, CtxFits, ZenonT(30), ZenonT(60) DEF CtxOK
    <2>4. DOMAIN visited = 1 .. Len(visited) /\ DOMAIN lines = 1 .. Len(lines)
      BY ONLY <2>2
    <2>5. itr = 0 => LaidEndToEnd(ctx.all, ctx.ends, [i \in DOMAIN visited |-> ListPart(i)])
      BY ONLY <2>1, <2>2, <2>4, SMTT(30), SMTT(60) DEF PartsLaid
    <2>6. \A i \in DOMAIN lines : Fits(visited[i]) => LineIsCut(visited[i], lines[i])
      BY ONLY <2>1, <2>4 DEF LinesAreCut
    <2> QED
      BY ONLY <2>3, <2>5, <2>6 DEF ListingIsCut
  <1> QED
    BY <1>1, ListingInvariance, PTL

-----------------------------------------------------------------------------
\* Chars cover what the header fields are cast to.
LEMMA CharRange ==
  ASSUME NEW n \in Nat, n < 256
  PROVE  /\ ToChar(n) = (IF n < 128 THEN n ELSE n - 256)
         /\ ToChar(n) \in Int
         /\ ToUint8(ToChar(n)) = n
  BY DEF ToChar, ToUint8

\* A 16-bit number and its two bytes.
LEMMA TwoBytes ==
  ASSUME NEW n \in Nat, n \div 256 < 256
  PROVE  /\ n \div 256 \in Nat /\ n \div 256 < 256
         /\ n % 256 \in Nat /\ n % 256 < 256
         /\ n = 256 * (n \div 256) + (n % 256)
  OBVIOUS

\* The value of buf[1] | (buf[2] << 8), as a uint16_t, for the bytes q and r of n.
LEMMA OrOfChars ==
  ASSUME NEW q \in Nat, q < 256, NEW r \in Nat, r < 256, NEW n \in Nat, n = 256 * q + r,
         NEW lo \in Int, lo = (IF r < 128 THEN r ELSE r - 256),
         NEW hi \in Int, hi = (IF q < 128 THEN q ELSE q - 256)
  PROVE  /\ r < 128 => (lo + 256 * hi) % 65536 = n /\ lo >= 0
         /\ r >= 128 => lo % 65536 > 256 /\ lo < 0
  OBVIOUS

\* The length field is read back when its low byte is below 128; any other is read
\* as a number that Chat_Validate refuses (NetworkProtocol.h:142).
LEMMA LengthRoundTrip ==
  ASSUME NEW n \in Nat, n \div 256 < 256, NEW buf,
         buf[2] = ToChar(n % 256), buf[3] = ToChar(n \div 256)
  PROVE  /\ n % 256 < 128 => Chat_GetLength(buf) = n
         /\ n % 256 >= 128 => Chat_GetLength(buf) > CHAT_MAX_VALUE
         /\ Chat_GetLength(buf) \in Int
  <1> DEFINE q == n \div 256
             r == n % 256
  <1>1. q \in Nat /\ q < 256 /\ r \in Nat /\ r < 256 /\ n = 256 * q + r
    BY ONLY TwoBytes, n \in Nat, n \div 256 < 256
  <1>2. buf[2] = ToChar(r) /\ buf[3] = ToChar(q)
    OBVIOUS
  <1> HIDE DEF q, r
  <1>3. ToChar(q) = (IF q < 128 THEN q ELSE q - 256) /\ ToChar(q) \in Int
    BY <1>1, CharRange
  <1>4. ToChar(r) = (IF r < 128 THEN r ELSE r - 256) /\ ToChar(r) \in Int
    BY <1>1, CharRange
  <1>5. /\ r < 128 => (ToChar(r) + 256 * ToChar(q)) % 65536 = n /\ ToChar(r) >= 0
        /\ r >= 128 => ToChar(r) % 65536 > 256 /\ ToChar(r) < 0
    BY <1>1, <1>3, <1>4, OrOfChars
  <1>6. r < 128 => Chat_GetLength(buf) = n
    BY <1>2, <1>4, <1>5 DEF Chat_GetLength
  <1>7. r >= 128 => Chat_GetLength(buf) > 256
    BY <1>2, <1>4, <1>5 DEF Chat_GetLength
  <1>8. Chat_GetLength(buf) \in Int
    BY <1>2, <1>3, <1>4 DEF Chat_GetLength
  <1>9. QED
    BY <1>6, <1>7, <1>8 DEF r, CHAT_MAX_VALUE

\* The chars of a concatenation.
LEMMA Concatenation ==
  ASSUME NEW s \in Seq(Int), NEW t \in Seq(Int), NEW st, st = s \o t
  PROVE  /\ st \in Seq(Int)
         /\ Len(st) = Len(s) + Len(t)
         /\ \A i \in 1 .. Len(s) : st[i] = s[i]
         /\ \A i \in 1 .. Len(t) : st[Len(s) + i] = t[i]
  OBVIOUS

\* The length of a concatenation.
LEMMA JoinedLength ==
  \A s, t \in Seq(Int) : s \o t \in Seq(Int) /\ Len(s \o t) = Len(s) + Len(t)
  OBVIOUS

\* The first four chars of buf are h, and the value v follows.
LaidOut(h, v, buf) ==
  /\ \A i \in 1 .. 4 : buf[i] = h[i]
  /\ SubSeq(buf, 5, 4 + Len(v)) = v

\* The value is found behind a header of four chars, whatever follows it.
LEMMA LayoutOfParts ==
  ASSUME NEW h \in Seq(Int), Len(h) = 4, NEW v \in Seq(Int), NEW f, f = h \o v,
         NEW t \in Seq(Int), NEW buf, buf = f \o t
  PROVE  LaidOut(h, v, buf)
  <1>1. /\ f \in Seq(Int) /\ Len(f) = 4 + Len(v)
        /\ \A i \in 1 .. 4 : f[i] = h[i]
        /\ \A i \in 1 .. Len(v) : f[4 + i] = v[i]
    <2>1. /\ f \in Seq(Int) /\ Len(f) = Len(h) + Len(v)
          /\ \A i \in 1 .. Len(h) : f[i] = h[i]
          /\ \A i \in 1 .. Len(v) : f[Len(h) + i] = v[i]
      BY ONLY h \in Seq(Int), v \in Seq(Int), f = h \o v, Concatenation
    <2>2. QED
      BY ONLY <2>1, Len(h) = 4
  <1>2. Len(v) \in Nat /\ Len(t) \in Nat
    OBVIOUS
  <1>3. /\ buf \in Seq(Int) /\ Len(buf) = 4 + Len(v) + Len(t)
        /\ \A i \in 1 .. 4 + Len(v) : buf[i] = f[i]
    <2>1. buf \in Seq(Int) /\ Len(buf) = Len(f) + Len(t) /\ \A i \in 1 .. Len(f) : buf[i] = f[i]
      <3>1. f \in Seq(Int)
        BY ONLY <1>1
      <3>2. QED
        BY ONLY <3>1, t \in Seq(Int), buf = f \o t, Concatenation
    <2>2. QED
      BY ONLY <1>1, <2>1
  <1>4. \A i \in 1 .. Len(v) : 4 + i \in 1 .. 4 + Len(v) /\ buf[4 + i] = v[i]
    BY <1>1, <1>2, <1>3
  <1>5. SubSeq(buf, 5, 4 + Len(v)) = v
    <2> DEFINE w == SubSeq(buf, 5, 4 + Len(v))
    <2>1. w \in Seq(Int) /\ Len(w) = Len(v)
      BY ONLY <1>2, <1>3
    <2>2. \A i \in 1 .. Len(v) : w[i] = buf[4 + i]
      BY ONLY <1>2, <1>3
    <2>3. \A i \in 1 .. Len(v) : w[i] = v[i]
      BY ONLY <2>2, <1>4
    <2> HIDE DEF w
    <2>4. w = v
      BY <2>1, <2>3, SameSeq, SMTT(30), SMTT(60)
    <2>5. QED
      BY <2>4, ZenonT(30), ZenonT(60) DEF w
  <1>6. \A i \in 1 .. 4 : buf[i] = h[i]
    <2>1. \A i \in 1 .. 4 : i \in 1 .. 4 + Len(v)
      BY ONLY <1>2
    <2>2. QED
      BY ONLY <1>1, <1>3, <2>1, ZenonT(30), ZenonT(60)
  <1>7. QED
    BY ONLY <1>5, <1>6 DEF LaidOut

\* The same for a header, a value and a rest in one buffer.
LEMMA Layout ==
  \A h, v, t \in Seq(Int) : Len(h) = 4 => LaidOut(h, v, (h \o v) \o t)
  BY LayoutOfParts, ZenonT(30), ZenonT(60)

\* What the codec is given: an opcode and a status of one byte, and a value of at most
\* CHAT_MAX_VALUE bytes.
Encodable(op, st, v) ==
  /\ op \in Nat /\ op < 256
  /\ st \in Nat /\ st < 128
  /\ v \in Seq(Int) /\ Len(v) <= 256

MessageOf(op, st, v) == [opcode |-> op, length |-> Len(v), status |-> st, value |-> v]

\* The header is four chars.
LEMMA HeaderChars ==
  ASSUME NEW op, NEW st, NEW v, Encodable(op, st, v), NEW h, h = Header(MessageOf(op, st, v))
  PROVE  /\ h \in Seq(Int) /\ Len(h) = 4
         /\ h[1] = ToChar(op)
         /\ h[2] = ToChar(Len(v) % 256)
         /\ h[3] = ToChar(Len(v) \div 256)
         /\ h[4] = ToChar(st)
  <1>1. Len(v) \in Nat /\ Len(v) \div 256 < 256
    BY DEF Encodable
  <1>2. /\ Len(v) % 256 \in Nat /\ Len(v) % 256 < 256
        /\ Len(v) \div 256 \in Nat /\ Len(v) \div 256 < 256
    BY <1>1, TwoBytes
  <1>3. /\ ToChar(op) \in Int /\ ToChar(st) \in Int
        /\ ToChar(Len(v) % 256) \in Int /\ ToChar(Len(v) \div 256) \in Int
    BY <1>2, CharRange DEF Encodable
  <1>4. h = <<ToChar(op), ToChar(Len(v) % 256), ToChar(Len(v) \div 256), ToChar(st)>>
    BY DEF Header, MessageOf
  <1>5. QED
    BY ONLY <1>3, <1>4

\* A frame, whatever follows it in the buffer, is read back if its length can be, and
\* is refused otherwise (DeserializeChatMessage after SerializeChatMessage).
THEOREM DecodeFrame ==
  ASSUME NEW op, NEW st, NEW v, Encodable(op, st, v), NEW t \in Seq(Int),
         NEW m, m = MessageOf(op, st, v),
         NEW buf, buf = (Header(m) \o v) \o t,
         NEW size \in Nat, size >= 4 + Len(v)
  PROVE  DeserializeChatMessage(buf, size) = IF Readable(m) THEN m ELSE Malformed
  <1>1. v \in Seq(Int) /\ Len(v) \in Nat /\ Len(v) \div 256 < 256
    BY DEF Encodable
  <1> DEFINE h == Header(m)
  <1>2. /\ h \in Seq(Int) /\ Len(h) = 4
        /\ h[1] = ToChar(op)
        /\ h[2] = ToChar(Len(v) % 256)
        /\ h[3] = ToChar(Len(v) \div 256)
        /\ h[4] = ToChar(st)
    BY HeaderChars
  <1>3. LaidOut(h, v, (h \o v) \o t)
    <2> HIDE DEF h
    <2> QED
      BY ONLY <1>1, <1>2, t \in Seq(Int), Layout
  <1>4. /\ \A i \in 1 .. 4 : buf[i] = h[i]
        /\ SubSeq(buf, 5, 4 + Len(v)) = v
    <2>1. LaidOut(h, v, buf)
      BY <1>3
    <2> HIDE DEF h
    <2>2. QED
      BY ONLY <2>1 DEF LaidOut
  <1> HIDE DEF h
  <1>5. /\ buf[1] = ToChar(op) /\ buf[4] = ToChar(st)
        /\ buf[2] = ToChar(Len(v) % 256) /\ buf[3] = ToChar(Len(v) \div 256)
    BY ONLY <1>2, <1>4
  <1>6. /\ Len(v) % 256 < 128 => Chat_GetLength(buf) = Len(v)
        /\ Len(v) % 256 >= 128 => Chat_GetLength(buf) > CHAT_MAX_VALUE
        /\ Chat_GetLength(buf) \in Int
    BY ONLY <1>1, <1>5, LengthRoundTrip, ZenonT(30), ZenonT(60)
  <1>7. Len(v) % 256 \in Int /\ (Readable(m) <=> Len(v) % 256 < 128)
    BY <1>1, TwoBytes DEF Readable, MessageOf
  <1>8. CASE Readable(m)
    <2>1. Chat_GetLength(buf) = Len(v)
      BY ONLY <1>6, <1>7, <1>8
    <2>2. Chat_Validate(size, Chat_GetLength(buf)) /\ size >= CHAT_HEADER_SIZE
      BY <1>1, <2>1 DEF Chat_Validate, CHAT_MAX_VALUE, CHAT_HEADER_SIZE, Encodable
    <2>3. Chat_GetOpcode(buf) = op
      BY <1>5, CharRange DEF Encodable, Chat_GetOpcode
    <2>4. Chat_GetStatus(buf) = st
      BY <1>5, CharRange DEF Encodable, Chat_GetStatus
    <2>5. SubSeq(buf, CHAT_HEADER_SIZE + 1, CHAT_HEADER_SIZE + Chat_GetLength(buf)) = v
      <3>1. CHAT_HEADER_SIZE + 1 = 5 /\ CHAT_HEADER_SIZE + Chat_GetLength(buf) = 4 + Len(v)
        BY <2>1 DEF CHAT_HEADER_SIZE
      <3>2. QED
        BY ONLY <3>1, <1>4
    <2>6. DeserializeChatMessage(buf, size) = m
      BY ONLY <2>1, <2>2, <2>3, <2>4, <2>5, m = MessageOf(op, st, v)
        , ZenonT(30), ZenonT(60) DEF DeserializeChatMessage, MessageOf
    <2>7. QED
      BY ONLY <2>6, <1>8
  <1>9. CASE ~Readable(m)
    <2>1. ~Chat_Validate(size, Chat_GetLength(buf))
      BY ONLY <1>6, <1>7, <1>9 DEF Chat_Validate, CHAT_MAX_VALUE
    <2>2. QED
      BY ONLY <2>1, <1>9 DEF DeserializeChatMessage
  <1>10. QED
    BY ONLY <1>8, <1>9

-----------------------------------------------------------------------------
(* The exchange, when recv() returns whole messages.                       *)

ReadOf(m) == IF Readable(m) THEN m ELSE Malformed

Bytes(m) == Header(m) \o m.value

\* The messages of the exchange.
OpcodeByte == {op \in Nat : op < 256}
StatusByte == {st \in Nat : st < 128}
ValueLength == {n \in Nat : n <= 256}

Msgs == {Message(op, st, n) : op \in OpcodeByte, st \in StatusByte, n \in ValueLength}
          \cup {Malformed}

\* A string of n bytes is a sequence of n chars.
LEMMA StringBytes ==
  ASSUME NEW n \in Nat
  PROVE  String(n) \in Seq(Int) /\ Len(String(n)) = n
  BY DEF String

\* A message of the exchange is serialized into its header and value, and decoded from
\* a buffer that starts with these.
LEMMA Carried ==
  ASSUME NEW op \in OpcodeByte, NEW st \in StatusByte, NEW n \in ValueLength,
         NEW m, m = Message(op, st, n)
  PROVE  /\ Bytes(m) \in Seq(Int) /\ Len(Bytes(m)) = 4 + n
         /\ \A size \in Nat : size >= 4 + n =>
              /\ SerializeChatMessage(m, size) = Bytes(m)
              /\ \A t \in Seq(Int) : DeserializeChatMessage(Bytes(m) \o t, size) = ReadOf(m)
         /\ DeserializeChatMessage(Bytes(m), 4 + n) = ReadOf(m)
  <1> DEFINE v == String(n)
  <1>1. n \in Nat /\ v \in Seq(Int) /\ Len(v) = n
    BY StringBytes DEF ValueLength
  <1>2. m.length = n /\ m.value = v /\ Bytes(m) = Header(m) \o v
    BY DEF Message, Bytes
  <1>3. m = MessageOf(op, st, v)
    BY <1>1 DEF Message, MessageOf
  <1> HIDE DEF v
  <1>4. Encodable(op, st, v)
    BY <1>1 DEF Encodable, OpcodeByte, StatusByte, ValueLength
  <1>5. Header(m) \in Seq(Int) /\ Len(Header(m)) = 4
    BY <1>3, <1>4, HeaderChars
  <1>6. Bytes(m) \in Seq(Int) /\ Len(Bytes(m)) = 4 + n
    <2>1. Bytes(m) \in Seq(Int) /\ Len(Bytes(m)) = Len(Header(m)) + Len(v)
      BY ONLY <1>1, <1>2, <1>5, JoinedLength, ZenonT(30), ZenonT(60)
    <2>2. QED
      BY ONLY <2>1, <1>1, <1>5
  <1>7. ASSUME NEW size \in Nat, size >= 4 + n
        PROVE  SerializeChatMessage(m, size) = Bytes(m)
    BY <1>1, <1>2, <1>7 DEF SerializeChatMessage, CHAT_HEADER_SIZE, Bytes
  <1>8. ASSUME NEW size \in Nat, size >= 4 + n, NEW t \in Seq(Int)
        PROVE  DeserializeChatMessage(Bytes(m) \o t, size) = ReadOf(m)
    BY <1>1, <1>2, <1>3, <1>4, <1>8, DecodeFrame, ZenonT(30), ZenonT(60) DEF ReadOf
  <1>9. DeserializeChatMessage(Bytes(m), 4 + n) = ReadOf(m)
    <2>1. << >> \in Seq(Int) /\ Bytes(m) \o << >> = Bytes(m)
      BY <1>6
    <2>2. 4 + n \in Nat /\ 4 + n >= 4 + n
      BY <1>1
    <2>3. DeserializeChatMessage(Bytes(m) \o << >>, 4 + n) = ReadOf(m)
      BY <1>8, <2>1, <2>2, ZenonT(30), ZenonT(60)
    <2>4. QED
      BY <2>1, <2>3
  <1>10. QED
    BY <1>6, <1>7, <1>8, <1>9

\* Reading one more message.
LEMMA ReadAsAppend ==
  ASSUME NEW ms \in Seq(Msgs), NEW out \in Seq(Msgs), ReadAs(ms, out), NEW m \in Msgs
  PROVE  /\ ReadAs(Append(ms, m), Append(out, ReadOf(m)))
         /\ Append(ms, m) \in Seq(Msgs) /\ Append(out, ReadOf(m)) \in Seq(Msgs)
  <1>1. ReadOf(m) \in Msgs
    BY DEF ReadOf, Msgs
  <1> DEFINE ms1 == Append(ms, m)
             out1 == Append(out, ReadOf(m))
  <1>2. ms1 \in Seq(Msgs) /\ out1 \in Seq(Msgs) /\ Len(ms) \in Nat
    BY <1>1
  <1>3. Len(ms1) = Len(ms) + 1 /\ Len(out1) = Len(ms) + 1
    BY <1>1 DEF ReadAs
  <1>4. ASSUME NEW i \in 1 .. Len(ms) + 1
        PROVE  out1[i] = ReadOf(ms1[i])
    <2>1. CASE i = Len(ms) + 1
      BY <1>1, <1>2, <2>1 DEF ReadAs
    <2>2. CASE i \in 1 .. Len(ms)
      <3>1. ms1[i] = ms[i] /\ out1[i] = out[i]
        BY <1>1, <1>2, <2>2 DEF ReadAs
      <3>2. out[i] = ReadOf(ms[i])
        BY <2>2 DEF ReadAs, ReadOf
      <3>3. QED
        BY <3>1, <3>2
    <2>3. i = Len(ms) + 1 \/ i \in 1 .. Len(ms)
      BY <1>2
    <2>4. QED
      BY ONLY <2>1, <2>2, <2>3, ZenonT(30), ZenonT(60)
  <1> HIDE DEF ms1, out1
  <1>5. ReadAs(ms1, out1)
    BY <1>3, <1>4 DEF ReadAs, ReadOf
  <1>6. QED
    BY <1>2, <1>5 DEF ms1, out1

\* The client waits, and its request is on the way or its answer is.
Asked ==
  \E op \in OpcodeByte, n \in ValueLength, s0 \in Seq(Msgs) :
    /\ sent = Append(s0, Message(op, CHAT_OK, n))
    /\ up = Bytes(Message(op, CHAT_OK, n)) /\ down = << >>
    /\ ReadAs(s0, heard) /\ ReadAs(replies, got)

Answered ==
  \E st \in StatusByte, n \in ValueLength, r0 \in Seq(Msgs) :
    /\ replies = Append(r0, Message(OPCODE_RESPONSE, st, n))
    /\ down = Bytes(Message(OPCODE_RESPONSE, st, n)) /\ up = << >>
    /\ ReadAs(sent, heard) /\ ReadAs(r0, got)

\* The state of an exchange nothing was cut in: one message at a time is in flight, and everything before
\* it has been read on the other side.
StreamInv ==
  /\ sent \in Seq(Msgs) /\ heard \in Seq(Msgs) /\ replies \in Seq(Msgs) /\ got \in Seq(Msgs)
  /\ splits = 0
  /\ client \in {"idle", "waiting"}
  /\ client = "idle" => /\ up = << >> /\ down = << >>
                        /\ ReadAs(sent, heard) /\ ReadAs(replies, got)
  /\ client = "waiting" => Asked \/ Answered

\* The inductive invariant: cuts are only counted up.
UncutInv == splits \in Nat /\ (splits = 0 => StreamInv)

\* Nothing is in flight at first.
LEMMA StreamInit == Init => UncutInv
  BY DEF Init, UncutInv, StreamInv, ReadAs

\* A recv() that is not counted as a cut takes all that is in flight.
LEMMA WholeSegment ==
  ASSUME splits = 0, splits' = 0, NEW s \in Seq(Int), NEW n \in 1 .. Len(s), Segment(s, n)
  PROVE  n = Len(s) /\ splits' = 0 /\ SubSeq(s, 1, n) = s /\ Rest(s, n) = << >>
  <1>1. n = Len(s) /\ splits' = 0
    BY DEF Segment
  <1>2. SubSeq(s, 1, Len(s)) = s
    OBVIOUS
  <1>3. SubSeq(s, Len(s) + 1, Len(s)) = << >>
    OBVIOUS
  <1>4. QED
    BY <1>1, <1>2, <1>3 DEF Rest

\* A request goes out on an empty stream.
LEMMA SendRequestInv ==
  ASSUME ChatStreamAssumption, StreamInv,
         NEW op \in RequestOpcodes, NEW n \in RequestLengths, SendRequest(op, n)
  PROVE  StreamInv'
  <1> DEFINE m == Message(op, CHAT_OK, n)
  <1>1. op \in OpcodeByte /\ n \in ValueLength /\ CHAT_OK \in StatusByte
    BY DEF ChatStreamAssumption, OpcodeByte, ValueLength, StatusByte, CHAT_MAX_VALUE, CHAT_OK
  <1>2. m \in Msgs
    BY <1>1 DEF Msgs
  <1>3. SerializeChatMessage(m, CHAT_MAX_TOTAL) = Bytes(m) /\ Bytes(m) \in Seq(Int)
    BY <1>1, Carried DEF CHAT_MAX_TOTAL, CHAT_MAX_VALUE, CHAT_HEADER_SIZE, ValueLength
  <1> HIDE DEF m
  <1>4. /\ client = "idle" /\ client' = "waiting"
        /\ up' = up \o SerializeChatMessage(m, CHAT_MAX_TOTAL)
        /\ sent' = Append(sent, m)
        /\ UNCHANGED <<down, heard, replies, got, splits>>
    BY DEF SendRequest, m
  <1>5. up' = Bytes(m)
    BY <1>3, <1>4 DEF StreamInv
  <1>6. Asked'
    BY <1>1, <1>4, <1>5 DEF Asked, StreamInv, m
  <1>7. QED
    BY <1>2, <1>4, <1>6 DEF StreamInv

\* The client reads the one reply in flight.
LEMMA ReceiveReplyInv ==
  ASSUME ChatStreamAssumption, splits' = 0, StreamInv, ReceiveReply
  PROVE  StreamInv'
  <1>1. client = "waiting" /\ client' = "idle" /\ UNCHANGED <<up, sent, heard, replies>>
    BY DEF ReceiveReply
  <1>2. PICK k \in 1 .. Len(down), g \in Garbage :
          /\ Segment(down, k)
          /\ down' = Rest(down, k)
          /\ got' = Append(got, ReplyIn(RecvBuf(SubSeq(down, 1, k), g)))
    BY DEF ReceiveReply
  <1>3. Answered
    <2>1. ASSUME Asked PROVE FALSE
      BY <1>2, <2>1 DEF Asked
    <2>2. QED
      BY <1>1, <2>1 DEF StreamInv
  <1>4. PICK st \in StatusByte, n \in ValueLength, r0 \in Seq(Msgs) :
          /\ replies = Append(r0, Message(OPCODE_RESPONSE, st, n))
          /\ down = Bytes(Message(OPCODE_RESPONSE, st, n)) /\ up = << >>
          /\ ReadAs(sent, heard) /\ ReadAs(r0, got)
    BY <1>3 DEF Answered
  <1> DEFINE m == Message(OPCODE_RESPONSE, st, n)
             t == [i \in 1 .. CHAT_MAX_TOTAL |-> g]
  <1>5. OPCODE_RESPONSE \in OpcodeByte
    BY DEF OPCODE_RESPONSE, OpcodeByte
  <1>6. m \in Msgs /\ m.opcode = OPCODE_RESPONSE
    BY <1>5 DEF Msgs, Message
  <1>7. /\ Bytes(m) \in Seq(Int) /\ Len(Bytes(m)) = 4 + n
        /\ \A s \in Seq(Int) : DeserializeChatMessage(Bytes(m) \o s, 4096) = ReadOf(m)
    <2>1. 4096 \in Nat /\ 4096 >= 4 + n
      BY DEF ValueLength
    <2>2. QED
      BY <1>5, <2>1, Carried
  <1>8. down = Bytes(m) /\ replies = Append(r0, m)
    BY <1>4
  <1> HIDE DEF m
  <1>9. k = Len(down) /\ splits' = 0 /\ SubSeq(down, 1, k) = down /\ Rest(down, k) = << >>
    BY <1>2, <1>7, <1>8, WholeSegment DEF StreamInv
  <1>10. t \in Seq(Int)
    <2>1. g \in Int
      BY DEF ChatStreamAssumption, Char
    <2>2. CHAT_MAX_TOTAL \in Nat
      BY DEF CHAT_MAX_TOTAL, CHAT_MAX_VALUE, CHAT_HEADER_SIZE
    <2>3. QED
      BY <2>1, <2>2
  <1>11. RecvBuf(down, g) = down \o t
    BY <1>9 DEF RecvBuf
  <1> HIDE DEF t
  <1>12. DeserializeChatMessage(RecvBuf(down, g), 4096) = ReadOf(m)
    BY ONLY <1>7, <1>8, <1>10, <1>11
  <1>13. got' = Append(got, ReadOf(m))
    <2>1. ReplyIn(RecvBuf(down, g)) = ReadOf(m)
      BY <1>6, <1>12 DEF ReplyIn, ReadOf, Malformed, OPCODE_RESPONSE
    <2>2. QED
      BY <1>2, <1>9, <2>1, ZenonT(30), ZenonT(60)
  <1>14. ReadAs(replies', got') /\ got' \in Seq(Msgs)
    <2>1. got \in Seq(Msgs) /\ replies' = Append(r0, m)
      BY <1>1, <1>8 DEF StreamInv
    <2>2. QED
      BY ONLY <1>4, <1>6, <1>13, <2>1, ReadAsAppend
  <1>15. QED
    BY <1>1, <1>2, <1>4, <1>9, <1>14 DEF StreamInv

\* The server reads the one request in flight and answers it.
LEMMA ProcessClientDataInv ==
  ASSUME ChatStreamAssumption, splits' = 0, StreamInv, ProcessClientData
  PROVE  StreamInv'
  <1>1. UNCHANGED <<client, sent, got>>
    BY DEF ProcessClientData
  <1>2. PICK k \in 1 .. Len(up) :
          Segment(up, k) /\ CallbackRecv(SubSeq(up, 1, k)) /\ up' = Rest(up, k)
    BY DEF ProcessClientData
  <1>3. client = "waiting" /\ Asked
    <2>1. up # << >>
      BY <1>2
    <2>2. ~Answered /\ client # "idle"
      BY <2>1 DEF Answered, StreamInv
    <2>3. QED
      BY <2>2 DEF StreamInv
  <1>4. PICK op \in OpcodeByte, n \in ValueLength, s0 \in Seq(Msgs) :
          /\ sent = Append(s0, Message(op, CHAT_OK, n))
          /\ up = Bytes(Message(op, CHAT_OK, n)) /\ down = << >>
          /\ ReadAs(s0, heard) /\ ReadAs(replies, got)
    BY <1>3 DEF Asked
  <1> DEFINE m == Message(op, CHAT_OK, n)
  <1>5. CHAT_OK \in StatusByte
    BY DEF CHAT_OK, StatusByte
  <1>6. m \in Msgs
    BY <1>5 DEF Msgs
  <1>7. /\ Bytes(m) \in Seq(Int) /\ Len(Bytes(m)) = 4 + n
        /\ DeserializeChatMessage(Bytes(m), 4 + n) = ReadOf(m)
    BY <1>5, Carried
  <1>8. up = Bytes(m) /\ sent = Append(s0, m)
    BY <1>4
  <1> HIDE DEF m
  <1>9. k = Len(up) /\ splits' = 0 /\ SubSeq(up, 1, k) = up /\ Rest(up, k) = << >>
    BY <1>2, <1>7, <1>8, WholeSegment DEF StreamInv
  <1>10. CallbackRecv(up) /\ DeserializeChatMessage(up, Len(up)) = ReadOf(m)
    BY <1>2, <1>7, <1>8, <1>9, ZenonT(30), ZenonT(60)
  <1>11. heard' = Append(heard, ReadOf(m))
    BY <1>10 DEF CallbackRecv
  <1>12. ReadAs(sent', heard') /\ heard' \in Seq(Msgs)
    <2>1. heard \in Seq(Msgs) /\ sent' = Append(s0, m)
      BY <1>1, <1>8 DEF StreamInv
    <2>2. QED
      BY ONLY <1>4, <1>6, <1>11, <2>1, ReadAsAppend
  <1>13. \E st \in StatusByte, j \in ValueLength : SendMessage(st, j)
    <2>1. 0 \in ValueLength /\ CHAT_ERR_MALFORMED \in StatusByte /\ CHAT_ERR_GENERIC \in StatusByte
      BY DEF ValueLength, StatusByte, CHAT_ERR_MALFORMED, CHAT_ERR_GENERIC
    <2>2. ReplyLengths \subseteq ValueLength
      <3>1. ReplyLengths \subseteq 0 .. CHAT_MAX_VALUE
        BY DEF ChatStreamAssumption
      <3>2. 0 .. CHAT_MAX_VALUE \subseteq ValueLength
        BY DEF ValueLength, CHAT_MAX_VALUE
      <3>3. QED
        BY <3>1, <3>2
    <2>3. QED
      BY <1>5, <1>10, <2>1, <2>2 DEF CallbackRecv
  <1>14. PICK st \in StatusByte, j \in ValueLength : SendMessage(st, j)
    BY <1>13
  <1> DEFINE r == Message(OPCODE_RESPONSE, st, j)
  <1>15. OPCODE_RESPONSE \in OpcodeByte
    BY DEF OPCODE_RESPONSE, OpcodeByte
  <1>16. r \in Msgs
    BY <1>15 DEF Msgs
  <1>17. SerializeChatMessage(r, CHAT_HEADER_SIZE + j) = Bytes(r) /\ Bytes(r) \in Seq(Int)
    <2>1. CHAT_HEADER_SIZE + j \in Nat /\ CHAT_HEADER_SIZE + j >= 4 + j
      BY DEF CHAT_HEADER_SIZE, ValueLength
    <2>2. QED
      BY <1>15, <2>1, Carried
  <1>18. ~TooLong(j)
    BY DEF TooLong, ValueLength, CHAT_MAX_VALUE
  <1>19. /\ down' = down \o SerializeChatMessage(r, CHAT_HEADER_SIZE + j)
         /\ replies' = Append(replies, r)
    BY <1>14, <1>18 DEF SendMessage
  <1> HIDE DEF r
  <1>20. down' = Bytes(r)
    BY <1>4, <1>17, <1>19
  <1>21. Answered'
    <2>1. replies \in Seq(Msgs) /\ up' = << >> /\ got' = got
      BY <1>1, <1>2, <1>9 DEF StreamInv
    <2>2. QED
      BY <1>4, <1>12, <1>19, <1>20, <2>1 DEF Answered, r
  <1>22. QED
    BY <1>1, <1>3, <1>9, <1>12, <1>16, <1>19, <1>21 DEF StreamInv

\* A step leaves the count of cuts alone or adds one.
LEMMA SplitsStep ==
  ASSUME splits \in Nat, [Next]_vars
  PROVE  splits' \in Nat /\ (splits' = 0 => splits = 0)
  <1>1. CASE \E op \in RequestOpcodes, n \in RequestLengths : SendRequest(op, n)
    BY <1>1 DEF SendRequest
  <1>2. CASE ReceiveReply
    BY <1>2 DEF ReceiveReply, Segment
  <1>3. CASE ProcessClientData
    BY <1>3 DEF ProcessClientData, Segment
  <1>4. CASE UNCHANGED vars
    BY <1>4 DEF vars
  <1>5. QED
    BY <1>1, <1>2, <1>3, <1>4 DEF Next

\* As long as recv() returns whole messages the two sides stay in step, and each reads
\* what the other sent or refuses it, for any lengths and any number of requests.
THEOREM StreamCorrect == Spec => [](InStep /\ RequestsUnderstood /\ RepliesUnderstood)
  <1> USE ChatStreamAssumption
  <1>1. UncutInv /\ [Next]_vars => UncutInv'
    <2> SUFFICES ASSUME UncutInv, [Next]_vars, splits' = 0 PROVE StreamInv'
      BY SplitsStep DEF UncutInv
    <2>1. StreamInv
      BY SplitsStep DEF UncutInv
    <2>2. CASE \E op \in RequestOpcodes, n \in RequestLengths : SendRequest(op, n)
      BY <2>1, <2>2, SendRequestInv
    <2>3. CASE ReceiveReply
      BY <2>1, <2>3, ReceiveReplyInv
    <2>4. CASE ProcessClientData
      BY <2>1, <2>4, ProcessClientDataInv
    <2>5. CASE UNCHANGED vars
      BY <2>1, <2>5 DEF vars, StreamInv, Asked, Answered
    <2>6. QED
      BY <2>2, <2>3, <2>4, <2>5 DEF Next
  <1>2. UncutInv => InStep /\ RequestsUnderstood /\ RepliesUnderstood
    BY DEF UncutInv, StreamInv, InStep, RequestsUnderstood, RepliesUnderstood
  <1>3. QED
    BY <1>1, <1>2, StreamInit, PTL DEF Spec

-----------------------------------------------------------------------------
(* Types, wherever TCP cuts the messages.                                  *)

\* What the client can make of a buffer.
ReadReplies == {ReplyIn(b) : b \in Seq(Char)}

\* The client has read a reply for every request but the one it waits for.
StreamTypes ==
  /\ client \in {"idle", "waiting"}
  /\ up \in Seq(Char) /\ down \in Seq(Char)
  /\ sent \in Seq(Msgs) /\ replies \in Seq(Msgs) /\ got \in Seq(ReadReplies)
  /\ Len(sent) = Len(got) + (IF client = "waiting" THEN 1 ELSE 0)
  /\ splits \in 0 .. MaxSplits

\* Casting a byte makes a char.
LEMMA CastChar ==
  ASSUME NEW n \in Nat
  PROVE  ToChar(n) \in Char
  BY DEF ToChar, Char

\* What is written into a stream is chars, or nothing.
LEMMA SerializedChars ==
  ASSUME NEW op \in OpcodeByte, NEW st \in StatusByte, NEW n \in ValueLength, NEW size,
         NEW m, m = Message(op, st, n)
  PROVE  SerializeChatMessage(m, size) \in Seq(Char)
  <1>1. n \in Nat /\ n % 256 \in Nat /\ n \div 256 \in Nat /\ op \in Nat /\ st \in Nat
    BY DEF ValueLength, OpcodeByte, StatusByte
  <1>2. ToChar(op) \in Char /\ ToChar(n % 256) \in Char /\ ToChar(n \div 256) \in Char /\ ToChar(st) \in Char
    BY <1>1, CastChar
  <1>3. Header(m) = <<ToChar(op), ToChar(n % 256), ToChar(n \div 256), ToChar(st)>>
    BY DEF Header, Message
  <1>4. Header(m) \in Seq(Char)
    BY ONLY <1>2, <1>3
  <1>5. m.value \in Seq(Char)
    <2>1. m.value = String(n)
      BY DEF Message
    <2>2. String(n) \in Seq(Char)
      BY ONLY <1>1 DEF String, Char
    <2>3. QED
      BY ONLY <2>1, <2>2
  <1>6. Header(m) \o m.value \in Seq(Char)
    BY ONLY <1>4, <1>5
  <1>7. QED
    BY ONLY <1>6 DEF SerializeChatMessage

\* A recv() takes a part of the stream and leaves the rest.
LEMMA SegmentTypes ==
  ASSUME NEW s \in Seq(Char), NEW n \in 1 .. Len(s), Segment(s, n), splits \in Nat, MaxSplits \in Nat
  PROVE  /\ SubSeq(s, 1, n) \in Seq(Char) /\ Rest(s, n) \in Seq(Char)
         /\ splits' \in 0 .. MaxSplits
  <1>1. SubSeq(s, 1, n) \in Seq(Char) /\ Rest(s, n) \in Seq(Char)
    BY DEF Rest
  <1>2. splits' \in 0 .. MaxSplits
    BY DEF Segment
  <1>3. QED
    BY <1>1, <1>2

\* A message of the exchange has the length of its value.
LEMMA MsgLength ==
  ASSUME NEW m \in Msgs
  PROVE  m.opcode \in 0 .. 255 /\ m.length = Len(m.value)
  <1>1. CASE m = Malformed
    BY <1>1 DEF Malformed
  <1>2. CASE m # Malformed
    <2>1. PICK op \in OpcodeByte, st \in StatusByte, n \in ValueLength : m = Message(op, st, n)
      BY <1>2 DEF Msgs
    <2>2. Len(String(n)) = n /\ op \in 0 .. 255
      BY StringBytes DEF ValueLength, OpcodeByte
    <2>3. QED
      BY <2>1, <2>2 DEF Message
  <1>3. QED
    BY <1>1, <1>2

\* Each side keeps the types of what it writes.
LEMMA StreamTypesStep ==
  ASSUME StreamTypes, [Next]_vars
  PROVE  StreamTypes'
  <1> USE ChatStreamAssumption
  <1>0. MaxSplits \in Nat /\ splits \in Nat /\ Len(sent) \in Nat /\ Len(got) \in Nat
    BY DEF ChatStreamAssumption, StreamTypes
  <1>1. ASSUME NEW op \in RequestOpcodes, NEW n \in RequestLengths, SendRequest(op, n)
        PROVE  StreamTypes'
    <2> DEFINE m == Message(op, CHAT_OK, n)
    <2>1. op \in OpcodeByte /\ n \in ValueLength /\ CHAT_OK \in StatusByte
      BY DEF ChatStreamAssumption, OpcodeByte, ValueLength, StatusByte, CHAT_MAX_VALUE, CHAT_OK
    <2>2. m \in Msgs /\ SerializeChatMessage(m, CHAT_MAX_TOTAL) \in Seq(Char)
      BY <2>1, SerializedChars DEF Msgs
    <2> HIDE DEF m
    <2>3. /\ client = "idle" /\ client' = "waiting"
          /\ up' = up \o SerializeChatMessage(m, CHAT_MAX_TOTAL)
          /\ sent' = Append(sent, m)
          /\ UNCHANGED <<down, heard, replies, got, splits>>
      BY <1>1 DEF SendRequest, m
    <2>4. up' \in Seq(Char) /\ sent' \in Seq(Msgs) /\ Len(sent') = Len(sent) + 1
      BY <2>2, <2>3 DEF StreamTypes
    <2>5. QED
      BY <1>0, <2>3, <2>4 DEF StreamTypes
  <1>2. CASE ReceiveReply
    <2>1. PICK k \in 1 .. Len(down), g \in Garbage :
            /\ Segment(down, k)
            /\ down' = Rest(down, k)
            /\ got' = Append(got, ReplyIn(RecvBuf(SubSeq(down, 1, k), g)))
      BY <1>2 DEF ReceiveReply
    <2>2. client = "waiting" /\ client' = "idle" /\ UNCHANGED <<up, sent, heard, replies>>
      BY <1>2 DEF ReceiveReply
    <2>3. SubSeq(down, 1, k) \in Seq(Char) /\ down' \in Seq(Char) /\ splits' \in 0 .. MaxSplits
      BY <1>0, <2>1, SegmentTypes DEF StreamTypes
    <2>4. RecvBuf(SubSeq(down, 1, k), g) \in Seq(Char)
      <3>1. g \in Char /\ CHAT_MAX_TOTAL \in Nat
        BY DEF ChatStreamAssumption, CHAT_MAX_TOTAL, CHAT_MAX_VALUE, CHAT_HEADER_SIZE
      <3>2. [i \in 1 .. CHAT_MAX_TOTAL |-> g] \in Seq(Char)
        BY ONLY <3>1
      <3>3. QED
        BY ONLY <2>3, <3>2 DEF RecvBuf
    <2>5. ReplyIn(RecvBuf(SubSeq(down, 1, k), g)) \in ReadReplies
      BY <2>4 DEF ReadReplies
    <2>6. got' \in Seq(ReadReplies) /\ Len(got') = Len(got) + 1
      BY <2>1, <2>5 DEF StreamTypes
    <2>7. QED
      BY <1>0, <2>2, <2>3, <2>6 DEF StreamTypes
  <1>3. CASE ProcessClientData
    <2>1. PICK k \in 1 .. Len(up) :
            Segment(up, k) /\ CallbackRecv(SubSeq(up, 1, k)) /\ up' = Rest(up, k)
      BY <1>3 DEF ProcessClientData
    <2>2. up' \in Seq(Char) /\ splits' \in 0 .. MaxSplits /\ UNCHANGED <<client, sent, got>>
      BY <1>0, <1>3, <2>1, SegmentTypes DEF StreamTypes, ProcessClientData
    <2>3. \E st \in StatusByte, j \in ValueLength : SendMessage(st, j)
      <3>1. /\ 0 \in ValueLength /\ CHAT_ERR_MALFORMED \in StatusByte /\ CHAT_ERR_GENERIC \in StatusByte
            /\ CHAT_OK \in StatusByte
        BY DEF ValueLength, StatusByte, CHAT_ERR_MALFORMED, CHAT_ERR_GENERIC, CHAT_OK
      <3>2. ReplyLengths \subseteq ValueLength
        <4>1. ReplyLengths \subseteq 0 .. CHAT_MAX_VALUE
          BY DEF ChatStreamAssumption
        <4>2. 0 .. CHAT_MAX_VALUE \subseteq ValueLength
          BY DEF ValueLength, CHAT_MAX_VALUE
        <4>3. QED
          BY <4>1, <4>2
      <3>3. QED
        BY <2>1, <3>1, <3>2 DEF CallbackRecv
    <2>4. PICK st \in StatusByte, j \in ValueLength : SendMessage(st, j)
      BY <2>3
    <2> DEFINE r == Message(OPCODE_RESPONSE, st, j)
    <2>5. OPCODE_RESPONSE \in OpcodeByte
      BY DEF OPCODE_RESPONSE, OpcodeByte
    <2>6. r \in Msgs /\ SerializeChatMessage(r, CHAT_HEADER_SIZE + j) \in Seq(Char)
      BY <2>5, SerializedChars DEF Msgs
    <2>7. \/ UNCHANGED <<down, replies>>
          \/ /\ down' = down \o SerializeChatMessage(r, CHAT_HEADER_SIZE + j)
             /\ replies' = Append(replies, r)
      BY <2>4 DEF SendMessage
    <2> HIDE DEF r
    <2>8. down' \in Seq(Char) /\ replies' \in Seq(Msgs)
      <3>1. down \in Seq(Char) /\ replies \in Seq(Msgs)
        BY DEF StreamTypes
      <3>2. CASE UNCHANGED <<down, replies>>
        BY ONLY <3>1, <3>2
      <3>3. CASE /\ down' = down \o SerializeChatMessage(r, CHAT_HEADER_SIZE + j)
                 /\ replies' = Append(replies, r)
        BY ONLY <2>6, <3>1, <3>3
      <3>4. QED
        BY <2>7, <3>2, <3>3
    <2>9. QED
      BY <2>2, <2>8 DEF StreamTypes
  <1>4. CASE UNCHANGED vars
    BY <1>4 DEF vars, StreamTypes
  <1>5. QED
    BY <1>1, <1>2, <1>3, <1>4 DEF Next

\* The variables keep their types wherever a recv() cuts a message, every message carries the
\* length of its value, and the client never has more replies than it has sent requests.
THEOREM TypeCorrect == Spec => []TypeOK
  <1>1. Init => StreamTypes
    BY ChatStreamAssumption DEF Init, StreamTypes
  <1>2. StreamTypes => TypeOK
    <2> SUFFICES ASSUME StreamTypes PROVE TypeOK
      OBVIOUS
    <2>1. \A i \in DOMAIN sent : sent[i].opcode \in 0 .. 255 /\ sent[i].length = Len(sent[i].value)
      <3>1. \A i \in DOMAIN sent : sent[i] \in Msgs
        BY DEF StreamTypes
      <3>2. QED
        BY <3>1, MsgLength
    <2>2. \A i \in DOMAIN replies : replies[i].opcode \in 0 .. 255 /\ replies[i].length = Len(replies[i].value)
      <3>1. \A i \in DOMAIN replies : replies[i] \in Msgs
        BY DEF StreamTypes
      <3>2. QED
        BY <3>1, MsgLength
    <2>3. Len(got) <= Len(sent)
      BY DEF StreamTypes
    <2>4. QED
      BY <2>1, <2>2, <2>3, ZenonT(30), ZenonT(60) DEF StreamTypes, TypeOK
  <1>3. QED
    BY <1>1, <1>2, StreamTypesStep, PTL DEF Spec

-----------------------------------------------------------------------------
(* Something is always under way.                                          *)

\* A message makes a stream non-empty, whatever was in it.
LEMMA MessageOnTheWay ==
  ASSUME NEW op \in OpcodeByte, NEW st \in StatusByte, NEW n \in ValueLength, NEW size \in Nat, size >= 4 + n,
         NEW s \in Seq(Char)
  PROVE  s \o SerializeChatMessage(Message(op, st, n), size) # << >>
  <1> DEFINE b == SerializeChatMessage(Message(op, st, n), size)
  <1>1. b = Bytes(Message(op, st, n)) /\ Len(Bytes(Message(op, st, n))) = 4 + n /\ n \in Nat
    <2>1. n \in Nat
      BY DEF ValueLength
    <2>2. ASSUME NEW m, m = Message(op, st, n)
          PROVE  SerializeChatMessage(m, size) = Bytes(m) /\ Len(Bytes(m)) = 4 + n
      <3>1. /\ Len(Bytes(m)) = 4 + n
            /\ \A s1 \in Nat : s1 >= 4 + n => SerializeChatMessage(m, s1) = Bytes(m)
        BY ONLY op \in OpcodeByte, st \in StatusByte, n \in ValueLength, <2>2, Carried
      <3> QED
        BY <3>1
    <2> QED
      BY <2>1, <2>2
  <1>2. b \in Seq(Char)
    BY SerializedChars
  <1>3. Len(b) > 0
    BY <1>1
  <1> HIDE DEF b
  <1>4. s \o b # << >>
    BY <1>2, <1>3
  <1>5. QED
    BY <1>4 DEF b

\* What the server can make of a recv().
ReadRequests == {DeserializeChatMessage(b, Len(b)) : b \in Seq(Char)}

Flowing == StreamTypes /\ heard \in Seq(ReadRequests) /\ AnswerUnderWay

\* The server owes no answer after any step, and the client waits for something.
LEMMA FlowingStep ==
  ASSUME Flowing, [Next]_vars
  PROVE  Flowing'
  <1>0. /\ StreamTypes /\ StreamTypes' /\ heard \in Seq(ReadRequests) /\ Len(replies) = Len(heard)
        /\ client = "waiting" => up # << >> \/ down # << >>
    BY StreamTypesStep DEF Flowing, AnswerUnderWay
  <1>1. ASSUME NEW op \in RequestOpcodes, NEW n \in RequestLengths, SendRequest(op, n)
        PROVE  Flowing'
    <2>1. op \in OpcodeByte /\ n \in ValueLength /\ CHAT_OK \in StatusByte
      BY ChatStreamAssumption
      DEF ChatStreamAssumption, OpcodeByte, ValueLength, StatusByte, CHAT_MAX_VALUE, CHAT_OK
    <2>2. CHAT_MAX_TOTAL \in Nat /\ CHAT_MAX_TOTAL >= 4 + n /\ up \in Seq(Char)
      BY <1>0, <2>1 DEF CHAT_MAX_TOTAL, CHAT_MAX_VALUE, CHAT_HEADER_SIZE, ValueLength, StreamTypes
    <2>3. up \o SerializeChatMessage(Message(op, CHAT_OK, n), CHAT_MAX_TOTAL) # << >>
      BY <2>1, <2>2, MessageOnTheWay
    <2>4. QED
      BY <1>0, <1>1, <2>3 DEF SendRequest, Flowing, AnswerUnderWay
  <1>2. CASE ReceiveReply
    <2>1. client' = "idle" /\ UNCHANGED <<heard, replies>>
      BY <1>2 DEF ReceiveReply
    <2>2. QED
      BY <1>0, <2>1 DEF Flowing, AnswerUnderWay
  <1>3. CASE ProcessClientData
    <2>1. PICK k \in 1 .. Len(up) :
            Segment(up, k) /\ CallbackRecv(SubSeq(up, 1, k)) /\ up' = Rest(up, k)
      BY <1>3 DEF ProcessClientData
    <2>2. SubSeq(up, 1, k) \in Seq(Char)
      <3>1. up \in Seq(Char)
        BY <1>0 DEF StreamTypes
      <3> QED
        BY ONLY <3>1, k \in 1 .. Len(up)
    <2> DEFINE m == DeserializeChatMessage(SubSeq(up, 1, k), Len(SubSeq(up, 1, k)))
    <2>3. m \in ReadRequests
      BY <2>2, ZenonT(30), ZenonT(60) DEF ReadRequests
    <2>4. heard' = Append(heard, m)
      BY <2>1 DEF CallbackRecv
    <2>5. \E st \in StatusByte, j \in ValueLength : SendMessage(st, j)
      <3>1. /\ 0 \in ValueLength /\ CHAT_ERR_MALFORMED \in StatusByte /\ CHAT_ERR_GENERIC \in StatusByte
            /\ CHAT_OK \in StatusByte
        BY DEF ValueLength, StatusByte, CHAT_ERR_MALFORMED, CHAT_ERR_GENERIC, CHAT_OK
      <3>2. ReplyLengths \subseteq ValueLength
        <4>1. ReplyLengths \subseteq 0 .. CHAT_MAX_VALUE
          BY ChatStreamAssumption DEF ChatStreamAssumption
        <4>2. 0 .. CHAT_MAX_VALUE \subseteq ValueLength
          BY DEF ValueLength, CHAT_MAX_VALUE
        <4>3. QED
          BY <4>1, <4>2
      <3>3. QED
        BY <2>1, <3>1, <3>2 DEF CallbackRecv
    <2> HIDE DEF m
    <2>6. PICK st \in StatusByte, j \in ValueLength : SendMessage(st, j)
      BY <2>5
    <2> DEFINE r == Message(OPCODE_RESPONSE, st, j)
    <2>7. OPCODE_RESPONSE \in OpcodeByte /\ ~TooLong(j) /\ CHAT_HEADER_SIZE + j \in Nat
          /\ CHAT_HEADER_SIZE + j >= 4 + j
      BY DEF OPCODE_RESPONSE, OpcodeByte, TooLong, ValueLength, CHAT_MAX_VALUE, CHAT_HEADER_SIZE
    <2>8. down' = down \o SerializeChatMessage(r, CHAT_HEADER_SIZE + j) /\ replies' = Append(replies, r)
      BY <2>6, <2>7 DEF SendMessage
    <2>9. down' # << >>
      <3>1. down \in Seq(Char)
        BY ONLY <1>0 DEF StreamTypes
      <3>2. QED
        BY ONLY <2>6, <2>7, <2>8, <3>1, MessageOnTheWay
    <2>10. r \in Msgs
      BY <2>7 DEF Msgs
    <2> HIDE DEF r
    <2>11. heard' \in Seq(ReadRequests) /\ Len(heard') = Len(heard) + 1
      BY <1>0, <2>3, <2>4
    <2>12. Len(replies') = Len(replies) + 1
      <3>1. replies \in Seq(Msgs)
        BY ONLY <1>0 DEF StreamTypes
      <3>2. QED
        BY ONLY <2>8, <2>10, <3>1
    <2>13. QED
      BY <1>0, <2>9, <2>11, <2>12 DEF Flowing, AnswerUnderWay
  <1>4. CASE UNCHANGED vars
    BY <1>0, <1>4 DEF vars, Flowing, AnswerUnderWay
  <1>5. QED
    BY <1>1, <1>2, <1>3, <1>4 DEF Next

\* The server answers what each recv() brings once, and the client never waits while nothing
\* is in flight, for all opcodes, lengths and numbers of requests, wherever TCP cuts them: the
\* safety half of ExchangeCompletes.
THEOREM AnswersCorrect == Spec => []AnswerUnderWay
  <1>1. Init => Flowing
    BY ChatStreamAssumption DEF Init, StreamTypes, Flowing, AnswerUnderWay
  <1>2. Flowing => AnswerUnderWay
    BY DEF Flowing
  <1>3. QED
    BY <1>1, <1>2, FlowingStep, PTL DEF Spec

=============================================================================
