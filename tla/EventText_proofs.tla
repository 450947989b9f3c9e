------------------------- MODULE EventText_proofs -------------------------
(***************************************************************************)
(* Proofs about the way of the host name into an event and about the       *)
(* buffers an event is composed in, for every host name, every length and  *)
(* number of entries, and all buffer sizes that satisfy SizesFit.          *)
(***************************************************************************)
EXTENDS EventText, FiniteSetTheorems, SequenceTheorems, WellFoundedInduction, TLAPS

(* A text is a sequence of characters of bounded length. *)
LEMMA TextIsSeq ==
    ASSUME NEW n \in Nat, NEW t
    PROVE  t \in Text(n) <=> t \in Seq(Char) /\ Len(t) <= n
<1>1. ASSUME t \in Text(n) PROVE t \in Seq(Char) /\ Len(t) <= n
  <2>1. PICK m \in 0 .. n : t \in [1 .. m -> Char]
    BY <1>1 DEF Text
  <2>2. QED
    BY <2>1
<1>2. ASSUME t \in Seq(Char), Len(t) <= n PROVE t \in Text(n)
  <2>1. t \in [1 .. Len(t) -> Char] /\ Len(t) \in 0 .. n
    BY <1>2
  <2>2. QED
    BY <2>1 DEF Text
<1>3. QED
  BY <1>1, <1>2

(* The first n characters. *)
LEMMA TakeSeq ==
    ASSUME NEW t \in Seq(Char), NEW n \in Nat
    PROVE  /\ Take(t, n) \in Seq(Char)
           /\ Len(Take(t, n)) = IF Len(t) <= n THEN Len(t) ELSE n
           /\ Len(Take(t, n)) <= n
           /\ \A i \in 1 .. Len(Take(t, n)) : Take(t, n)[i] = t[i]
  BY DEF Take

(* A set of natural numbers has a least element. *)
LEMMA LeastExists ==
    ASSUME NEW S \in SUBSET Nat, S # {}
    PROVE  \E m \in S : \A j \in S : m <= j
<1>1. PICK m \in S : \A j \in S : ~(<<j, m>> \in OpToRel(<, Nat))
  BY NatLessThanWellFounded, WFMin
<1>2. ASSUME NEW j \in S PROVE m <= j
  <2>1. ~(<<j, m>> \in OpToRel(<, Nat)) /\ j \in Nat /\ m \in Nat
    BY <1>1
  <2>2. ~(j < m)
    BY <2>1 DEF OpToRel
  <2>3. j \in Nat /\ m \in Nat
    OBVIOUS
  <2>4. QED
    BY <2>2, <2>3
<1>3. QED
  BY <1>2

(* The least and the greatest of a set of places. *)
LEMMA Extremes ==
    ASSUME NEW n \in Nat, NEW S \in SUBSET (1 .. n), S # {}
    PROVE  /\ Least(S) \in S /\ \A j \in S : Least(S) <= j
           /\ Most(S) \in S /\ \A j \in S : Most(S) >= j
<1>1. \E m \in S : \A j \in S : m <= j
  BY LeastExists
<1>2. \E m \in S : \A j \in S : m >= j
  <2> DEFINE T == {n - j : j \in S}
  <2>1. T \in SUBSET Nat /\ T # {}
    <3>1. \A j \in S : n - j \in Nat
      OBVIOUS
    <3>2. QED
      BY <3>1
  <2>2. PICK d \in T : \A j \in T : d <= j
    BY <2>1, LeastExists
  <2>3. PICK m \in S : d = n - m
    BY <2>2
  <2>4. ASSUME NEW j \in S PROVE m >= j
    <3>1. n - m <= n - j
      BY <2>2, <2>3
    <3>2. QED
      BY <3>1
  <2>5. QED
    BY <2>4
<1>3. QED
  BY <1>1, <1>2 DEF Least, Most

(* A part of a text, character by character. *)
LEMMA Part ==
    ASSUME NEW t \in Seq(Char), NEW a \in 1 .. Len(t) + 1, NEW b \in 0 .. Len(t), a <= b + 1
    PROVE  /\ SubSeq(t, a, b) \in Seq(Char) /\ Len(SubSeq(t, a, b)) = b - a + 1
           /\ \A i \in 1 .. b - a + 1 : SubSeq(t, a, b)[i] = t[a + i - 1]
  OBVIOUS

(* The trims and unquote give parts of a text. *)
LEMMA TrimTypes ==
    ASSUME NEW t \in Seq(Char)
    PROVE  rtrim(t) \in Seq(Char) /\ ltrim(t) \in Seq(Char) /\ unquote(t) \in Seq(Char)
<1>1. Inked(t) \in SUBSET (1 .. Len(t)) /\ Len(t) \in Nat
  BY DEF Inked
<1>2. << >> \in Seq(Char)
  OBVIOUS
<1>u. unquote(t) \in Seq(Char)
  <2>1. Len(t) >= 2 => SubSeq(t, 2, Len(t) - 1) \in Seq(Char)
    BY <1>1
  <2>2. unquote(t) = t \/ (Len(t) >= 2 /\ unquote(t) = SubSeq(t, 2, Len(t) - 1))
    BY DEF unquote
  <2>3. QED
    BY <2>1, <2>2
<1>3. CASE Inked(t) = {}
  <2>1. rtrim(t) = << >> /\ ltrim(t) = << >>
    BY <1>3 DEF rtrim, ltrim
  <2>2. QED
    BY <1>2, <1>u, <2>1
<1>4. CASE Inked(t) # {}
  <2>1. Least(Inked(t)) \in 1 .. Len(t) /\ Most(Inked(t)) \in 1 .. Len(t)
    BY <1>1, <1>4, Extremes
  <2>2. rtrim(t) = SubSeq(t, 1, Most(Inked(t))) /\ ltrim(t) = SubSeq(t, Least(Inked(t)), Len(t))
    BY <1>4 DEF rtrim, ltrim
  <2>3. rtrim(t) \in Seq(Char) /\ ltrim(t) \in Seq(Char)
    BY <2>1, <2>2
  <2>4. QED
    BY <1>u, <2>3
<1>5. QED
  BY <1>3, <1>4

(* rtrim stops at the last character that is no blank. *)
LEMMA RtrimAt ==
    ASSUME NEW t \in Seq(Char), NEW k \in 1 .. Len(t), t[k] \notin Space,
           \A j \in k + 1 .. Len(t) : t[j] \in Space
    PROVE  rtrim(t) = SubSeq(t, 1, k)
<1>1. Inked(t) \in SUBSET (1 .. Len(t)) /\ Len(t) \in Nat /\ k \in Inked(t)
  BY DEF Inked
<1>2. Most(Inked(t)) \in Inked(t) /\ \A j \in Inked(t) : Most(Inked(t)) >= j
  BY <1>1, Extremes
<1>3. \A j \in Inked(t) : j <= k
  BY <1>1 DEF Inked
<1>4. Most(Inked(t)) = k
  BY <1>1, <1>2, <1>3
<1>5. QED
  BY <1>1, <1>4 DEF rtrim

(* ltrim takes away the one blank behind the colon. *)
LEMMA LtrimOne ==
    ASSUME NEW t \in Seq(Char), Len(t) >= 2, t[1] \in Space, t[2] \notin Space
    PROVE  ltrim(t) = SubSeq(t, 2, Len(t))
<1>1. Inked(t) \in SUBSET (1 .. Len(t)) /\ Len(t) \in Nat /\ 2 \in Inked(t) /\ 1 \notin Inked(t)
  BY DEF Inked
<1>2. Least(Inked(t)) \in Inked(t) /\ \A j \in Inked(t) : Least(Inked(t)) <= j
  BY <1>1, Extremes
<1>3. Least(Inked(t)) = 2
  BY <1>1, <1>2
<1>4. QED
  BY <1>1, <1>3 DEF ltrim

(* A text cut to its own length is itself. *)
LEMMA Whole ==
    ASSUME NEW t \in Seq(Char)
    PROVE  SubSeq(t, 1, Len(t)) = t
<1>1. SubSeq(t, 1, Len(t)) \in Seq(Char) /\ Len(SubSeq(t, 1, Len(t))) = Len(t)
      /\ \A i \in 1 .. Len(t) : SubSeq(t, 1, Len(t))[i] = t[i]
  OBVIOUS
<1>2. QED
  BY <1>1, SeqEqual

(* Two texts, one behind the other. *)
LEMMA Joined ==
    ASSUME NEW s \in Seq(Char), NEW t \in Seq(Char)
    PROVE  /\ s \o t \in Seq(Char) /\ Len(s \o t) = Len(s) + Len(t)
           /\ \A i \in 1 .. Len(s) : (s \o t)[i] = s[i]
           /\ \A i \in 1 .. Len(t) : (s \o t)[Len(s) + i] = t[i]
  OBVIOUS

(* A text of one character. *)
LEMMA OneChar ==
    ASSUME NEW x \in Char
    PROVE  <<x>> \in Seq(Char) /\ Len(<<x>>) = 1 /\ <<x>>[1] = x
  OBVIOUS

(* What the configuration line is made of. *)
LEMMA LineParts ==
    ASSUME host \in Seq(Char), style \in Style
    PROVE  /\ Line \in Seq(Char) /\ Line[1] = "blank"
           /\ style = "bare" =>
                /\ Len(Line) = Len(host) + 1
                /\ \A i \in 1 .. Len(host) : Line[i + 1] = host[i]
           /\ style # "bare" =>
                /\ Len(Line) >= Len(host) + 3
                /\ Line[2] = "quote" /\ Line[Len(host) + 3] = "quote"
                /\ \A i \in 1 .. Len(host) : Line[i + 2] = host[i]
           /\ style = "quoted" => Len(Line) = Len(host) + 3
           /\ style = "commented" =>
                /\ Len(Line) = Len(host) + 6
                /\ Line[Len(host) + 4] = "blank" /\ Line[Len(host) + 5] = "hash" /\ Line[Len(host) + 6] = "a"
<1> DEFINE b == <<"blank">>
           q == <<"quote">>
           c == <<"blank", "hash", "a">>
<1>1. "blank" \in Char /\ "hash" \in Char /\ "a" \in Char /\ "quote" \in Char
  BY DEF Char
<1>2. /\ q \in Seq(Char) /\ Len(q) = 1 /\ q[1] = "quote"
      /\ b \in Seq(Char) /\ Len(b) = 1 /\ b[1] = "blank"
  BY <1>1, OneChar
<1>3. c \in Seq(Char) /\ Len(c) = 3 /\ c[1] = "blank" /\ c[2] = "hash" /\ c[3] = "a"
  BY <1>1
<1>4. Len(host) \in Nat /\ << >> \in Seq(Char) /\ Len(<< >>) = 0
  OBVIOUS
<1> HIDE DEF b, q, c
<1>5. CASE style = "bare"
  <2> DEFINE w == b \o host
  <2>1. Line = w \o << >>
    BY <1>5 DEF Line, b
  <2>2. w \in Seq(Char) /\ Len(w) = 1 + Len(host) /\ w[1] = "blank" /\ \A i \in 1 .. Len(host) : w[1 + i] = host[i]
    BY <1>2, Joined
  <2> HIDE DEF w
  <2>3. /\ Line \in Seq(Char) /\ Len(Line) = Len(w) + 0
        /\ \A i \in 1 .. Len(w) : Line[i] = w[i]
    BY <1>4, <2>1, <2>2, Joined
  <2>4. Len(Line) = Len(host) + 1 /\ Line[1] = "blank"
    BY <1>4, <2>2, <2>3
  <2>5. ASSUME NEW i \in 1 .. Len(host) PROVE Line[i + 1] = host[i]
    <3>1. i + 1 \in 1 .. Len(w) /\ w[1 + i] = host[i] /\ i + 1 = 1 + i
      BY <1>4, <2>2
    <3>2. QED
      BY <2>3, <3>1
  <2>6. QED
    BY <1>5, <2>3, <2>4, <2>5
<1>6. CASE style # "bare"
  <2> DEFINE u == q \o host
             v == u \o q
             w == b \o v
             e == IF style = "commented" THEN c ELSE << >>
  <2>1. Line = w \o e
    BY <1>6 DEF Line, q, c, b
  <2>2. u \in Seq(Char) /\ Len(u) = 1 + Len(host) /\ u[1] = "quote" /\ \A i \in 1 .. Len(host) : u[1 + i] = host[i]
    BY <1>2, Joined
  <2> HIDE DEF u
  <2>3. /\ v \in Seq(Char) /\ Len(v) = Len(u) + 1 /\ v[Len(u) + 1] = "quote"
        /\ \A i \in 1 .. Len(u) : v[i] = u[i]
    <3>1. /\ v \in Seq(Char) /\ Len(v) = Len(u) + Len(q)
          /\ \A i \in 1 .. Len(u) : v[i] = u[i]
          /\ \A i \in 1 .. Len(q) : v[Len(u) + i] = q[i]
      BY <1>2, <2>2, Joined
    <3> HIDE DEF v
    <3>2. QED
      BY <1>2, <2>2, <3>1
  <2> HIDE DEF v
  <2>4. /\ w \in Seq(Char) /\ Len(w) = 1 + Len(v) /\ w[1] = "blank"
        /\ \A i \in 1 .. Len(v) : w[1 + i] = v[i]
    <3>1. /\ w \in Seq(Char) /\ Len(w) = Len(b) + Len(v)
          /\ \A i \in 1 .. Len(b) : w[i] = b[i]
          /\ \A i \in 1 .. Len(v) : w[Len(b) + i] = v[i]
      BY <1>2, <2>3, Joined
    <3> HIDE DEF w
    <3>2. QED
      BY <1>2, <2>3, <3>1
  <2>5. /\ e \in Seq(Char) /\ Len(e) = (IF style = "commented" THEN 3 ELSE 0)
        /\ style = "commented" => e[1] = "blank" /\ e[2] = "hash" /\ e[3] = "a"
    <3>1. CASE style = "commented"
      <4>1. e = c
        BY <3>1
      <4> HIDE DEF e
      <4>2. QED
        BY <1>3, <3>1, <4>1
    <3>2. CASE style # "commented"
      <4>1. e = << >>
        BY <3>2
      <4> HIDE DEF e
      <4>2. QED
        BY <1>4, <3>2, <4>1
    <3>3. QED
      BY <3>1, <3>2
  <2> HIDE DEF w, e
  <2>6. /\ Line \in Seq(Char) /\ Len(Line) = Len(w) + Len(e)
        /\ \A i \in 1 .. Len(w) : Line[i] = w[i]
        /\ \A i \in 1 .. Len(e) : Line[Len(w) + i] = e[i]
    <3>1. w \in Seq(Char) /\ e \in Seq(Char)
      BY <2>4, <2>5
    <3>2. /\ w \o e \in Seq(Char) /\ Len(w \o e) = Len(w) + Len(e)
          /\ \A i \in 1 .. Len(w) : (w \o e)[i] = w[i]
          /\ \A i \in 1 .. Len(e) : (w \o e)[Len(w) + i] = e[i]
      BY <3>1, Joined, Zenon
    <3>3. QED
      BY <2>1, <3>2, Zenon
  <2>7. Len(w) = Len(host) + 3 /\ Len(v) = Len(host) + 2
    BY <1>4, <2>2, <2>3, <2>4
  <2>8. Line[1] = "blank" /\ Line[2] = "quote" /\ Line[Len(host) + 3] = "quote"
    <3>1. w[1] = "blank" /\ w[1 + 1] = v[1] /\ v[1] = u[1]
      BY <1>4, <2>2, <2>3, <2>4, <2>7
    <3>2. w[1 + (Len(host) + 2)] = v[Len(host) + 2] /\ Len(host) + 2 = Len(u) + 1
      BY <1>4, <2>2, <2>4, <2>7
    <3>3. 1 \in 1 .. Len(w) /\ 2 \in 1 .. Len(w) /\ Len(host) + 3 \in 1 .. Len(w)
          /\ 1 + (Len(host) + 2) = Len(host) + 3 /\ 1 + 1 = 2
      BY <1>4, <2>7
    <3>4. QED
      BY <2>2, <2>3, <2>6, <3>1, <3>2, <3>3
  <2>9. ASSUME NEW i \in 1 .. Len(host) PROVE Line[i + 2] = host[i]
    <3>1. /\ i + 2 \in 1 .. Len(w) /\ i + 1 \in 1 .. Len(v) /\ i + 1 \in 1 .. Len(u)
          /\ 1 + (i + 1) = i + 2 /\ 1 + i = i + 1
      BY <1>4, <2>2, <2>7
    <3>2. Line[i + 2] = w[i + 2] /\ w[1 + (i + 1)] = v[i + 1] /\ v[i + 1] = u[i + 1] /\ u[1 + i] = host[i]
      BY <2>2, <2>3, <2>4, <2>6, <3>1
    <3>3. QED
      BY <3>1, <3>2
  <2>10. CASE style = "commented"
    <3>1. Len(e) = 3 /\ Len(Line) = Len(host) + 6
      BY <1>4, <2>5, <2>6, <2>7, <2>10
    <3>2. Line[Len(w) + 1] = "blank" /\ Line[Len(w) + 2] = "hash" /\ Line[Len(w) + 3] = "a"
      BY <2>5, <2>6, <2>10, <3>1
    <3>3. Len(w) + 1 = Len(host) + 4 /\ Len(w) + 2 = Len(host) + 5 /\ Len(w) + 3 = Len(host) + 6
      BY <1>4, <2>7
    <3>4. Line[Len(host) + 4] = "blank" /\ Line[Len(host) + 5] = "hash" /\ Line[Len(host) + 6] = "a"
      BY <3>2, <3>3
    <3>5. Len(Line) >= Len(host) + 3
      BY <1>4, <3>1
    <3>6. QED
      BY <2>6, <2>8, <2>9, <2>10, <3>1, <3>4, <3>5
  <2>11. CASE style = "quoted"
    <3>1. Len(Line) = Len(host) + 3
      BY <1>4, <2>5, <2>6, <2>7, <2>11
    <3>2. Len(Line) >= Len(host) + 3
      BY <1>4, <3>1
    <3>3. QED
      BY <2>6, <2>8, <2>9, <2>11, <3>1, <3>2
  <2>12. QED
    BY <1>6, <2>10, <2>11 DEF Style
<1>7. QED
  BY <1>5, <1>6

(* A text whose last character is no blank loses nothing to rtrim. *)
LEMMA RtrimNothing ==
    ASSUME NEW t \in Seq(Char), Len(t) >= 1, t[Len(t)] \notin Space
    PROVE  rtrim(t) = t
<1>1. Len(t) \in 1 .. Len(t) /\ \A j \in Len(t) + 1 .. Len(t) : t[j] \in Space
  OBVIOUS
<1>2. QED
  BY <1>1, RtrimAt, Whole

(* An unquoted host comes out of the line as it was meant. *)
LEMMA BareRead ==
    ASSUME host \in Seq(Char), style = "bare", Writable
    PROVE  load_config_file = host
<1> DEFINE places == {i \in 2 .. Len(Line) :
                        Line[i] = "hash" /\ Line[i - 1] \in Space /\ ~InQuotes(Line, i)}
<1>1. /\ Line \in Seq(Char) /\ Line[1] = "blank" /\ Len(Line) = Len(host) + 1
      /\ \A i \in 1 .. Len(host) : Line[i + 1] = host[i]
  BY LineParts DEF Style
<1>2. Len(host) \in Nat /\ Len(host) >= 1
  BY DEF Writable
<1>3. /\ host[1] \notin Space /\ host[1] # "hash" /\ host[Len(host)] \notin Space /\ host[1] # "quote"
      /\ \A i \in 2 .. Len(host) : host[i] = "hash" => host[i - 1] \notin Space
  BY <1>2 DEF Writable
<1>4. places = {}
  <2>1. ASSUME NEW i \in 2 .. Len(host) + 1, Line[i] = "hash", Line[i - 1] \in Space PROVE FALSE
    <3>1. i - 1 \in 1 .. Len(host) /\ i = (i - 1) + 1
      BY <1>2
    <3>2. host[i - 1] = "hash"
      BY <1>1, <2>1, <3>1
    <3>3. i # 2
      BY <1>3, <3>2
    <3>4. i - 2 \in 1 .. Len(host) /\ i - 1 = (i - 2) + 1 /\ i - 1 \in 2 .. Len(host) /\ (i - 1) - 1 = i - 2
      BY <1>2, <3>3
    <3>5. Line[i - 1] = host[i - 2]
      BY <1>1, <3>4
    <3>6. QED
      BY <1>3, <2>1, <3>2, <3>4, <3>5
  <2>2. QED
    BY <1>1, <2>1
<1>5. strip_inline_comment(Line) = Line
  <2>1. strip_inline_comment(Line) = rtrim(Line)
    BY <1>4 DEF strip_inline_comment, CutAt
  <2>2. Len(Line) >= 1 /\ Line[Len(Line)] \notin Space
    BY <1>1, <1>2, <1>3
  <2>3. QED
    BY <1>1, <2>1, <2>2, RtrimNothing
<1>6. ltrim(Line) = host
  <2>1. Len(Line) >= 2 /\ Line[1] \in Space /\ Line[2] \notin Space
    BY <1>1, <1>2, <1>3 DEF Space
  <2>2. ltrim(Line) = SubSeq(Line, 2, Len(Line))
    BY <1>1, <2>1, LtrimOne
  <2>3. /\ SubSeq(Line, 2, Len(Line)) \in Seq(Char) /\ Len(SubSeq(Line, 2, Len(Line))) = Len(host)
        /\ \A i \in 1 .. Len(host) : SubSeq(Line, 2, Len(Line))[i] = host[i]
    BY <1>1, <1>2
  <2>4. QED
    BY <2>2, <2>3, SeqEqual
<1>7. rtrim(host) = host
  BY <1>2, <1>3, RtrimNothing
<1>8. unquote(host) = host
  BY <1>3 DEF unquote
<1>9. QED
  BY <1>5, <1>6, <1>7, <1>8 DEF load_config_file

(* A hash sign inside the quotes starts no comment: the line has one quote *)
(* before it.                                                              *)
LEMMA InsideQuotes ==
    ASSUME host \in Seq(Char), style \in Style, style # "bare", Writable,
           NEW i \in 3 .. Len(host) + 3
    PROVE  InQuotes(Line, i)
<1>1. /\ Line[1] = "blank" /\ Line[2] = "quote"
      /\ \A k \in 1 .. Len(host) : Line[k + 2] = host[k]
  BY LineParts
<1>2. \A k \in 1 .. Len(host) : host[k] # "quote"
  BY DEF Writable
<1>3. \A j \in 1 .. i - 1 : Line[j] = "quote" <=> j = 2
  <2>1. ASSUME NEW j \in 3 .. i - 1 PROVE Line[j] # "quote"
    <3>1. j - 2 \in 1 .. Len(host) /\ j = (j - 2) + 2
      OBVIOUS
    <3>2. QED
      BY <1>1, <1>2, <3>1
  <2>2. \A j \in 1 .. i - 1 : j = 1 \/ j = 2 \/ j \in 3 .. i - 1
    OBVIOUS
  <2>3. QED
    BY <1>1, <2>1, <2>2
<1>4. {j \in 1 .. i - 1 : Line[j] = "quote"} = {2}
  <2>1. 2 \in 1 .. i - 1
    OBVIOUS
  <2>2. QED
    BY <1>3, <2>1
<1>5. Cardinality({2}) = 1
  BY FS_Singleton
<1>6. 1 % 2 = 1
  OBVIOUS
<1>7. QED
  BY <1>4, <1>5, <1>6, Zenon DEF InQuotes

(* The hash sign of the comment behind the quotes has two before it. *)
LEMMA BehindQuotes ==
    ASSUME host \in Seq(Char), style = "commented", Writable
    PROVE  ~InQuotes(Line, Len(host) + 5)
<1> DEFINE n == Len(host) + 3
<1>1. /\ Line[1] = "blank" /\ Line[2] = "quote" /\ Line[n] = "quote" /\ Line[n + 1] = "blank"
      /\ \A k \in 1 .. Len(host) : Line[k + 2] = host[k]
  <2>1. n + 1 = Len(host) + 4
    OBVIOUS
  <2>2. QED
    BY <2>1, LineParts DEF Style
<1>2. \A k \in 1 .. Len(host) : host[k] # "quote"
  BY DEF Writable
<1>3. n \in Nat /\ n >= 3 /\ (Len(host) + 5) - 1 = n + 1
  OBVIOUS
<1>4. \A j \in 1 .. n + 1 : Line[j] = "quote" <=> j = 2 \/ j = n
  <2>1. ASSUME NEW j \in 3 .. n - 1 PROVE Line[j] # "quote"
    <3>1. j - 2 \in 1 .. Len(host) /\ j = (j - 2) + 2
      OBVIOUS
    <3>2. QED
      BY <1>1, <1>2, <3>1
  <2>2. \A j \in 1 .. n + 1 : j = 1 \/ j = 2 \/ j \in 3 .. n - 1 \/ j = n \/ j = n + 1
    BY <1>3
  <2>3. n # n + 1 /\ n + 1 # 2
    BY <1>3
  <2> HIDE DEF n
  <2>4. QED
    BY <1>1, <1>3, <2>1, <2>2, <2>3
<1> HIDE DEF n
<1>5. {j \in 1 .. (Len(host) + 5) - 1 : Line[j] = "quote"} = {2} \cup {n}
  <2>1. 2 \in 1 .. n + 1 /\ n \in 1 .. n + 1
    BY <1>3
  <2>2. QED
    BY <1>3, <1>4, <2>1
<1>6. Cardinality({2} \cup {n}) = 2
  <2>1. IsFiniteSet({2}) /\ Cardinality({2}) = 1
    BY FS_Singleton
  <2>a. n \notin {2}
    BY <1>3
  <2>2. Cardinality({2} \cup {n}) = Cardinality({2}) + 1
    BY <2>1, <2>a, FS_AddElement
  <2>3. 1 + 1 = 2
    OBVIOUS
  <2>4. QED
    BY <2>1, <2>2, <2>3, Zenon
<1>7. 2 % 2 # 1
  OBVIOUS
<1>8. QED
  BY <1>5, <1>6, <1>7, Zenon DEF InQuotes

(* What is left of a line with quotes: it ends at the second quote. *)
LEMMA QuotedLine ==
    ASSUME host \in Seq(Char), style \in Style, style # "bare", Writable
    PROVE  /\ strip_inline_comment(Line) \in Seq(Char)
           /\ Len(strip_inline_comment(Line)) = Len(host) + 3
           /\ \A i \in 1 .. Len(host) + 3 : strip_inline_comment(Line)[i] = Line[i]
<1> DEFINE n == Len(host) + 3
           places == {i \in 2 .. Len(Line) :
                        Line[i] = "hash" /\ Line[i - 1] \in Space /\ ~InQuotes(Line, i)}
<1>1. /\ Line \in Seq(Char) /\ Len(Line) >= n /\ Line[2] = "quote" /\ Line[n] = "quote"
  BY LineParts
<1>2. n \in Nat /\ n >= 3 /\ Len(Line) \in Nat
  BY <1>1
<1>3. \A i \in 2 .. n : i \notin places
  <2>1. \A i \in 2 .. n : i = 2 \/ i \in 3 .. n
    BY <1>2
  <2>2. \A i \in 3 .. n : InQuotes(Line, i)
    BY InsideQuotes
  <2>3. QED
    BY <1>1, <2>1, <2>2
<1>4. strip_inline_comment(Line) = rtrim(IF places = {} THEN Line ELSE SubSeq(Line, 1, Least(places) - 1))
  BY DEF strip_inline_comment, CutAt
<1>5. CASE style = "quoted"
  <2>1. Len(Line) = n
    BY <1>5, LineParts
  <2>2. places = {}
    BY <1>3, <2>1
  <2>3. rtrim(Line) = Line
    BY <1>1, <1>2, <2>1, RtrimNothing DEF Space
  <2>4. strip_inline_comment(Line) = Line
    BY <1>4, <2>2, <2>3
  <2>5. QED
    BY <1>1, <2>1, <2>4
<1>6. CASE style = "commented"
  <2>1. Len(Line) = n + 3 /\ Line[n + 1] = "blank" /\ Line[n + 2] = "hash" /\ Line[n + 3] = "a"
    <3>1. n + 1 = Len(host) + 4 /\ n + 2 = Len(host) + 5 /\ n + 3 = Len(host) + 6
      OBVIOUS
    <3>2. QED
      BY <1>6, <3>1, LineParts
  <2>2. ~InQuotes(Line, n + 2)
    <3>1. n + 2 = Len(host) + 5
      OBVIOUS
    <3>2. QED
      BY <1>6, <3>1, BehindQuotes
  <2>3. n + 2 \in places
    <3>1. n + 2 \in 2 .. Len(Line) /\ (n + 2) - 1 = n + 1
      BY <1>2, <2>1
    <3>2. QED
      BY <2>1, <2>2, <3>1 DEF Space
  <2>4. \A i \in places : i = n + 2
    <3>1. \A i \in 2 .. Len(Line) : i \in 2 .. n \/ i = n + 1 \/ i = n + 2 \/ i = n + 3
      BY <1>2, <2>1
    <3>2. QED
      BY <1>3, <2>1, <3>1
  <2>5. places = {n + 2}
    BY <2>3, <2>4
  <2>6. Least(places) = n + 2
    <3>1. {n + 2} \in SUBSET (1 .. n + 2) /\ n + 2 \in Nat
      BY <1>2
    <3>2. Least({n + 2}) \in {n + 2}
      BY <3>1, Extremes
    <3>3. QED
      BY <2>5, <3>2
  <2> DEFINE t == SubSeq(Line, 1, n + 1)
  <2>7. strip_inline_comment(Line) = rtrim(t)
    <3>1. (n + 2) - 1 = n + 1
      BY <1>2
    <3>2. QED
      BY <1>4, <2>3, <2>6, <3>1
  <2>8. t \in Seq(Char) /\ Len(t) = n + 1 /\ \A i \in 1 .. n + 1 : t[i] = Line[i]
    BY <1>1, <1>2, <2>1
  <2> HIDE DEF t, n, places
  <2>9. rtrim(t) = SubSeq(t, 1, n)
    <3>1. n \in 1 .. Len(t) /\ t[n] \notin Space
      BY <1>1, <1>2, <2>8 DEF Space
    <3>2. \A j \in n + 1 .. Len(t) : j = n + 1 /\ j \in 1 .. n + 1
      BY <1>2, <2>8
    <3>3. \A j \in n + 1 .. Len(t) : t[j] \in Space
      BY <2>1, <2>8, <3>2 DEF Space
    <3>4. QED
      BY <2>8, <3>1, <3>3, RtrimAt
  <2>10. SubSeq(t, 1, n) \in Seq(Char) /\ Len(SubSeq(t, 1, n)) = n
         /\ \A i \in 1 .. n : SubSeq(t, 1, n)[i] = Line[i]
    BY <1>2, <2>8
  <2>11. QED
    BY <2>7, <2>9, <2>10 DEF n
<1>7. QED
  BY <1>5, <1>6 DEF Style

(* A quoted host comes out of the line as it was meant. *)
LEMMA QuotedRead ==
    ASSUME host \in Seq(Char), style \in Style, style # "bare", Writable
    PROVE  load_config_file = host
<1> DEFINE n == Len(host) + 3
           s == strip_inline_comment(Line)
           r == SubSeq(s, 2, n)
<1>1. /\ Line[1] = "blank" /\ Line[2] = "quote" /\ Line[n] = "quote"
      /\ \A i \in 1 .. Len(host) : Line[i + 2] = host[i]
  BY LineParts
<1>2. s \in Seq(Char) /\ Len(s) = n /\ \A i \in 1 .. n : s[i] = Line[i]
  BY QuotedLine
<1>3. Len(host) \in Nat /\ n \in Nat /\ n >= 3 /\ n = Len(host) + 3
  OBVIOUS
<1> HIDE DEF n, s
<1>4. s[1] = "blank" /\ s[2] = "quote" /\ s[n] = "quote" /\ \A i \in 1 .. Len(host) : s[i + 2] = host[i]
  <2>1. 1 \in 1 .. n /\ 2 \in 1 .. n /\ n \in 1 .. n /\ \A i \in 1 .. Len(host) : i + 2 \in 1 .. n
    BY <1>3
  <2>2. QED
    BY <1>1, <1>2, <2>1
<1>5. ltrim(s) = r
  BY <1>2, <1>3, <1>4, LtrimOne DEF Space
<1>6. /\ r \in Seq(Char) /\ Len(r) = Len(host) + 2
      /\ \A i \in 1 .. Len(host) + 2 : r[i] = s[i + 1]
  BY <1>2, <1>3
<1> HIDE DEF r
<1>7. r[1] = "quote" /\ r[Len(host) + 2] = "quote" /\ \A i \in 1 .. Len(host) : r[i + 1] = host[i]
  <2>1. r[1] = s[1 + 1] /\ r[Len(host) + 2] = s[(Len(host) + 2) + 1]
        /\ \A i \in 1 .. Len(host) : r[i + 1] = s[(i + 1) + 1]
    BY <1>3, <1>6
  <2>2. 1 + 1 = 2 /\ (Len(host) + 2) + 1 = n /\ \A i \in 1 .. Len(host) : (i + 1) + 1 = i + 2
    BY <1>3
  <2>3. QED
    BY <1>4, <2>1, <2>2
<1>8. rtrim(r) = r
  BY <1>3, <1>6, <1>7, RtrimNothing DEF Space
<1>9. unquote(r) = host
  <2>1. unquote(r) = SubSeq(r, 2, Len(host) + 1)
    <3>1. (Len(host) + 2) - 1 = Len(host) + 1 /\ Len(r) >= 2
      BY <1>3, <1>6
    <3>2. QED
      BY <1>6, <1>7, <3>1 DEF unquote
  <2>2. /\ SubSeq(r, 2, Len(host) + 1) \in Seq(Char) /\ Len(SubSeq(r, 2, Len(host) + 1)) = Len(host)
        /\ \A i \in 1 .. Len(host) : SubSeq(r, 2, Len(host) + 1)[i] = host[i]
    BY <1>3, <1>6, <1>7
  <2>3. QED
    BY <2>1, <2>2, SeqEqual
<1>10. QED
  BY <1>5, <1>8, <1>9 DEF load_config_file, s
-----------------------------------------------------------------------------
(* The characters of an escaped host. *)
EscapedChar == Char \cup {"t", "u", "0", "1"}

(* A replacement is made of them. *)
LEMMA EscapedType ==
    ASSUME NEW c \in Char
    PROVE  Escaped(c) \in Seq(EscapedChar)
<1>1. /\ c \in EscapedChar /\ "backslash" \in EscapedChar
      /\ "t" \in EscapedChar /\ "u" \in EscapedChar /\ "0" \in EscapedChar /\ "1" \in EscapedChar
  BY DEF Char, EscapedChar
<1>2. CASE c \in {"quote", "backslash"}
  <2>1. Escaped(c) = <<"backslash", c>>
    BY <1>2 DEF Escaped
  <2>2. QED
    BY <1>1, <2>1
<1>3. CASE c = "tab"
  <2>1. Escaped(c) = <<"backslash", "t">>
    BY <1>3 DEF Escaped
  <2>2. QED
    BY <1>1, <2>1
<1>4. CASE c = "control"
  <2>1. Escaped(c) = <<"backslash", "u", "0", "0", "0", "1">>
    BY <1>4 DEF Escaped
  <2>2. QED
    BY <1>1, <2>1
<1>5. CASE c \notin {"quote", "backslash", "tab", "control"}
  <2>1. Escaped(c) = <<c>>
    BY <1>5 DEF Escaped
  <2>2. QED
    BY <1>1, <2>1
<1>6. QED
  BY <1>2, <1>3, <1>4, <1>5

(* The value load_config_file hands to set_host_override is a text. *)
LEMMA LoadedIsText ==
    ASSUME host \in Seq(Char), style \in Style
    PROVE  load_config_file \in Seq(Char)
<1> DEFINE places == {i \in 2 .. Len(Line) :
                        Line[i] = "hash" /\ Line[i - 1] \in Space /\ ~InQuotes(Line, i)}
           cut == IF places = {} THEN Line ELSE SubSeq(Line, 1, Least(places) - 1)
<1>1. Line \in Seq(Char) /\ Len(Line) \in Nat
  BY LineParts
<1>2. cut \in Seq(Char)
  <2>1. CASE places = {}
    BY <1>1, <2>1
  <2>2. CASE places # {}
    <3>1. places \in SUBSET (1 .. Len(Line))
      BY <1>1
    <3> HIDE DEF places
    <3>2. Least(places) \in 1 .. Len(Line)
      BY <1>1, <2>2, <3>1, Extremes
    <3>3. SubSeq(Line, 1, Least(places) - 1) \in Seq(Char)
      BY <1>1, <3>2
    <3>4. QED
      BY <2>2, <3>3
  <2>3. QED
    BY <2>1, <2>2
<1>3. strip_inline_comment(Line) = rtrim(cut)
  BY DEF strip_inline_comment, CutAt
<1> HIDE DEF cut
<1>4. QED
  BY <1>2, <1>3, TrimTypes DEF load_config_file

(***************************************************************************)
(* What the type says of the texts, in terms of sequences, which is what   *)
(* the provers know.                                                       *)
(***************************************************************************)
TextInv ==
    /\ stage \in {"load", "resolve", "escape", "compose", "list", "enqueue"}
    /\ host \in Seq(Char) /\ Len(host) <= MaxHost /\ style \in Style
    /\ host_override \in Seq(Char) /\ Len(host_override) <= HostMax
    /\ hostbuf \in Seq(Char) /\ Len(hostbuf) <= HostMax
    /\ cursor \in 0 .. Len(hostbuf)
    /\ host_json \in Seq(EscapedChar) /\ Len(host_json) < HostJsonSize
    /\ size \in Nat /\ pos \in Nat
    /\ count \in 0 .. MaxCount /\ listed \in 0 .. count

(* TextInv is TypeOK said of sequences. *)
LEMMA TextInvMeans == TextInv => TypeOK
  BY SizeAssumption, TextIsSeq DEF TextInv, TypeOK, EscapedChar

(* The initial states satisfy TextInv. *)
LEMMA TextInit == Init => TextInv
<1> SUFFICES ASSUME Init PROVE TextInv
  OBVIOUS
<1>1. host \in Seq(Char) /\ Len(host) <= MaxHost
  BY SizeAssumption, TextIsSeq DEF Init
<1>2. HostMax >= 1 /\ HostJsonSize >= 1 /\ HostMax \in Nat /\ HostJsonSize \in Nat /\ MaxCount \in Nat
  BY SizeAssumption DEF SizesFit
<1>3. QED
  BY <1>1, <1>2 DEF Init, TextInv

(* Every step preserves TextInv. *)
LEMMA TextStep == TextInv /\ [Next]_vars => TextInv'
<1> SUFFICES ASSUME TextInv, [Next]_vars PROVE TextInv'
  OBVIOUS
<1> USE DEF config_vars, host_vars, event_vars
<1>0. HostMax >= 1 /\ HostJsonSize >= 1 /\ HostMax \in Nat /\ HostJsonSize \in Nat /\ MaxCount \in Nat
  BY SizeAssumption DEF SizesFit
<1>1. CASE Load
  <2>1. load_config_file \in Seq(Char)
    BY LoadedIsText DEF TextInv
  <2>2. host_override' \in Seq(Char) /\ Len(host_override') <= HostMax
    BY <1>0, <1>1, <2>1, TakeSeq DEF Load, set_host_override
  <2>3. QED
    BY <1>1, <2>2 DEF Load, TextInv
<1>2. CASE resolve_event_host
  <2>1. gethostname \in Seq(Char) /\ Len(gethostname) = 1
    BY DEF gethostname, Char
  <2>2. hostbuf' \in Seq(Char) /\ Len(hostbuf') <= HostMax
    BY <1>0, <1>2, <2>1 DEF resolve_event_host, TextInv
  <2>3. cursor' \in 0 .. Len(hostbuf') /\ host_json' \in Seq(EscapedChar) /\ Len(host_json') < HostJsonSize
    BY <1>0, <1>2, <2>2 DEF resolve_event_host
  <2>4. QED
    BY <1>2, <2>2, <2>3 DEF resolve_event_host, TextInv
<1>3. CASE json_escape_string
  <2>1. CASE EscapeDone
    BY <1>3, <2>1 DEF EscapeDone, json_escape_string, TextInv
  <2>2. CASE cursor < Len(hostbuf) /\ Len(host_json) + Len(Escaped(hostbuf[cursor + 1])) < HostJsonSize
             /\ EscapeNext(Escaped(hostbuf[cursor + 1]))
    <3>1. cursor + 1 \in 1 .. Len(hostbuf) /\ cursor' = cursor + 1
      BY <2>2 DEF EscapeNext, TextInv
    <3>2. hostbuf[cursor + 1] \in Char
      BY <3>1 DEF TextInv
    <3>3. Escaped(hostbuf[cursor + 1]) \in Seq(EscapedChar)
      BY <3>2, EscapedType
    <3>4. /\ host_json' = host_json \o Escaped(hostbuf[cursor + 1])
          /\ host_json \in Seq(EscapedChar)
      BY <2>2 DEF EscapeNext, TextInv
    <3>5. host_json' \in Seq(EscapedChar)
          /\ Len(host_json') = Len(host_json) + Len(Escaped(hostbuf[cursor + 1]))
      BY <3>3, <3>4
    <3>6. Len(host_json') < HostJsonSize
      BY <2>2, <3>5
    <3>7. cursor' \in 0 .. Len(hostbuf')
      BY <2>2, <3>1 DEF EscapeNext, TextInv
    <3>8. QED
      BY <2>2, <3>5, <3>6, <3>7 DEF EscapeNext, TextInv
  <2>3. QED
    BY <1>3, <2>1, <2>2 DEF json_escape_string
<1>4. CASE ComposeFixed
  <2>1. PICK b \in FixedBuffers : size' = b.size /\ pos' = b.text + Len(host_json)
    BY <1>4 DEF ComposeFixed
  <2>2. b.size \in Nat /\ b.text \in Nat
    BY SizeAssumption
  <2>3. size' \in Nat /\ pos' \in Nat
    BY <2>1, <2>2 DEF TextInv
  <2>4. QED
    BY <1>0, <1>4, <2>3 DEF ComposeFixed, TextInv
<1>5. CASE ComposeHeader
  <2>1. size' \in Nat /\ pos' \in Nat
    <3>1. JsonSize \in Nat /\ Header \in Nat
      BY SizeAssumption
    <3>2. Len(host_json) \in Nat
      BY DEF TextInv
    <3>3. size' = JsonSize /\ pos' = Header + Len(host_json)
      BY <1>5 DEF ComposeHeader
    <3>4. QED
      BY <3>1, <3>2, <3>3
  <2>2. QED
    BY <1>0, <1>5, <2>1 DEF ComposeHeader, TextInv
<1>6. CASE AddEntry
  <2>1. pos' \in Nat
    BY <1>6, SizeAssumption DEF AddEntry, TextInv
  <2>2. listed' \in 0 .. count'
    BY <1>6 DEF AddEntry, TextInv
  <2>3. QED
    BY <1>6, <2>1, <2>2 DEF AddEntry, TextInv
<1>7. CASE CloseList
  BY <1>7 DEF CloseList, Closing, TextInv
<1>8. CASE Enqueue
  <2>1. << >> \in Seq(Char) /\ << >> \in Seq(EscapedChar) /\ Len(<< >>) = 0
    OBVIOUS
  <2>2. QED
    BY <1>0, <1>8, <2>1 DEF Enqueue, TextInv
<1>9. CASE UNCHANGED vars
  BY <1>9 DEF vars, TextInv
<1>10. QED
  BY <1>1, <1>2, <1>3, <1>4, <1>5, <1>6, <1>7, <1>8, <1>9 DEF Next

(***************************************************************************)
(* The types of EventText: in particular the escaped host leaves room for  *)
(* the final NUL whatever the host is, and cursor stays inside it.         *)
(***************************************************************************)
THEOREM TypeCorrect == Spec => []TypeOK
<1>1. Init => TextInv
  BY TextInit
<1>2. TextInv /\ [Next]_vars => TextInv'
  BY TextStep
<1>3. TextInv => TypeOK
  BY TextInvMeans
<1>4. QED
  BY <1>1, <1>2, <1>3, PTL DEF Spec
-----------------------------------------------------------------------------
(***************************************************************************)
(* The host on its way: loaded, the field holds the intended host, cut;    *)
(* resolved, the event names what the field holds.                         *)
(***************************************************************************)
HostInv ==
    /\ stage # "load" /\ Writable => host_override = Take(host, HostMax)
    /\ stage \in {"escape", "compose", "list", "enqueue"} =>
         hostbuf = (IF host_override # << >> THEN host_override ELSE gethostname)

(* A line can express the host: then the field gets it. *)
LEMMA LoadedHost ==
    ASSUME host \in Seq(Char), style \in Style, Writable
    PROVE  load_config_file = host
  BY BareRead, QuotedRead

(* HostInv implies the property: the cut host is never empty, so that the  *)
(* system's own name does not take its place.                              *)
LEMMA HostMeans == TextInv /\ HostInv => HostSurvives
<1> SUFFICES ASSUME TextInv, HostInv, Writable, stage \in {"escape", "compose", "list", "enqueue"}
             PROVE  hostbuf = Take(host, HostMax)
  BY DEF HostSurvives
<1>1. HostMax \in Nat /\ HostMax >= 1
  BY SizeAssumption DEF SizesFit
<1>2. Len(host) >= 1 /\ host \in Seq(Char)
  BY DEF TextInv, Writable
<1>3. Len(Take(host, HostMax)) >= 1
  BY <1>1, <1>2, TakeSeq
<1>4. Take(host, HostMax) # << >>
  BY <1>3
<1>5. host_override = Take(host, HostMax)
  BY DEF HostInv
<1>6. QED
  BY <1>4, <1>5 DEF HostInv

(* Every step preserves HostInv. *)
LEMMA HostStep == TextInv /\ HostInv /\ [Next]_vars => HostInv'
<1> SUFFICES ASSUME TextInv, HostInv, [Next]_vars PROVE HostInv'
  OBVIOUS
<1> USE DEF config_vars, host_vars, event_vars
<1>0. host' = host /\ style' = style => (Writable' <=> Writable)
  BY DEF Writable
<1>g. gethostname' = gethostname
  BY DEF gethostname
<1>1. CASE Load
  <2>1. Writable => host_override' = Take(host, HostMax)
    BY <1>1, LoadedHost DEF Load, set_host_override, TextInv
  <2>2. QED
    BY <1>0, <1>1, <2>1 DEF Load, HostInv
<1>2. CASE resolve_event_host
  BY <1>0, <1>2, <1>g DEF resolve_event_host, HostInv
<1>3. CASE json_escape_string
  BY <1>0, <1>3, <1>g DEF json_escape_string, EscapeDone, EscapeNext, HostInv
<1>4. CASE ComposeFixed
  BY <1>0, <1>4, <1>g DEF ComposeFixed, HostInv
<1>5. CASE ComposeHeader
  BY <1>0, <1>5, <1>g DEF ComposeHeader, HostInv
<1>6. CASE AddEntry
  BY <1>0, <1>6, <1>g DEF AddEntry, HostInv
<1>7. CASE CloseList
  BY <1>0, <1>7, <1>g DEF CloseList, HostInv
<1>8. CASE Enqueue
  BY <1>0, <1>8 DEF Enqueue, HostInv
<1>9. CASE UNCHANGED vars
  BY <1>0, <1>9, <1>g DEF vars, HostInv
<1>10. QED
  BY <1>1, <1>2, <1>3, <1>4, <1>5, <1>6, <1>7, <1>8, <1>9 DEF Next

(***************************************************************************)
(* The host survives, whatever its length and characters: the comment, the *)
(* trims and the quotes of the configuration line give back the host that  *)
(* was meant, and every event names it, cut to the field.                  *)
(***************************************************************************)
THEOREM HostKept == Spec => []HostSurvives
<1>1. Init => TextInv /\ HostInv
  <2>1. Init => HostInv
    BY DEF Init, HostInv
  <2>2. QED
    BY <2>1, TextInit
<1>2. TextInv /\ HostInv /\ [Next]_vars => TextInv' /\ HostInv'
  BY TextStep, HostStep
<1>3. TextInv /\ HostInv => HostSurvives
  BY HostMeans
<1>4. QED
  BY <1>1, <1>2, <1>3, PTL DEF Spec
-----------------------------------------------------------------------------
(* While a list is written, the buffer is the large one and keeps room for *)
(* what closes the list: the loop's reserve is what makes an entry fit.    *)
BufferInv ==
    /\ stage = "list" => size = JsonSize /\ pos + Closing < size
    /\ stage = "enqueue" => 0 < pos /\ pos < size /\ pos < MAX_EVENT_SIZE

(* Every step preserves BufferInv. *)
LEMMA BufferStep == TextInv /\ BufferInv /\ [Next]_vars => BufferInv'
<1> SUFFICES ASSUME TextInv, BufferInv, [Next]_vars PROVE BufferInv'
  OBVIOUS
<1> USE DEF config_vars, host_vars, event_vars
<1>0. /\ JsonSize \in Nat /\ Reserve \in Nat /\ Header \in Nat /\ MAX_EVENT_SIZE \in Nat /\ HostJsonSize \in Nat
      /\ Header + HostJsonSize + 3 <= JsonSize /\ JsonSize <= MAX_EVENT_SIZE
      /\ Reserve < JsonSize
  BY SizeAssumption DEF SizesFit, Closing
<1>j. Len(host_json) \in Nat /\ Len(host_json) < HostJsonSize /\ pos \in Nat /\ size \in Nat
  BY DEF TextInv
<1>1. CASE Load
  BY <1>1 DEF Load, BufferInv
<1>2. CASE resolve_event_host
  BY <1>2 DEF resolve_event_host, BufferInv
<1>3. CASE json_escape_string
  BY <1>3 DEF json_escape_string, EscapeDone, EscapeNext, BufferInv
<1>4. CASE ComposeFixed
  <2>1. PICK b \in FixedBuffers : size' = b.size /\ pos' = b.text + Len(host_json)
    BY <1>4 DEF ComposeFixed
  <2>2. b.size \in Nat /\ b.text \in Nat /\ b.text # 0
    BY SizeAssumption
  <2>3. b.text + HostJsonSize <= b.size /\ b.size <= MAX_EVENT_SIZE
    BY SizeAssumption DEF SizesFit
  <2>4. 0 < pos' /\ pos' < size' /\ pos' < MAX_EVENT_SIZE
    BY <1>0, <1>j, <2>1, <2>2, <2>3
  <2>5. QED
    BY <1>4, <2>4 DEF ComposeFixed, BufferInv
<1>5. CASE ComposeHeader
  <2>1. size' = JsonSize /\ pos' + Closing < size'
    BY <1>0, <1>5, <1>j DEF ComposeHeader, Closing
  <2>2. QED
    BY <1>5, <2>1 DEF ComposeHeader, BufferInv
<1>6. CASE AddEntry
  <2>1. PICK n \in Entries : pos' = pos + n + (IF listed > 0 THEN 1 ELSE 0)
    BY <1>6 DEF AddEntry
  <2>2. n \in Nat /\ n + 3 < Reserve
    BY SizeAssumption DEF SizesFit, Closing
  <2>3. pos < JsonSize - Reserve /\ size' = JsonSize
    BY <1>6 DEF AddEntry, RoomInList, BufferInv
  <2>4. pos' = pos + n + 1 \/ pos' = pos + n
    BY <1>j, <2>1, <2>2
  <2>5. pos' + Closing < size'
    BY <1>0, <1>j, <2>2, <2>3, <2>4 DEF Closing
  <2>6. QED
    BY <1>6, <2>3, <2>5 DEF AddEntry, BufferInv
<1>7. CASE CloseList
  <2>1. pos' = pos + Closing /\ size' = size /\ size = JsonSize /\ pos + Closing < size
    BY <1>7 DEF CloseList, BufferInv
  <2>2. 0 < pos' /\ pos' < size' /\ pos' < MAX_EVENT_SIZE
    BY <1>0, <1>j, <2>1 DEF Closing
  <2>3. QED
    BY <1>7, <2>2 DEF CloseList, BufferInv
<1>8. CASE Enqueue
  BY <1>8 DEF Enqueue, BufferInv
<1>9. CASE UNCHANGED vars
  BY <1>9 DEF vars, BufferInv
<1>10. QED
  BY <1>1, <1>2, <1>3, <1>4, <1>5, <1>6, <1>7, <1>8, <1>9 DEF Next

(***************************************************************************)
(* No event is cut, for any host and any list, when the sizes satisfy      *)
(* SizesFit, as those of the code do (RealSizesFit in MC_EventText): the   *)
(* position never leaves the buffer and the queue takes the event.         *)
(***************************************************************************)
THEOREM Complete == Spec => []EventComplete
<1>1. Init => TextInv /\ BufferInv
  <2>1. Init => BufferInv
    BY DEF Init, BufferInv
  <2>2. QED
    BY <2>1, TextInit
<1>2. TextInv /\ BufferInv /\ [Next]_vars => TextInv' /\ BufferInv'
  BY TextStep, BufferStep
<1>3. BufferInv => EventComplete
  BY DEF BufferInv, EventComplete
<1>4. QED
  BY <1>1, <1>2, <1>3, PTL DEF Spec
-----------------------------------------------------------------------------
(***************************************************************************)
(* What a JSON reader makes of the escaped host.  Unescape is a recursive  *)
(* function of the place in the text; that it has the values it should     *)
(* have is shown with the least distance from the end at which it would    *)
(* not.                                                                    *)
(***************************************************************************)

(* One round of Unescape's recursion. *)
ReadRound(t, f, i) ==
    CASE i > Len(t) -> << >>
      [] i <= Len(t) /\ t[i] # "backslash" ->
           <<IF t[i] \in {"quote", "tab", "control"} THEN "?" ELSE t[i]>> \o f[i + 1]
      [] i = Len(t) /\ t[i] = "backslash" -> <<"?">>
      [] i < Len(t) /\ t[i] = "backslash" /\ t[i + 1] = "u" ->
           <<IF i + 5 <= Len(t) THEN "control" ELSE "?">> \o f[i + 6]
      [] OTHER -> <<IF t[i + 1] = "t" THEN "tab" ELSE t[i + 1]>> \o f[i + 2]

(* A function that obeys the recursion. *)
Reads(t, f) == f = [i \in 1 .. Len(t) + 6 |-> ReadRound(t, f, i)]

(* Unescape is the first value of such a function, if there is one. *)
LEMMA UnescapeChosen ==
    ASSUME NEW t
    PROVE  Unescape(t) = (CHOOSE f : Reads(t, f))[1]
  BY DEF Unescape, Reads, ReadRound

(* A round looks only at later places. *)
LEMMA RoundLooksAhead ==
    ASSUME NEW t \in Seq(EscapedChar), NEW f, NEW g, NEW i \in 1 .. Len(t) + 6,
           \A j \in i + 1 .. Len(t) + 6 : f[j] = g[j]
    PROVE  ReadRound(t, f, i) = ReadRound(t, g, i)
<1>1. Len(t) \in Nat
  OBVIOUS
<1>2. CASE i > Len(t)
  BY <1>2 DEF ReadRound
<1>3. CASE i <= Len(t)
  <2>1. f[i + 1] = g[i + 1] /\ f[i + 2] = g[i + 2] /\ f[i + 6] = g[i + 6]
    BY <1>1, <1>3
  <2>2. QED
    BY <2>1, Zenon DEF ReadRound
<1>4. QED
  BY <1>1, <1>2, <1>3

(* Some function obeys the recursion: one that does so from place m on     *)
(* gives one that does so from place m - 1 on.                             *)
LEMMA ReadsExists ==
    ASSUME NEW t \in Seq(EscapedChar)
    PROVE  \E f : Reads(t, f)
<1> DEFINE N == Len(t) + 6
           From(g, m) == /\ g = [i \in 1 .. N |-> g[i]]
                         /\ \A i \in m .. N : g[i] = ReadRound(t, g, i)
           Missing == {d \in 0 .. N : ~\E g : From(g, N + 1 - d)}
<1>1. N \in Nat
  OBVIOUS
<1> HIDE DEF N
<1>2. \E g : From(g, N + 1 - 0)
  <2> DEFINE g0 == [i \in 1 .. N |-> << >>]
  <2>1. From(g0, N + 1 - 0)
    <3>1. g0 = [i \in 1 .. N |-> g0[i]]
      OBVIOUS
    <3>2. \A i \in N + 1 - 0 .. N : FALSE
      BY <1>1
    <3>3. QED
      BY <3>1, <3>2
  <2>2. QED
    BY <2>1
<1>3. ASSUME NEW d \in 0 .. N - 1, NEW g, From(g, N + 1 - d)
      PROVE  \E h : From(h, N + 1 - (d + 1))
  <2> DEFINE m == N - d
             h == [i \in 1 .. N |-> IF i = m THEN ReadRound(t, g, m) ELSE g[i]]
  <2>1. m \in 1 .. N /\ N + 1 - (d + 1) = m /\ N + 1 - d = m + 1
    BY <1>1
  <2> HIDE DEF m
  <2>2. \A i \in 1 .. N : h[i] = IF i = m THEN ReadRound(t, g, m) ELSE g[i]
    OBVIOUS
  <2>3. h = [i \in 1 .. N |-> h[i]]
    OBVIOUS
  <2> HIDE DEF h
  <2>4. ASSUME NEW i \in m .. N PROVE h[i] = ReadRound(t, h, i)
    <3>1. i \in 1 .. N /\ i + 1 > m
      BY <1>1, <2>1
    <3>2. \A j \in i + 1 .. N : g[j] = h[j]
      BY <1>1, <2>1, <2>2, <3>1
    <3>3. ReadRound(t, g, i) = ReadRound(t, h, i)
      BY <3>1, <3>2, RoundLooksAhead DEF N
    <3>4. h[i] = ReadRound(t, g, i)
      <4>1. CASE i = m
        BY <2>2, <3>1, <4>1
      <4>2. CASE i # m
        <5>1. i \in N + 1 - d .. N
          BY <1>1, <2>1, <4>2
        <5>2. g[i] = ReadRound(t, g, i)
          BY <1>3, <5>1
        <5>3. h[i] = g[i]
          BY <2>2, <3>1, <4>2
        <5>4. QED
          BY <5>2, <5>3
      <4>3. QED
        BY <4>1, <4>2
    <3>5. QED
      BY <3>3, <3>4
  <2>5. From(h, N + 1 - (d + 1))
    BY <2>1, <2>3, <2>4
  <2>6. QED
    BY <2>5
<1> HIDE DEF From
<1>4. Missing = {}
  <2> SUFFICES ASSUME Missing # {} PROVE FALSE
    OBVIOUS
  <2>1. Missing \in SUBSET Nat
    BY <1>1
  <2> HIDE DEF Missing
  <2>2. PICK d \in Missing : \A j \in Missing : d <= j
    BY <2>1, LeastExists
  <2> USE DEF Missing
  <2>3. d \in 0 .. N /\ ~\E g : From(g, N + 1 - d)
    OBVIOUS
  <2>4. d # 0
    BY <1>2, <2>3
  <2>5. d - 1 \in 0 .. N - 1 /\ d - 1 \in 0 .. N /\ ~(d <= d - 1) /\ (d - 1) + 1 = d
    BY <1>1, <2>3, <2>4
  <2>6. \E g : From(g, N + 1 - (d - 1))
    BY <2>2, <2>5
  <2>7. \E h : From(h, N + 1 - ((d - 1) + 1))
    BY <1>3, <2>5, <2>6
  <2>8. QED
    BY <2>3, <2>5, <2>7
<1>5. N \in 0 .. N /\ N + 1 - N = 1
  BY <1>1
<1>6. PICK f : From(f, N + 1 - N)
  BY <1>4, <1>5
<1>7. f = [i \in 1 .. N |-> f[i]] /\ \A i \in 1 .. N : f[i] = ReadRound(t, f, i)
  BY <1>5, <1>6 DEF From
<1>8. f = [i \in 1 .. N |-> ReadRound(t, f, i)]
  <2> DEFINE r == [i \in 1 .. N |-> ReadRound(t, f, i)]
  <2>1. \A i \in 1 .. N : r[i] = f[i]
    BY <1>7
  <2>2. r = [i \in 1 .. N |-> f[i]]
    BY <1>7
  <2>3. QED
    BY <1>7, <2>2
<1>9. QED
  BY <1>8 DEF Reads, N

(* The seven kinds of characters and their replacements. *)
LEMMA EscapeCases ==
    ASSUME NEW c \in Char
    PROVE  \/ /\ c \in {"a", "blank", "hash"} /\ Escaped(c) = <<c>>
           \/ /\ c \in {"quote", "backslash"} /\ Escaped(c) = <<"backslash", c>>
           \/ /\ c = "tab" /\ Escaped(c) = <<"backslash", "t">>
           \/ /\ c = "control" /\ Escaped(c) = <<"backslash", "u", "0", "0", "0", "1">>
  BY DEF Char, Escaped

(* A replacement is not empty. *)
LEMMA EscapeLength ==
    ASSUME NEW c \in Char
    PROVE  Len(Escaped(c)) \in Nat /\ Len(Escaped(c)) >= 1
<1>1. \/ Escaped(c) = <<c>> \/ Escaped(c) = <<"backslash", c>>
      \/ Escaped(c) = <<"backslash", "t">>
      \/ Escaped(c) = <<"backslash", "u", "0", "0", "0", "1">>
  BY EscapeCases
<1>2. /\ Len(<<c>>) = 1 /\ Len(<<"backslash", c>>) = 2 /\ Len(<<"backslash", "t">>) = 2
      /\ Len(<<"backslash", "u", "0", "0", "0", "1">>) = 6
  OBVIOUS
<1>3. Len(Escaped(c)) = 1 \/ Len(Escaped(c)) = 2 \/ Len(Escaped(c)) = 6
  BY <1>1, <1>2, Zenon
<1>4. QED
  BY <1>3

(* The reader at the start of a whole replacement gets the character and   *)
(* goes on behind it.                                                      *)
LEMMA ReadsEscape ==
    ASSUME NEW c \in Char, NEW t \in Seq(EscapedChar), NEW f, NEW i \in Nat \ {0},
           i + Len(Escaped(c)) <= Len(t) + 1,
           \A j \in 1 .. Len(Escaped(c)) : t[i + j - 1] = Escaped(c)[j]
    PROVE  ReadRound(t, f, i) = <<c>> \o f[i + Len(Escaped(c))]
<1> DEFINE n == Len(t)
<1>0. n \in Nat
  OBVIOUS
<1>1. CASE c \in {"a", "blank", "hash"} /\ Escaped(c) = <<c>>
  <2>1. Len(Escaped(c)) = 1 /\ Escaped(c)[1] = c
    BY <1>1
  <2>2. i <= n /\ t[i] = c /\ ~(i > n)
    BY <1>0, <2>1
  <2>3. t[i] # "backslash" /\ t[i] \notin {"quote", "tab", "control"}
    BY <1>1, <2>2
  <2>4. ReadRound(t, f, i) = <<t[i]>> \o f[i + 1]
    BY <2>2, <2>3 DEF ReadRound
  <2>5. QED
    BY <2>1, <2>2, <2>4
<1>2. CASE c \in {"quote", "backslash"} /\ Escaped(c) = <<"backslash", c>>
  <2>1. Len(Escaped(c)) = 2 /\ Escaped(c)[1] = "backslash" /\ Escaped(c)[2] = c
    BY <1>2
  <2>2. i < n /\ t[i] = "backslash" /\ t[i + 1] = c /\ ~(i > n) /\ i # n
    BY <1>0, <2>1
  <2>3. t[i + 1] # "u" /\ t[i + 1] # "t"
    BY <1>2, <2>2
  <2>4. ReadRound(t, f, i) = <<t[i + 1]>> \o f[i + 2]
    BY <2>2, <2>3 DEF ReadRound
  <2>5. QED
    BY <2>1, <2>2, <2>4
<1>3. CASE c = "tab" /\ Escaped(c) = <<"backslash", "t">>
  <2>1. Len(Escaped(c)) = 2 /\ Escaped(c)[1] = "backslash" /\ Escaped(c)[2] = "t"
    BY <1>3
  <2>2. i < n /\ t[i] = "backslash" /\ t[i + 1] = "t" /\ ~(i > n) /\ i # n
    BY <1>0, <2>1
  <2>3. ReadRound(t, f, i) = <<"tab">> \o f[i + 2]
    BY <2>2 DEF ReadRound
  <2>4. QED
    BY <1>3, <2>1, <2>3
<1>4. CASE c = "control" /\ Escaped(c) = <<"backslash", "u", "0", "0", "0", "1">>
  <2>1. Len(Escaped(c)) = 6 /\ Escaped(c)[1] = "backslash" /\ Escaped(c)[2] = "u"
    BY <1>4
  <2>2. i < n /\ t[i] = "backslash" /\ t[i + 1] = "u" /\ ~(i > n) /\ i # n /\ i + 5 <= n
    <3>1. 1 \in 1 .. Len(Escaped(c)) /\ 2 \in 1 .. Len(Escaped(c)) /\ i + 1 - 1 = i /\ i + 2 - 1 = i + 1
      BY <2>1
    <3>2. t[i] = "backslash" /\ t[i + 1] = "u"
      BY <2>1, <3>1
    <3>3. i + 6 <= n + 1
      BY <2>1
    <3> HIDE DEF n
    <3>4. i < n /\ ~(i > n) /\ i # n /\ i + 5 <= n
      BY <1>0, <3>3
    <3>5. QED
      BY <3>2, <3>4
  <2>3. ReadRound(t, f, i) = <<"control">> \o f[i + 6]
    BY <2>2 DEF ReadRound
  <2>4. QED
    BY <1>4, <2>1, <2>3
<1>5. QED
  BY <1>1, <1>2, <1>3, <1>4, EscapeCases

(* The escaped text t is the replacements of the first n characters of h,  *)
(* each of them whole: that of the k-th starts at at[k].                   *)
InWholes(t, h, n, at) ==
    /\ at \in [1 .. n + 1 -> Nat \ {0}]
    /\ at[1] = 1 /\ at[n + 1] = Len(t) + 1
    /\ \A k \in 1 .. n :
         /\ at[k + 1] = at[k] + Len(Escaped(h[k])) /\ at[k + 1] <= Len(t) + 1
         /\ \A j \in 1 .. Len(Escaped(h[k])) : t[at[k] + j - 1] = Escaped(h[k])[j]

(* The rest of a text from k on is its k-th character and the rest.        *)
LEMMA RestOf ==
    ASSUME NEW h \in Seq(Char), NEW n \in 0 .. Len(h), NEW k \in 1 .. n
    PROVE  <<h[k]>> \o SubSeq(h, k + 1, n) = SubSeq(h, k, n)
<1> DEFINE a == <<h[k]>>
           r == SubSeq(h, k + 1, n)
           s == SubSeq(h, k, n)
<1>0. Len(h) \in Nat /\ n \in Nat /\ n <= Len(h) /\ k \in Nat /\ 1 <= k /\ k <= n
  OBVIOUS
<1>1. a \in Seq(Char) /\ Len(a) = 1 /\ a[1] = h[k]
  BY <1>0, OneChar
<1>2. r \in Seq(Char) /\ Len(r) = n - k /\ \A i \in 1 .. n - k : r[i] = h[k + i]
  BY <1>0
<1>3. s \in Seq(Char) /\ Len(s) = n - k + 1 /\ \A i \in 1 .. n - k + 1 : s[i] = h[k + i - 1]
  BY <1>0
<1> HIDE DEF a, r, s
<1>4. /\ a \o r \in Seq(Char) /\ Len(a \o r) = Len(a) + Len(r)
      /\ \A i \in 1 .. Len(a) : (a \o r)[i] = a[i]
      /\ \A i \in 1 .. Len(r) : (a \o r)[Len(a) + i] = r[i]
  BY <1>1, <1>2, Joined
<1> DEFINE z == a \o r
<1>5. z \in Seq(Char) /\ Len(z) = n - k + 1 /\ z[1] = h[k] /\ \A i \in 1 .. n - k : z[1 + i] = h[k + i]
  <2>1. Len(a) = 1 /\ Len(r) = n - k
    BY <1>1, <1>2
  <2>2. z \in Seq(Char) /\ Len(z) = 1 + (n - k)
    BY <1>4, <2>1
  <2>3. z[1] = h[k]
    BY <1>1, <1>4
  <2>4. \A i \in 1 .. n - k : z[1 + i] = h[k + i]
    BY <1>2, <1>4, <2>1
  <2>5. 1 + (n - k) = n - k + 1
    BY <1>0
  <2>6. QED
    BY <2>2, <2>3, <2>4, <2>5
<1> HIDE DEF z
<1>6. \A i \in 1 .. n - k + 1 : z[i] = s[i]
  <2> SUFFICES ASSUME NEW i \in 1 .. n - k + 1 PROVE z[i] = s[i]
    OBVIOUS
  <2>1. CASE i = 1
    BY <1>0, <1>3, <1>5, <2>1
  <2>2. CASE i # 1
    <3>1. i - 1 \in 1 .. n - k /\ 1 + (i - 1) = i /\ k + (i - 1) = k + i - 1
      BY <1>0, <2>2
    <3>2. z[i] = h[k + i - 1]
      BY <1>5, <3>1
    <3>3. QED
      BY <1>3, <3>2
  <2>3. QED
    BY <2>1, <2>2
<1>7. z = s
  BY <1>0, <1>3, <1>5, <1>6
<1>8. QED
  BY <1>7 DEF z, a, r, s

(* So the reader of a text of whole replacements gets the characters back. *)
LEMMA WholesReadBack ==
    ASSUME NEW h \in Seq(Char), NEW n \in 0 .. Len(h), NEW t \in Seq(EscapedChar), NEW at,
           InWholes(t, h, n, at)
    PROVE  Unescape(t) = SubSeq(h, 1, n)
<1> DEFINE f == CHOOSE g : Reads(t, g)
           N == Len(t) + 6
<1>0. N \in Nat /\ Len(t) \in Nat /\ n \in Nat /\ n <= Len(h) /\ Len(h) \in Nat /\ N = Len(t) + 6
  OBVIOUS
<1>1. Reads(t, f)
  BY ReadsExists
<1>2. Unescape(t) = f[1]
  BY UnescapeChosen
<1> HIDE DEF f, N
<1>3. \A i \in 1 .. N : f[i] = ReadRound(t, f, i)
  BY <1>1 DEF Reads, N
<1> DEFINE Wrong == {d \in 0 .. n : f[at[n + 1 - d]] # SubSeq(h, n + 1 - d, n)}
<1>4. f[at[n + 1 - 0]] = SubSeq(h, n + 1 - 0, n)
  <2>1. at[n + 1 - 0] = Len(t) + 1 /\ Len(t) + 1 \in 1 .. N
    BY <1>0 DEF InWholes
  <2>2. f[Len(t) + 1] = << >>
    <3>1. Len(t) + 1 > Len(t)
      BY <1>0
    <3>2. ReadRound(t, f, Len(t) + 1) = << >>
      BY <1>0, <3>1 DEF ReadRound
    <3>3. QED
      BY <1>3, <2>1, <3>2, Zenon
  <2>3. SubSeq(h, n + 1 - 0, n) = << >>
    BY <1>0
  <2>4. QED
    BY <2>1, <2>2, <2>3
<1>5. ASSUME NEW k \in 1 .. n, f[at[k + 1]] = SubSeq(h, k + 1, n)
      PROVE  f[at[k]] = SubSeq(h, k, n)
  <2> DEFINE c == h[k]
             i == at[k]
  <2>1. c \in Char /\ k \in 1 .. n + 1
    BY <1>0
  <2>2. i \in Nat \ {0}
    BY <2>1 DEF InWholes
  <2>3. /\ at[k + 1] = i + Len(Escaped(c)) /\ at[k + 1] <= Len(t) + 1
        /\ \A j \in 1 .. Len(Escaped(c)) : t[i + j - 1] = Escaped(c)[j]
    BY DEF InWholes
  <2> HIDE DEF c, i
  <2>4. Len(Escaped(c)) \in Nat
    BY <2>1, EscapedType
  <2>5. i + Len(Escaped(c)) <= Len(t) + 1 /\ i \in 1 .. N
    BY <1>0, <2>2, <2>3, <2>4
  <2>6. ReadRound(t, f, i) = <<c>> \o f[at[k + 1]]
    <3>1. ReadRound(t, f, i) = <<c>> \o f[i + Len(Escaped(c))]
      BY <2>1, <2>2, <2>3, <2>5, ReadsEscape, Zenon
    <3>2. QED
      BY <2>3, <3>1, Zenon
  <2>7. f[i] = <<c>> \o SubSeq(h, k + 1, n)
    BY <1>3, <1>5, <2>5, <2>6
  <2>8. <<c>> \o SubSeq(h, k + 1, n) = SubSeq(h, k, n)
    BY RestOf DEF c
  <2>9. QED
    BY <2>7, <2>8 DEF i
<1>6. Wrong = {}
  <2> SUFFICES ASSUME Wrong # {} PROVE FALSE
    OBVIOUS
  <2>1. Wrong \in SUBSET Nat
    OBVIOUS
  <2> HIDE DEF Wrong
  <2>2. PICK d \in Wrong : \A j \in Wrong : d <= j
    BY <2>1, LeastExists
  <2>3. d \in 0 .. n /\ f[at[n + 1 - d]] # SubSeq(h, n + 1 - d, n)
    BY DEF Wrong
  <2>4. d # 0
    BY <1>4, <2>3
  <2>5. /\ d - 1 \in 0 .. n /\ ~(d <= d - 1)
        /\ n + 1 - (d - 1) = (n + 1 - d) + 1 /\ n + 1 - d \in 1 .. n
    BY <1>0, <2>3, <2>4
  <2>6. f[at[n + 1 - (d - 1)]] = SubSeq(h, n + 1 - (d - 1), n)
    BY <2>2, <2>5 DEF Wrong
  <2>7. f[at[n + 1 - d]] = SubSeq(h, n + 1 - d, n)
    BY <1>5, <2>5, <2>6
  <2>8. QED
    BY <2>3, <2>7
<1>7. n \in 0 .. n /\ n + 1 - n = 1
  BY <1>0
<1>8. f[at[1]] = SubSeq(h, 1, n)
  BY <1>6, <1>7
<1>9. at[1] = 1
  BY DEF InWholes
<1>10. QED
  BY <1>2, <1>8, <1>9

(* One more whole replacement. *)
LEMMA WholesGrow ==
    ASSUME NEW h \in Seq(Char), NEW n \in Nat, n < Len(h), NEW t \in Seq(EscapedChar), NEW at,
           InWholes(t, h, n, at)
    PROVE  \E new : InWholes(t \o Escaped(h[n + 1]), h, n + 1, new)
<1> DEFINE e == Escaped(h[n + 1])
           t2 == t \o e
           new == [k \in 1 .. n + 2 |-> IF k = n + 2 THEN Len(t2) + 1 ELSE at[k]]
<1>0. Len(h) \in Nat /\ n + 1 \in 1 .. Len(h) /\ h[n + 1] \in Char
  OBVIOUS
<1>1. e \in Seq(EscapedChar) /\ Len(e) \in Nat /\ Len(t) \in Nat
  BY <1>0, EscapedType
<1> HIDE DEF e
<1>2. /\ Len(t2) = Len(t) + Len(e)
      /\ \A i \in 1 .. Len(t) : t2[i] = t[i]
      /\ \A i \in 1 .. Len(e) : t2[Len(t) + i] = e[i]
  BY <1>1
<1> HIDE DEF t2
<1>3. /\ \A k \in 1 .. n + 1 : at[k] \in Nat \ {0}
      /\ at[1] = 1 /\ at[n + 1] = Len(t) + 1
      /\ \A k \in 1 .. n :
           /\ at[k + 1] = at[k] + Len(Escaped(h[k])) /\ at[k + 1] <= Len(t) + 1
           /\ \A j \in 1 .. Len(Escaped(h[k])) : t[at[k] + j - 1] = Escaped(h[k])[j]
  BY DEF InWholes
<1>4. /\ new[n + 2] = Len(t2) + 1
      /\ \A k \in 1 .. n + 1 : new[k] = at[k]
  OBVIOUS
<1>5. new \in [1 .. (n + 1) + 1 -> Nat \ {0}]
  <2>1. Len(t2) + 1 \in Nat \ {0}
    BY <1>1, <1>2
  <2>2. \A k \in 1 .. n + 2 : (IF k = n + 2 THEN Len(t2) + 1 ELSE at[k]) \in Nat \ {0}
    BY <1>3, <2>1
  <2>3. n + 2 = (n + 1) + 1
    OBVIOUS
  <2>4. QED
    BY <2>2, <2>3
<1> HIDE DEF new
<1>6. ASSUME NEW k \in 1 .. n
      PROVE  /\ new[k + 1] = new[k] + Len(Escaped(h[k])) /\ new[k + 1] <= Len(t2) + 1
             /\ \A j \in 1 .. Len(Escaped(h[k])) : t2[new[k] + j - 1] = Escaped(h[k])[j]
  <2> DEFINE l == Len(Escaped(h[k]))
  <2>1. new[k] = at[k] /\ new[k + 1] = at[k + 1]
    BY <1>4
  <2>2. at[k] \in Nat \ {0} /\ at[k + 1] = at[k] + l /\ at[k + 1] <= Len(t) + 1
    BY <1>3
  <2>3. l \in Nat
    <3>1. h[k] \in Char
      BY <1>0
    <3>2. QED
      BY <3>1, EscapedType
  <2>4. \A j \in 1 .. l : t[at[k] + j - 1] = Escaped(h[k])[j]
    BY <1>3
  <2> HIDE DEF l
  <2>5. \A j \in 1 .. l : at[k] + j - 1 \in 1 .. Len(t)
    <3> DEFINE p == at[k]
               q == Len(t)
    <3>1. p \in Nat /\ p >= 1 /\ p + l <= q + 1 /\ q \in Nat
      BY <1>1, <2>2
    <3> HIDE DEF p, q
    <3>2. \A j \in 1 .. l : p + j - 1 \in 1 .. q
      BY <2>3, <3>1
    <3>3. QED
      BY <3>2 DEF p, q
  <2>6. \A j \in 1 .. l : t2[at[k] + j - 1] = Escaped(h[k])[j]
    BY <1>2, <2>4, <2>5
  <2>7. at[k + 1] <= Len(t2) + 1
    BY <1>1, <1>2, <2>2, <2>3
  <2>8. QED
    BY <2>1, <2>2, <2>6, <2>7 DEF l
<1>7. /\ new[(n + 1) + 1] = new[n + 1] + Len(e) /\ new[(n + 1) + 1] <= Len(t2) + 1
      /\ \A j \in 1 .. Len(e) : t2[new[n + 1] + j - 1] = e[j]
  <2>1. new[n + 1] = Len(t) + 1 /\ new[(n + 1) + 1] = Len(t2) + 1 /\ (n + 1) + 1 = n + 2
    BY <1>3, <1>4
  <2>2. \A j \in 1 .. Len(e) : (Len(t) + 1) + j - 1 = Len(t) + j
    BY <1>1
  <2>3. \A j \in 1 .. Len(e) : t2[new[n + 1] + j - 1] = e[j]
    BY <1>2, <2>1, <2>2
  <2>4. QED
    BY <1>1, <1>2, <2>1, <2>3
<1>8. new[1] = 1 /\ new[(n + 1) + 1] = Len(t2) + 1
  <2>1. 1 \in 1 .. n + 1 /\ (n + 1) + 1 = n + 2
    OBVIOUS
  <2>2. new[1] = at[1]
    BY <1>4, <2>1
  <2>3. QED
    BY <1>3, <1>4, <2>1, <2>2
<1>9. InWholes(t2, h, n + 1, new)
  <2>1. ASSUME NEW k \in 1 .. n + 1
        PROVE  /\ new[k + 1] = new[k] + Len(Escaped(h[k])) /\ new[k + 1] <= Len(t2) + 1
               /\ \A j \in 1 .. Len(Escaped(h[k])) : t2[new[k] + j - 1] = Escaped(h[k])[j]
    <3>1. CASE k = n + 1
      BY <1>7, <3>1 DEF e
    <3>2. CASE k # n + 1
      BY <1>6, <3>2
    <3>3. QED
      BY <3>1, <3>2
  <2>2. QED
    BY <1>5, <1>8, <2>1 DEF InWholes
<1>10. QED
  BY <1>9 DEF t2, e

(* The escaped host is made of whole replacements, and when the loop has   *)
(* left characters out, the next one did not fit.                          *)
ReadInv ==
    /\ stage \in {"escape", "compose", "list", "enqueue"} =>
         \E at : InWholes(host_json, hostbuf, cursor, at)
    /\ stage \in {"compose", "list", "enqueue"} /\ cursor < Len(hostbuf) =>
         Len(host_json) + Len(Escaped(hostbuf[cursor + 1])) >= HostJsonSize

(* Nothing escaped yet. *)
LEMMA WholesNone ==
    ASSUME NEW h
    PROVE  \E at : InWholes(<< >>, h, 0, at)
<1> DEFINE at == [k \in 1 .. 0 + 1 |-> 1]
<1>1. at \in [1 .. 0 + 1 -> Nat \ {0}] /\ at[1] = 1 /\ at[0 + 1] = Len(<< >>) + 1
  OBVIOUS
<1>2. \A k \in 1 .. 0 : FALSE
  OBVIOUS
<1>3. InWholes(<< >>, h, 0, at)
  BY <1>1, <1>2 DEF InWholes
<1>4. QED
  BY <1>3

(* Every step preserves ReadInv. *)
LEMMA ReadStep == TextInv /\ ReadInv /\ [Next]_vars => ReadInv'
<1> SUFFICES ASSUME TextInv, ReadInv, [Next]_vars PROVE ReadInv'
  OBVIOUS
<1> USE DEF config_vars, host_vars, event_vars
<1>1. CASE Load
  BY <1>1 DEF Load, ReadInv
<1>2. CASE resolve_event_host
  <2>1. stage' = "escape" /\ cursor' = 0 /\ host_json' = << >>
    BY <1>2 DEF resolve_event_host
  <2>2. \E at : InWholes(<< >>, hostbuf', 0, at)
    BY WholesNone
  <2>3. \E at : InWholes(host_json', hostbuf', cursor', at)
    BY <2>1, <2>2, Zenon
  <2>4. QED
    BY <2>1, <2>3 DEF ReadInv
<1>3. CASE json_escape_string
  <2>1. PICK at : InWholes(host_json, hostbuf, cursor, at)
    BY <1>3 DEF json_escape_string, ReadInv
  <2>2. /\ hostbuf \in Seq(Char) /\ host_json \in Seq(EscapedChar)
        /\ cursor \in Nat /\ cursor <= Len(hostbuf) /\ Len(hostbuf) \in Nat
        /\ HostJsonSize \in Nat /\ Len(host_json) \in Nat
    BY SizeAssumption DEF TextInv
  <2>3. CASE cursor < Len(hostbuf) /\ EscapeNext(Escaped(hostbuf[cursor + 1]))
    <3>1. /\ host_json' = host_json \o Escaped(hostbuf[cursor + 1])
          /\ cursor' = cursor + 1 /\ hostbuf' = hostbuf /\ stage' = stage
      BY <2>3 DEF EscapeNext
    <3>2. \E new : InWholes(host_json \o Escaped(hostbuf[cursor + 1]), hostbuf, cursor + 1, new)
      BY <2>1, <2>2, <2>3, WholesGrow
    <3>3. \E new : InWholes(host_json', hostbuf', cursor', new)
      BY <3>1, <3>2, Zenon
    <3>4. stage' = "escape"
      BY <1>3, <3>1 DEF json_escape_string
    <3>5. QED
      BY <3>3, <3>4 DEF ReadInv
  <2>4. CASE EscapeDone /\ ~(cursor < Len(hostbuf) /\ Len(host_json) + 1 < HostJsonSize
                /\ Len(host_json) + Len(Escaped(hostbuf[cursor + 1])) < HostJsonSize)
    <3>1. host_json' = host_json /\ cursor' = cursor /\ hostbuf' = hostbuf /\ stage' = "compose"
      BY <2>4 DEF EscapeDone
    <3>2. ASSUME cursor < Len(hostbuf)
          PROVE  Len(host_json) + Len(Escaped(hostbuf[cursor + 1])) >= HostJsonSize
      <4> DEFINE l == Len(Escaped(hostbuf[cursor + 1]))
      <4>1. hostbuf[cursor + 1] \in Char
        BY <2>2, <3>2
      <4>2. l \in Nat /\ l >= 1
        BY <4>1, EscapeLength
      <4> HIDE DEF l
      <4>3. ~(Len(host_json) + 1 < HostJsonSize /\ Len(host_json) + l < HostJsonSize)
        BY <2>4, <3>2 DEF l
      <4>4. Len(host_json) + l >= HostJsonSize
        BY <2>2, <4>2, <4>3
      <4>5. QED
        BY <4>4 DEF l
    <3>3. \E new : InWholes(host_json', hostbuf', cursor', new)
      BY <2>1, <3>1, Zenon
    <3>4. cursor' < Len(hostbuf') =>
            Len(host_json') + Len(Escaped(hostbuf'[cursor' + 1])) >= HostJsonSize
      BY <3>1, <3>2
    <3>5. QED
      BY <3>3, <3>4 DEF ReadInv
  <2>5. QED
    BY <1>3, <2>3, <2>4, Zenon DEF json_escape_string
<1>4. CASE ComposeFixed \/ ComposeHeader \/ AddEntry \/ CloseList
  <2>1. /\ host_json' = host_json /\ cursor' = cursor /\ hostbuf' = hostbuf
        /\ stage \in {"compose", "list"}
    BY <1>4 DEF ComposeFixed, ComposeHeader, AddEntry, CloseList
  <2>2. PICK at : InWholes(host_json, hostbuf, cursor, at)
    BY <2>1 DEF ReadInv
  <2>3. \E new : InWholes(host_json', hostbuf', cursor', new)
    BY <2>1, <2>2, Zenon
  <2>4. cursor' < Len(hostbuf') =>
          Len(host_json') + Len(Escaped(hostbuf'[cursor' + 1])) >= HostJsonSize
    BY <2>1 DEF ReadInv
  <2>5. QED
    BY <2>3, <2>4 DEF ReadInv
<1>5. CASE Enqueue
  BY <1>5 DEF Enqueue, ReadInv
<1>6. CASE UNCHANGED vars
  BY <1>6 DEF vars, ReadInv
<1>7. QED
  BY <1>1, <1>2, <1>3, <1>4, <1>5, <1>6 DEF Next

(* Whole replacements are read back. *)
LEMMA ReadMeans == TextInv /\ ReadInv => HostReadsBack
<1> SUFFICES ASSUME TextInv, ReadInv PROVE HostReadsBack
  OBVIOUS
<1>1. ASSUME stage \in {"escape", "compose", "list", "enqueue"}
      PROVE  Unescape(host_json) = Take(hostbuf, cursor)
  <2>1. PICK at : InWholes(host_json, hostbuf, cursor, at)
    BY <1>1 DEF ReadInv
  <2>2. hostbuf \in Seq(Char) /\ host_json \in Seq(EscapedChar) /\ cursor \in 0 .. Len(hostbuf)
    BY DEF TextInv
  <2>3. Unescape(host_json) = SubSeq(hostbuf, 1, cursor)
    BY <2>1, <2>2, WholesReadBack
  <2>4. Take(hostbuf, cursor) = SubSeq(hostbuf, 1, cursor)
    <3>1. (IF Len(hostbuf) <= cursor THEN Len(hostbuf) ELSE cursor) = cursor
      BY <2>2
    <3>2. QED
      BY <3>1 DEF Take
  <2>5. QED
    BY <2>3, <2>4
<1>2. QED
  BY <1>1 DEF HostReadsBack, ReadInv

(***************************************************************************)
(* A JSON reader gets back the host, or the start of it when the escaped   *)
(* host does not fit, for every host and every size of the buffer: no      *)
(* escape is ever cut in two, and nothing is left out that fits            *)
(* (json_escape_string).                                                   *)
(***************************************************************************)
THEOREM ReadsBack == Spec => []HostReadsBack
<1>1. Init => ReadInv
  BY DEF Init, ReadInv
<1>2. QED
  BY <1>1, TextInit, TextStep, ReadStep, ReadMeans, PTL DEF Spec
=============================================================================
