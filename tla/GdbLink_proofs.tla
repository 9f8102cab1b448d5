--------------------------- MODULE GdbLink_proofs ---------------------------
(***************************************************************************)
(* Proofs about the packets of the debugger stub, for every size of the    *)
(* buffer, every number of digits, all commands and replies and any number *)
(* of repetitions.                                                         *)
(***************************************************************************)
EXTENDS GdbLink, NumberLemmas, SequenceTheorems

-----------------------------------------------------------------------------
(* Characters, sums and packets *)

Letter == DOMAIN Code
Char   == Letter \cup {"$", "#"}

(* The parts of the assumptions. *)
LEMMA Letters ==
  /\ BUFMAX \in Nat /\ BUFMAX > 3 /\ 2 \in 0 .. BUFMAX - 1
  /\ NUL \in Letter /\ "+" \in Letter /\ "-" \in Letter /\ "$" \notin Letter /\ "#" \notin Letter
  /\ Base \in Nat /\ Base > 1 /\ Byte \in Nat /\ Byte > 0
  /\ \A i \in 1 .. Base : hexchars[i] \in Letter /\ hexchars[i] # ":"
  /\ \A i, j \in 1 .. Base : hexchars[i] = hexchars[j] => i = j
  /\ \A a \in Letter : Code[a] \in 0 .. Byte - 1
  /\ \A a, b \in Letter : Code[a] = Code[b] => a = b
  /\ Code[NUL] = 0
  /\ Noise \subseteq Char
<1>1. hexchars \in Seq(Letter \ {NUL, ":"}) /\ Base > 1 /\ Base = Len(hexchars)
  BY LinkAssumption DEF LinkAssumption, Letter, Base
<1>2. Base \in Nat /\ \A i \in 1 .. Base : hexchars[i] \in Letter /\ hexchars[i] # ":"
  BY <1>1
<1>3. Base * Base \in Nat /\ Base * Base > 0
  BY <1>1, <1>2
<1>4. Byte \in Nat /\ Byte > 0
  BY <1>3 DEF Byte
<1> QED BY <1>1, <1>2, <1>4, LinkAssumption DEF LinkAssumption, Letter, Char

(* What a text is made of. *)
LEMMA TextFacts ==
  ASSUME NEW t \in Texts
  PROVE  /\ t \in Seq(Letter) /\ Len(t) \in Nat
         /\ \A k \in 1 .. Len(t) : t[k] \in Letter /\ t[k] # NUL /\ t[k] \in Char
         /\ \A k \in 1 .. Len(t) : t[k] # "$" /\ t[k] # "#"
         /\ Len(t) >= 3 => t[3] # ":"
<1>1. t \in Seq(Letter \ {NUL}) /\ (Len(t) >= 3 => t[3] # ":")
  BY DEF Texts, Letter
<1>2. Len(t) \in Nat /\ \A k \in 1 .. Len(t) : t[k] \in Letter \ {NUL}
  BY <1>1
<1>3. t \in Seq(Letter)
  BY <1>1
<1> QED BY <1>1, <1>2, <1>3, Letters DEF Char

(* The sums of the first n characters, one by one. *)
LEMMA SumSteps ==
  ASSUME NEW t \in Seq(Letter)
  PROVE  /\ \A n \in 0 .. Len(t) : SumUpTo(t)[n] \in 0 .. Byte - 1
         /\ SumUpTo(t)[0] = 0
         /\ \A n \in 1 .. Len(t) : SumUpTo(t)[n] = (SumUpTo(t)[n - 1] + Code[t[n]]) % Byte
<1> DEFINE V == 0 .. Byte - 1
           Body(f, n) == IF n = 0 THEN 0 ELSE (f[n - 1] + Code[t[n]]) % Byte
           step == [k \in 1 .. Len(t) |-> [v \in V |-> (v + Code[t[k]]) % Byte]]
<1>1. Len(t) \in Nat /\ 0 \in V /\ \A k \in 1 .. Len(t) : Code[t[k]] \in V
  BY Letters
<1>2. ASSUME NEW k \in 1 .. Len(t), NEW v \in V
      PROVE  step[k][v] = (v + Code[t[k]]) % Byte /\ step[k][v] \in V
  <2>1. step[k][v] = (v + Code[t[k]]) % Byte
    OBVIOUS
  <2> DEFINE x == v + Code[t[k]]
  <2>2. x \in Nat
    BY <1>1
  <2> HIDE DEF x, step
  <2>3. x % Byte \in V
    BY <2>2, Letters, DivMod
  <2> QED BY <2>1, <2>3 DEF x
<1> HIDE DEF step
<1>3. StepsIn(V, Len(t), step)
  BY <1>2 DEF StepsIn
<1>4. PICK f : IsRun(f, V, Len(t), 0, step)
  <2> HIDE DEF V
  <2> QED BY <1>1, <1>3, Recursion
<1>5. /\ f \in [0 .. Len(t) -> V] /\ f[0] = 0
      /\ \A k \in 1 .. Len(t) : f[k] = step[k][f[k - 1]]
  BY <1>4 DEF IsRun
<1>6. ASSUME NEW n \in 0 .. Len(t) PROVE f[n] = Body(f, n)
  <2>1. CASE n = 0
    BY <1>5, <2>1
  <2>2. CASE n # 0
    <3>1. n \in 1 .. Len(t) /\ n - 1 \in 0 .. Len(t)
      BY <1>1, <2>2
    <3>2. f[n - 1] \in V /\ f[n] = step[n][f[n - 1]]
      BY <1>5, <3>1
    <3> QED BY <1>2, <2>2, <3>1, <3>2
  <2> QED BY <2>1, <2>2
<1> HIDE DEF Body
<1>7. f = [n \in 0 .. Len(t) |-> Body(f, n)]
  BY <1>5, <1>6
<1>8. SumUpTo(t) = CHOOSE g : g = [n \in 0 .. Len(t) |-> Body(g, n)]
  BY DEF SumUpTo, Body
<1>9. SumUpTo(t) = [n \in 0 .. Len(t) |-> Body(SumUpTo(t), n)]
  BY <1>7, <1>8
<1> DEFINE g == SumUpTo(t)
<1>10. g = [n \in 0 .. Len(t) |-> Body(g, n)]
  BY <1>9
<1> HIDE DEF g
<1>11. \A n \in 0 .. Len(t) : g[n] = Body(g, n)
  BY <1>10
<1>12. g[0] = 0 /\ \A n \in 1 .. Len(t) : g[n] = (g[n - 1] + Code[t[n]]) % Byte
  BY <1>1, <1>11 DEF Body
<1>13. \A n \in 0 .. Len(t) : g[n] \in V
  <2> DEFINE T == {n \in Nat : n <= Len(t) => g[n] \in V}
  <2>1. 0 \in T
    BY <1>1, <1>12
  <2>2. ASSUME NEW n \in Nat, n \in T PROVE n + 1 \in T
    <3>1. SUFFICES ASSUME n + 1 <= Len(t) PROVE g[n + 1] \in V
      OBVIOUS
    <3>2. n + 1 \in 1 .. Len(t) /\ g[n] \in V /\ (n + 1) - 1 = n
      BY <1>1, <2>2, <3>1
    <3>3. g[n + 1] = (g[n] + Code[t[n + 1]]) % Byte
      BY <1>12, <3>2
    <3> QED BY <1>2, <3>2, <3>3
  <2>3. Nat \subseteq T
    <3> HIDE DEF T
    <3> QED BY <2>1, <2>2, Induction
  <2> QED BY <1>1, <2>3
<1> QED BY <1>12, <1>13 DEF g

(* hex() gives back the number a digit stands for. *)
LEMMA HexOfDigit ==
  ASSUME NEW v \in 0 .. Base - 1
  PROVE  hex(hexchars[v + 1]) = v
<1> DEFINE ch == hexchars[v + 1]
<1>1. v + 1 \in 1 .. Base /\ \E i \in 1 .. Base : hexchars[i] = ch
  BY Letters
<1>2. hex(ch) = (CHOOSE i \in 1 .. Base : hexchars[i] = ch) - 1
  BY <1>1 DEF hex
<1> DEFINE c == CHOOSE i \in 1 .. Base : hexchars[i] = ch
<1>3. c \in 1 .. Base /\ hexchars[c] = ch
  BY <1>1
<1> HIDE DEF c
<1>4. c = v + 1
  BY <1>1, <1>3, Letters
<1>5. hex(ch) = c - 1
  BY <1>2 DEF c
<1> QED BY <1>4, <1>5, Letters

(* hex() gives -1 or a digit's number, whatever it is given. *)
LEMMA HexType ==
  ASSUME NEW ch
  PROVE  hex(ch) \in Int /\ hex(ch) >= -1 /\ hex(ch) < Base
<1>1. CASE \E i \in 1 .. Base : hexchars[i] = ch
  <2> DEFINE c == CHOOSE i \in 1 .. Base : hexchars[i] = ch
  <2>1. c \in 1 .. Base
    BY <1>1
  <2>2. hex(ch) = c - 1
    BY <1>1 DEF hex
  <2> HIDE DEF c
  <2> QED BY <2>1, <2>2, Letters
<1>2. CASE ~ \E i \in 1 .. Base : hexchars[i] = ch
  <2>1. hex(ch) = -1
    BY <1>2 DEF hex
  <2> QED BY <2>1, Letters
<1> QED BY <1>1, <1>2

(* Adding the same number keeps two numbers below Byte apart. *)
LEMMA StayApart ==
  ASSUME NEW a \in 0 .. Byte - 1, NEW b \in 0 .. Byte - 1, NEW c \in 0 .. Byte - 1, a # b
  PROVE  (a + c) % Byte # (b + c) % Byte
<1>1. SUFFICES ASSUME (a + c) % Byte = (b + c) % Byte PROVE FALSE
  OBVIOUS
<1> DEFINE x == a + c
           y == b + c
<1>2. x \in Nat /\ y \in Nat /\ Byte \in Nat /\ Byte > 0
  BY Letters
<1>3. x - y \in Int /\ x - y > -Byte /\ x - y < Byte /\ x # y
  BY Letters
<1>4. x % Byte = y % Byte
  BY <1>1
<1> HIDE DEF x, y
<1> DEFINE p == x \div Byte
           q == y \div Byte
<1>5. x = Byte * p + (x % Byte) /\ y = Byte * q + (y % Byte) /\ p \in Nat /\ q \in Nat
  BY <1>2, DivMod
<1> HIDE DEF p, q
<1>6. x % Byte \in Int /\ y % Byte \in Int
  BY <1>2, DivMod
<1>7. x - y = Byte * p - Byte * q
  BY <1>2, <1>4, <1>5, <1>6
<1>8. p - q \in Int /\ Byte * p - Byte * q = Byte * (p - q)
  BY <1>2, <1>5
<1>9. CASE p = q
  BY <1>3, <1>7, <1>9, <1>2, <1>5
<1>10. CASE p - q >= 1
  <2>1. Byte * (p - q) = Byte + Byte * (p - q - 1) /\ Byte * (p - q - 1) >= 0
    BY <1>2, <1>5, <1>10
  <2> QED BY <1>2, <1>3, <1>7, <1>8, <2>1
<1>11. CASE p - q <= -1
  <2>1. Byte * (p - q) = -Byte - Byte * (q - p - 1) /\ Byte * (q - p - 1) >= 0
    BY <1>2, <1>5, <1>11
  <2> QED BY <1>2, <1>3, <1>7, <1>8, <2>1
<1> QED BY <1>5, <1>9, <1>10, <1>11

(* Characters behind others, *)
IsJoin(w, s, u) ==
  /\ w \in Seq(Char) /\ Len(w) = Len(s) + Len(u) /\ Len(s) \in Nat /\ Len(u) \in Nat
  /\ \A i \in 1 .. Len(s) : w[i] = s[i]
  /\ \A i \in Len(s) + 1 .. Len(s) + Len(u) : w[i] = u[i - Len(s)]

(* position by position, *)
LEMMA Joined ==
  ASSUME NEW s \in Seq(Char), NEW u \in Seq(Char)
  PROVE  IsJoin(s \o u, s, u)
<1>1. /\ s \o u \in Seq(Char) /\ Len(s \o u) = Len(s) + Len(u)
      /\ \A i \in 1 .. Len(s) + Len(u) : (s \o u)[i] = IF i <= Len(s) THEN s[i] ELSE u[i - Len(s)]
  BY ConcatProperties, Zenon
<1> QED BY <1>1 DEF IsJoin

(* and without the first. *)
LEMMA Shorter ==
  ASSUME NEW s \in Seq(Char), s # <<>>
  PROVE  /\ Head(s) = s[1] /\ s[1] \in Char /\ Len(s) \in Nat /\ Len(s) > 0
         /\ Tail(s) \in Seq(Char) /\ Len(Tail(s)) = Len(s) - 1
         /\ \A i \in 1 .. Len(s) - 1 : Tail(s)[i] = s[i + 1]
OBVIOUS

(* The characters of a packet, one by one. *)
LEMMA PacketFacts ==
  ASSUME NEW t \in Texts
  PROVE  /\ Packet(t) \in Seq(Char) /\ Len(Packet(t)) = Len(t) + 4
         /\ Packet(t)[1] = "$" /\ Packet(t)[Len(t) + 2] = "#"
         /\ \A k \in 2 .. Len(t) + 1 : Packet(t)[k] = t[k - 1]
         /\ \A k \in 2 .. Len(t) + 1 : Packet(t)[k] \in Letter
         /\ \A k \in 2 .. Len(t) + 4 : Packet(t)[k] # "$"
         /\ \A k \in 1 .. Len(t) + 4 : Packet(t)[k] = "#" => k = Len(t) + 2
         /\ \A k \in Len(t) + 3 .. Len(t) + 4 : Packet(t)[k] \in Letter /\ Packet(t)[k] # ":"
         /\ Digits(t, Len(t) + 3) = SumUpTo(t)[Len(t)]
<1> DEFINE L == Len(t)
           S == Sum(t)
           a == hexchars[(S \div Base) + 1]
           b == hexchars[(S % Base) + 1]
           u == <<"$">>
           w == <<"#", a, b>>
           P == Packet(t)
<1>1. /\ t \in Seq(Letter) /\ L \in Nat /\ t \in Seq(Char)
      /\ \A k \in 1 .. L : t[k] \in Letter /\ t[k] # "$" /\ t[k] # "#"
  <2>1. t \in Seq(Letter)
    BY TextFacts
  <2>2. t \in Seq(Char)
    BY <2>1 DEF Char
  <2> QED BY <2>1, <2>2, TextFacts
<1>2. S \in 0 .. Byte - 1 /\ S = SumUpTo(t)[L]
  <2>1. L \in 0 .. L
    BY <1>1
  <2> QED BY <1>1, <2>1, SumSteps DEF Sum
<1> HIDE DEF S
<1>3. /\ S = Base * (S \div Base) + (S % Base)
      /\ S \div Base \in Nat /\ S % Base \in 0 .. Base - 1
  <2>1. S \in Nat
    BY <1>2, Letters
  <2> QED BY <2>1, Letters, DivMod
<1>4. S \div Base \in 0 .. Base - 1
  <2> DEFINE q == S \div Base
             e == S % Base
  <2>1. S = Base * q + e /\ q \in Nat /\ e \in Nat /\ S < Base * Base
    BY <1>2, <1>3, Letters DEF Byte
  <2> HIDE DEF q, e
  <2>2. SUFFICES ASSUME q >= Base PROVE FALSE
    <3>1. q < Base
      BY <2>1, <2>2, Letters
    <3> QED BY <3>1, <2>1, Letters DEF q
  <2>3. Base * q = Base * Base + Base * (q - Base) /\ Base * (q - Base) \in Nat /\ Base * Base \in Nat
    BY <2>1, <2>2, Letters
  <2> DEFINE x == Base * q
             y == Base * Base
             z == Base * (q - Base)
  <2>4. x = y + z /\ z \in Nat /\ y \in Nat /\ S = x + e /\ S < y
    BY <2>1, <2>3
  <2> HIDE DEF x, y, z
  <2> QED BY <2>1, <2>4
<1>5. a \in Letter /\ b \in Letter /\ a # ":" /\ b # ":" /\ hex(a) = S \div Base /\ hex(b) = S % Base
  <2>1. (S \div Base) + 1 \in 1 .. Base /\ (S % Base) + 1 \in 1 .. Base
    BY <1>3, <1>4, Letters
  <2>2. hex(a) = S \div Base /\ hex(b) = S % Base
    BY <1>3, <1>4, HexOfDigit
  <2> QED BY <2>1, <2>2, Letters
<1>6. a \in Char /\ b \in Char /\ a # "$" /\ b # "$" /\ a # "#" /\ b # "#"
  BY <1>5, Letters DEF Char
<1>7. P = u \o t \o w
  BY DEF Packet, S
<1> HIDE DEF P, a, b
<1>8. u \in Seq(Char) /\ w \in Seq(Char) /\ Len(u) = 1 /\ Len(w) = 3
      /\ u[1] = "$" /\ w[1] = "#" /\ w[2] = a /\ w[3] = b
  BY <1>6 DEF Char
<1> HIDE DEF u, w
<1> DEFINE ut == u \o t
<1>9. Len(ut) = L + 1 /\ ut \in Seq(Char) /\ ut[1] = "$" /\ \A k \in 2 .. L + 1 : ut[k] = t[k - 1]
  <2>1. /\ ut \in Seq(Char) /\ Len(ut) = Len(u) + Len(t)
        /\ \A i \in 1 .. Len(u) : ut[i] = u[i]
        /\ \A i \in Len(u) + 1 .. Len(u) + Len(t) : ut[i] = t[i - Len(u)]
    BY <1>1, <1>8, Joined, Zenon DEF IsJoin
  <2> QED BY <1>1, <1>8, <2>1
<1>10. P \in Seq(Char) /\ Len(P) = L + 4
       /\ (\A i \in 1 .. L + 1 : P[i] = ut[i]) /\ \A i \in L + 2 .. L + 4 : P[i] = w[i - (L + 1)]
  <2>1. P = ut \o w
    BY <1>7
  <2> HIDE DEF ut
  <2>2. /\ P \in Seq(Char) /\ Len(P) = Len(ut) + Len(w)
        /\ \A i \in 1 .. Len(ut) : P[i] = ut[i]
        /\ \A i \in Len(ut) + 1 .. Len(ut) + Len(w) : P[i] = w[i - Len(ut)]
    <3>1. IsJoin(P, ut, w)
      BY <1>8, <1>9, <2>1, Joined, Zenon
    <3> QED BY <3>1 DEF IsJoin
  <2>3. Len(ut) = L + 1 /\ Len(w) = 3 /\ (L + 1) + 1 = L + 2 /\ (L + 1) + 3 = L + 4
    BY <1>1, <1>8, <1>9
  <2> QED BY <2>2, <2>3, Zenon
<1> HIDE DEF ut
<1>11. P[1] = "$" /\ P[L + 2] = "#" /\ P[L + 3] = a /\ P[L + 4] = b
  <2>1. (L + 2) - (L + 1) = 1 /\ (L + 3) - (L + 1) = 2 /\ (L + 4) - (L + 1) = 3 /\ 1 \in 1 .. L + 1
        /\ L + 2 \in L + 2 .. L + 4 /\ L + 3 \in L + 2 .. L + 4 /\ L + 4 \in L + 2 .. L + 4
    BY <1>1
  <2>2. P[1] = ut[1] /\ P[L + 2] = w[1] /\ P[L + 3] = w[2] /\ P[L + 4] = w[3]
    BY <1>10, <2>1
  <2> QED BY <1>8, <1>9, <2>2
<1>12. \A k \in 2 .. L + 1 : P[k] = t[k - 1]
  BY <1>1, <1>9, <1>10
<1>13. \A k \in 2 .. L + 1 : P[k] \in Letter /\ P[k] # "$" /\ P[k] # "#"
  <2> SUFFICES ASSUME NEW k \in 2 .. L + 1 PROVE P[k] \in Letter /\ P[k] # "$" /\ P[k] # "#"
    OBVIOUS
  <2>1. k - 1 \in 1 .. L
    BY <1>1
  <2> QED BY <2>1, <1>1, <1>12
<1>14. \A k \in 2 .. L + 4 : P[k] # "$"
  <2> SUFFICES ASSUME NEW k \in 2 .. L + 4 PROVE P[k] # "$"
    OBVIOUS
  <2>1. k \in 2 .. L + 1 \/ k = L + 2 \/ k = L + 3 \/ k = L + 4
    BY <1>1
  <2> QED BY <2>1, <1>6, <1>11, <1>13
<1>15. \A k \in 1 .. L + 4 : P[k] = "#" => k = L + 2
  <2> SUFFICES ASSUME NEW k \in 1 .. L + 4 PROVE P[k] = "#" => k = L + 2
    OBVIOUS
  <2>1. k = 1 \/ k \in 2 .. L + 1 \/ k = L + 2 \/ k = L + 3 \/ k = L + 4
    BY <1>1
  <2> QED BY <2>1, <1>6, <1>11, <1>13
<1>16. \A k \in L + 3 .. L + 4 : P[k] \in Letter /\ P[k] # ":"
  <2> SUFFICES ASSUME NEW k \in L + 3 .. L + 4 PROVE P[k] \in Letter /\ P[k] # ":"
    OBVIOUS
  <2>1. k = L + 3 \/ k = L + 4
    BY <1>1
  <2> QED BY <2>1, <1>5, <1>11
<1>17. Digits(t, L + 3) = S
  <2> DEFINE h == hex(a)
             l == hex(b)
  <2>1. (L + 3) + 1 = L + 4
    BY <1>1
  <2>2. Digits(t, L + 3) = (((h * Base) % Byte) + l) % Byte
    BY <1>11, <2>1 DEF Digits, P
  <2>3. h * Base + l = S /\ h * Base \in Nat /\ h \in Nat /\ l \in Nat
    BY <1>3, <1>4, <1>5, Letters
  <2> HIDE DEF h, l
  <2>4. h * Base < Byte /\ S < Byte /\ S \in Nat /\ Byte \in Nat
    BY <2>3, <1>2, Letters
  <2> DEFINE m == h * Base
  <2> HIDE DEF m
  <2>5. m % Byte = m
    BY <2>3, <2>4, SmallMod DEF m
  <2>6. S % Byte = S
    BY <2>4, SmallMod
  <2> QED BY <2>2, <2>3, <2>5, <2>6 DEF m
<1> QED BY <1>2, <1>10, <1>11, <1>12, <1>13, <1>14, <1>15, <1>16, <1>17 DEF P

-----------------------------------------------------------------------------
(* What is under way: packets, and signs between them *)

(* From its p-th character on, s has those of the packet of t from the k-th *)
(* on, to the end.                                                          *)
GoesOn(s, p, t, k) ==
  \A j \in k .. Len(t) + 4 : p + j - k \in 1 .. Len(s) /\ s[p + j - k] = Packet(t)[j]

(* From the m-th character on there is no # and no `:' before a $. *)
Clean(s, m) ==
  \A q \in m .. Len(s) : s[q] \in {"#", ":"} => \E p \in m .. q : s[p] = "$"

Fits(s, p, t, k) == GoesOn(s, p, t, k) /\ Clean(s, p + Len(t) + 5 - k)

(* Every $ begins a packet of a text of T; s may begin inside one. *)
Whole(T, s) == \A p \in 1 .. Len(s) : s[p] = "$" => \E t \in T : Fits(s, p, t, 1)

Cut(T, s) == \E t \in T : \E k \in 2 .. Len(t) + 4 : Fits(s, 1, t, k)

Line(T, s) == Whole(T, s) /\ (Clean(s, 1) \/ Cut(T, s))

(* One character less. *)
LEMMA CleanTail ==
  ASSUME NEW s \in Seq(Char), s # <<>>, NEW m \in Nat, m > 0, Clean(s, m),
         m = 1 => s[1] # "$"
  PROVE  Clean(Tail(s), IF m = 1 THEN 1 ELSE m - 1)
<1> DEFINE u == Tail(s)
           l == IF m = 1 THEN 1 ELSE m - 1
<1>1. /\ Len(s) \in Nat /\ Len(s) > 0 /\ Len(u) = Len(s) - 1
      /\ \A i \in 1 .. Len(s) - 1 : u[i] = s[i + 1]
  BY Shorter
<1> HIDE DEF u
<1>2. SUFFICES ASSUME NEW q \in l .. Len(u), u[q] \in {"#", ":"}
               PROVE  \E p \in l .. q : u[p] = "$"
  BY DEF Clean, u
<1>3. l \in Nat /\ l > 0 /\ q \in 1 .. Len(s) - 1 /\ q + 1 \in m .. Len(s)
  BY <1>1
<1>4. s[q + 1] \in {"#", ":"}
  BY <1>1, <1>2, <1>3, Zenon
<1>5. PICK p \in m .. q + 1 : s[p] = "$"
  BY <1>3, <1>4 DEF Clean
<1>6. p # 1
  BY <1>5
<1>7. p - 1 \in l .. q /\ p - 1 \in 1 .. Len(s) - 1 /\ (p - 1) + 1 = p
  BY <1>1, <1>3, <1>6
<1>8. u[p - 1] = "$"
  BY <1>1, <1>5, <1>7
<1> QED BY <1>7, <1>8

(* A packet further behind is one place nearer. *)
LEMMA FitsTail ==
  ASSUME NEW s \in Seq(Char), s # <<>>, NEW t \in Texts, NEW k \in 1 .. Len(t) + 4,
         NEW p \in Nat, p > 1, Fits(s, p, t, k)
  PROVE  Fits(Tail(s), p - 1, t, k)
<1> DEFINE u == Tail(s)
           L == Len(t)
           m == p + L + 5 - k
<1>1. /\ Len(s) \in Nat /\ Len(s) > 0 /\ Len(u) = Len(s) - 1
      /\ \A i \in 1 .. Len(s) - 1 : u[i] = s[i + 1]
  BY Shorter
<1>2. L \in Nat
  BY TextFacts
<1>3. ASSUME NEW j \in k .. L + 4
      PROVE  (p - 1) + j - k \in 1 .. Len(u) /\ u[(p - 1) + j - k] = Packet(t)[j]
  <2>1. p + j - k \in 1 .. Len(s) /\ s[p + j - k] = Packet(t)[j]
    BY DEF Fits, GoesOn
  <2>2. (p - 1) + j - k \in 1 .. Len(s) - 1 /\ ((p - 1) + j - k) + 1 = p + j - k
    BY <1>1, <1>2, <2>1
  <2> QED BY <1>1, <2>1, <2>2
<1>4. Clean(u, m - 1)
  <2>1. m \in Nat /\ m > 1 /\ Clean(s, m)
    BY <1>2 DEF Fits
  <2> HIDE DEF m, u
  <2>2. Clean(Tail(s), IF m = 1 THEN 1 ELSE m - 1)
    BY <2>1, CleanTail
  <2> QED BY <2>1, <2>2 DEF u
<1>5. m - 1 = (p - 1) + L + 5 - k
  BY <1>2
<1> QED BY <1>3, <1>4, <1>5 DEF Fits, GoesOn

(* The next character of a packet. *)
LEMMA FitsNext ==
  ASSUME NEW s \in Seq(Char), NEW t \in Texts, NEW k \in 1 .. Len(t) + 4, Fits(s, 1, t, k)
  PROVE  /\ s # <<>> /\ Head(s) = Packet(t)[k] /\ s[1] = Packet(t)[k]
         /\ Fits(Tail(s), 1, t, k + 1)
<1> DEFINE u == Tail(s)
           L == Len(t)
           m == 1 + L + 5 - k
<1>1. L \in Nat
  BY TextFacts
<1>2. k \in k .. L + 4 /\ 1 + k - k = 1
  BY <1>1
<1>3. 1 \in 1 .. Len(s) /\ s[1] = Packet(t)[k]
  BY <1>2 DEF Fits, GoesOn
<1>4. s # <<>>
  BY <1>3
<1>5. /\ Head(s) = s[1] /\ Len(s) \in Nat /\ Len(s) > 0 /\ Len(u) = Len(s) - 1
      /\ \A i \in 1 .. Len(s) - 1 : u[i] = s[i + 1]
  BY <1>4, Shorter
<1>6. ASSUME NEW j \in k + 1 .. L + 4
      PROVE  1 + j - (k + 1) \in 1 .. Len(u) /\ u[1 + j - (k + 1)] = Packet(t)[j]
  <2>1. j \in k .. L + 4
    BY <1>1
  <2>2. 1 + j - k \in 1 .. Len(s) /\ s[1 + j - k] = Packet(t)[j]
    BY <2>1 DEF Fits, GoesOn
  <2>3. 1 + j - (k + 1) \in 1 .. Len(s) - 1 /\ (1 + j - (k + 1)) + 1 = 1 + j - k
    BY <1>1, <1>5, <2>2
  <2> QED BY <1>5, <2>2, <2>3
<1>7. Clean(u, m - 1)
  <2>1. m \in Nat /\ m > 1 /\ Clean(s, m)
    BY <1>1 DEF Fits
  <2> HIDE DEF m, u
  <2>2. Clean(Tail(s), IF m = 1 THEN 1 ELSE m - 1)
    BY <1>4, <2>1, CleanTail
  <2> QED BY <2>1, <2>2 DEF u
<1>8. m - 1 = 1 + L + 5 - (k + 1)
  BY <1>1
<1>9. Fits(u, 1, t, k + 1)
  BY <1>6, <1>7, <1>8 DEF Fits, GoesOn
<1> QED BY <1>3, <1>4, <1>5, <1>9

(* Behind the # of a packet there is nothing but its digits before the next *)
(* packet.                                                                  *)
LEMMA CleanBehind ==
  ASSUME NEW s \in Seq(Char), NEW t \in Texts, NEW k \in Len(t) + 3 .. Len(t) + 5, Fits(s, 1, t, k)
  PROVE  Clean(s, 1)
<1> DEFINE L == Len(t)
           m == 1 + L + 5 - k
<1>1. L \in Nat /\ m \in 1 .. 3
  BY TextFacts
<1>2. SUFFICES ASSUME NEW q \in 1 .. Len(s), s[q] \in {"#", ":"}
               PROVE  \E p \in 1 .. q : s[p] = "$"
  BY DEF Clean
<1>3. CASE q < m
  <2> DEFINE j == q + k - 1
  <2>1. j \in k .. L + 4 /\ j \in L + 3 .. L + 4 /\ 1 + j - k = q
    BY <1>1, <1>3
  <2>2. s[q] = Packet(t)[j]
    BY <2>1 DEF Fits, GoesOn
  <2>3. Packet(t)[j] \in Letter /\ Packet(t)[j] # ":"
    BY <2>1, PacketFacts
  <2> QED BY <1>2, <2>2, <2>3, Letters
<1>4. CASE q >= m
  <2>1. q \in m .. Len(s) /\ Clean(s, m)
    BY <1>1, <1>4 DEF Fits
  <2> HIDE DEF m
  <2>2. PICK p \in m .. q : s[p] = "$"
    BY <1>2, <2>1 DEF Clean
  <2> QED BY <1>1, <2>2
<1> QED BY <1>1, <1>3, <1>4

(* What is left when a character was read or lost. *)
LEMMA LineTail ==
  ASSUME NEW T, T \subseteq Texts, NEW s \in Seq(Char), s # <<>>, Line(T, s)
  PROVE  Line(T, Tail(s))
<1> DEFINE u == Tail(s)
<1>1. /\ Len(s) \in Nat /\ Len(s) > 0 /\ Len(u) = Len(s) - 1 /\ u \in Seq(Char)
      /\ \A i \in 1 .. Len(s) - 1 : u[i] = s[i + 1]
  BY Shorter
<1>2. ASSUME NEW p \in 1 .. Len(u), u[p] = "$"
      PROVE  \E t \in T : Fits(u, p, t, 1)
  <2>1. p + 1 \in 1 .. Len(s) /\ s[p + 1] = "$" /\ p + 1 \in Nat /\ p + 1 > 1 /\ (p + 1) - 1 = p
    BY <1>1, <1>2
  <2>2. PICK t \in T : Fits(s, p + 1, t, 1)
    BY <2>1 DEF Line, Whole
  <2>3. t \in Texts /\ 1 \in 1 .. Len(t) + 4
    BY TextFacts
  <2>4. Fits(u, (p + 1) - 1, t, 1)
    BY <2>1, <2>2, <2>3, FitsTail
  <2> QED BY <2>1, <2>4
<1>3. ASSUME NEW t \in T, NEW k \in 1 .. Len(t) + 4, Fits(s, 1, t, k)
      PROVE  Clean(u, 1) \/ Cut(T, u)
  <2>1. t \in Texts /\ Len(t) \in Nat
    BY TextFacts
  <2>2. Fits(u, 1, t, k + 1)
    BY <1>3, <2>1, FitsNext
  <2>3. CASE k + 1 \in 2 .. Len(t) + 4
    BY <2>2, <2>3 DEF Cut
  <2>4. CASE k = Len(t) + 4
    <3>1. k + 1 \in Len(t) + 3 .. Len(t) + 5
      BY <2>1, <2>4
    <3> QED BY <1>1, <2>1, <2>2, <3>1, CleanBehind
  <2> QED BY <2>1, <2>3, <2>4
<1>4. Clean(u, 1) \/ Cut(T, u)
  <2>1. CASE Clean(s, 1) /\ s[1] = "$"
    <3>1. PICK t \in T : Fits(s, 1, t, 1)
      BY <1>1, <2>1 DEF Line, Whole
    <3>2. 1 \in 1 .. Len(t) + 4
      BY TextFacts
    <3> QED BY <1>3, <3>1, <3>2
  <2>2. CASE Clean(s, 1) /\ s[1] # "$"
    <3>1. Clean(Tail(s), IF 1 = 1 THEN 1 ELSE 1 - 1)
      BY <2>2, CleanTail
    <3> QED BY <3>1
  <2>3. CASE Cut(T, s)
    <3>1. PICK t \in T : \E k \in 2 .. Len(t) + 4 : Fits(s, 1, t, k)
      BY <2>3 DEF Cut
    <3>2. PICK k \in 2 .. Len(t) + 4 : Fits(s, 1, t, k)
      BY <3>1
    <3>3. k \in 1 .. Len(t) + 4
      BY TextFacts
    <3> QED BY <1>3, <3>2, <3>3
  <2> QED BY <2>1, <2>2, <2>3 DEF Line
<1> QED BY <1>2, <1>4 DEF Line, Whole

(* More behind it. *)
LEMMA CleanJoin ==
  ASSUME NEW s \in Seq(Char), NEW u \in Seq(Char), NEW w, IsJoin(w, s, u),
         NEW m \in 1 .. Len(s) + 1, Clean(s, m), Clean(u, 1)
  PROVE  Clean(w, m)
<1>1. Len(s) \in Nat /\ Len(u) \in Nat /\ Len(w) = Len(s) + Len(u)
  BY DEF IsJoin
<1>2. SUFFICES ASSUME NEW q \in m .. Len(w), w[q] \in {"#", ":"}
               PROVE  \E p \in m .. q : w[p] = "$"
  BY DEF Clean
<1>3. CASE q <= Len(s)
  <2>1. q \in 1 .. Len(s) /\ q \in m .. Len(s)
    BY <1>1, <1>3
  <2>2. s[q] \in {"#", ":"}
    BY <1>2, <2>1, Zenon DEF IsJoin
  <2>3. PICK p \in m .. q : s[p] = "$"
    BY <2>1, <2>2 DEF Clean
  <2>4. p \in 1 .. Len(s)
    BY <1>1, <1>3
  <2> QED BY <2>3, <2>4 DEF IsJoin
<1>4. CASE q > Len(s)
  <2>1. q \in Len(s) + 1 .. Len(s) + Len(u) /\ q - Len(s) \in 1 .. Len(u)
    BY <1>1, <1>4
  <2>2. u[q - Len(s)] \in {"#", ":"}
    BY <1>2, <2>1, Zenon DEF IsJoin
  <2>3. PICK p \in 1 .. q - Len(s) : u[p] = "$"
    BY <2>1, <2>2 DEF Clean
  <2>4. p + Len(s) \in Len(s) + 1 .. Len(s) + Len(u) /\ (p + Len(s)) - Len(s) = p /\ p + Len(s) \in m .. q
    BY <1>1, <2>1
  <2>5. w[p + Len(s)] = u[(p + Len(s)) - Len(s)]
    BY <2>4 DEF IsJoin
  <2>6. w[p + Len(s)] = "$"
    BY <2>3, <2>4, <2>5
  <2> QED BY <2>4, <2>6
<1> QED BY <1>1, <1>3, <1>4

(* A packet under way stays one when more is sent behind it, *)
LEMMA FitsJoin ==
  ASSUME NEW s \in Seq(Char), NEW u \in Seq(Char), NEW w, IsJoin(w, s, u),
         NEW t \in Texts, NEW k \in 1 .. Len(t) + 4, NEW p \in Nat, p > 0,
         Fits(s, p, t, k), Clean(u, 1)
  PROVE  Fits(w, p, t, k)
<1> DEFINE L == Len(t)
<1>1. L \in Nat /\ Len(s) \in Nat /\ Len(u) \in Nat /\ Len(w) = Len(s) + Len(u)
  BY TextFacts DEF IsJoin
<1>2. ASSUME NEW j \in k .. L + 4
      PROVE  p + j - k \in 1 .. Len(w) /\ w[p + j - k] = Packet(t)[j]
  <2>1. p + j - k \in 1 .. Len(s) /\ s[p + j - k] = Packet(t)[j]
    BY DEF Fits, GoesOn
  <2>2. w[p + j - k] = s[p + j - k]
    BY <2>1 DEF IsJoin
  <2> QED BY <1>1, <2>1, <2>2
<1> DEFINE m == p + L + 5 - k
<1>3. m \in 1 .. Len(s) + 1
  <2>1. L + 4 \in k .. L + 4
    BY <1>1
  <2>2. p + (L + 4) - k \in 1 .. Len(s)
    BY <2>1 DEF Fits, GoesOn
  <2> QED BY <1>1, <2>2
<1>4. Clean(s, m)
  BY DEF Fits
<1> HIDE DEF m
<1>5. Clean(w, m)
  BY <1>3, <1>4, CleanJoin
<1> QED BY <1>2, <1>5 DEF Fits, GoesOn, m

(* and what is sent behind others is what it was, further back. *)
LEMMA CleanShift ==
  ASSUME NEW s \in Seq(Char), NEW u \in Seq(Char), NEW w, IsJoin(w, s, u),
         NEW m \in Nat, m > 0, Clean(u, m)
  PROVE  Clean(w, Len(s) + m)
<1>1. Len(s) \in Nat /\ Len(u) \in Nat /\ Len(w) = Len(s) + Len(u)
  BY DEF IsJoin
<1>2. SUFFICES ASSUME NEW q \in Len(s) + m .. Len(w), w[q] \in {"#", ":"}
               PROVE  \E p \in Len(s) + m .. q : w[p] = "$"
  BY DEF Clean
<1>3. q \in Len(s) + 1 .. Len(s) + Len(u) /\ q - Len(s) \in m .. Len(u)
  BY <1>1
<1>4. u[q - Len(s)] \in {"#", ":"}
  BY <1>2, <1>3, Zenon DEF IsJoin
<1>5. PICK p \in m .. q - Len(s) : u[p] = "$"
  BY <1>3, <1>4 DEF Clean
<1>6. p + Len(s) \in Len(s) + 1 .. Len(s) + Len(u) /\ (p + Len(s)) - Len(s) = p
      /\ p + Len(s) \in Len(s) + m .. q
  BY <1>1, <1>3
<1>7. w[p + Len(s)] = u[(p + Len(s)) - Len(s)]
  BY <1>6 DEF IsJoin
<1>8. w[p + Len(s)] = "$"
  BY <1>5, <1>6, <1>7
<1> QED BY <1>6, <1>8

(* So are the packets in it. *)
LEMMA FitsShift ==
  ASSUME NEW s \in Seq(Char), NEW u \in Seq(Char), NEW w, IsJoin(w, s, u),
         NEW t \in Texts, NEW k \in 1 .. Len(t) + 4, NEW p \in Nat, p > 0, Fits(u, p, t, k)
  PROVE  Fits(w, Len(s) + p, t, k)
<1> DEFINE L == Len(t)
<1>1. L \in Nat /\ Len(s) \in Nat /\ Len(u) \in Nat /\ Len(w) = Len(s) + Len(u)
  BY TextFacts DEF IsJoin
<1>2. ASSUME NEW j \in k .. L + 4
      PROVE  (Len(s) + p) + j - k \in 1 .. Len(w) /\ w[(Len(s) + p) + j - k] = Packet(t)[j]
  <2> DEFINE i == (Len(s) + p) + j - k
  <2>1. p + j - k \in 1 .. Len(u) /\ u[p + j - k] = Packet(t)[j]
    BY DEF Fits, GoesOn
  <2>2. i \in Len(s) + 1 .. Len(s) + Len(u) /\ i - Len(s) = p + j - k
    BY <1>1, <2>1
  <2> HIDE DEF i
  <2>3. w[i] = u[i - Len(s)]
    BY <2>2 DEF IsJoin
  <2>4. i \in 1 .. Len(w)
    BY <1>1, <2>2
  <2> QED BY <2>1, <2>2, <2>3, <2>4 DEF i
<1> DEFINE m == p + L + 5 - k
<1>3. m \in Nat /\ m > 0 /\ Len(s) + m = (Len(s) + p) + L + 5 - k
  BY <1>1
<1>4. Clean(u, m)
  BY DEF Fits
<1> HIDE DEF m
<1>5. Clean(w, Len(s) + m)
  BY <1>3, <1>4, CleanShift
<1> QED BY <1>2, <1>3, <1>5 DEF Fits, GoesOn

(* A line with a message behind it is a line. *)
LEMMA LineJoin ==
  ASSUME NEW T, T \subseteq Texts, NEW s \in Seq(Char), NEW u \in Seq(Char), NEW w, IsJoin(w, s, u),
         Line(T, s), Whole(T, u), Clean(u, 1)
  PROVE  Line(T, w)
<1>1. Len(s) \in Nat /\ Len(u) \in Nat /\ Len(w) = Len(s) + Len(u)
  BY DEF IsJoin
<1>2. ASSUME NEW p \in 1 .. Len(w), w[p] = "$"
      PROVE  \E t \in T : Fits(w, p, t, 1)
  <2>1. CASE p <= Len(s)
    <3>1. p \in 1 .. Len(s) /\ p \in Nat /\ p > 0
      BY <1>1, <2>1
    <3>2. s[p] = "$"
      BY <1>2, <3>1 DEF IsJoin
    <3>3. PICK t \in T : Fits(s, p, t, 1)
      BY <3>1, <3>2 DEF Line, Whole
    <3>4. t \in Texts /\ 1 \in 1 .. Len(t) + 4
      BY TextFacts
    <3> QED BY <3>1, <3>3, <3>4, FitsJoin
  <2>2. CASE p > Len(s)
    <3> DEFINE q == p - Len(s)
    <3>1. p \in Len(s) + 1 .. Len(s) + Len(u) /\ q \in 1 .. Len(u) /\ q \in Nat /\ q > 0 /\ Len(s) + q = p
      BY <1>1, <2>2
    <3>2. u[q] = "$"
      BY <1>2, <3>1 DEF IsJoin
    <3> HIDE DEF q
    <3>3. PICK t \in T : Fits(u, q, t, 1)
      BY <3>1, <3>2 DEF Whole
    <3>4. t \in Texts /\ 1 \in 1 .. Len(t) + 4
      BY TextFacts
    <3>5. Fits(w, Len(s) + q, t, 1)
      BY <3>1, <3>3, <3>4, FitsShift
    <3> QED BY <3>1, <3>5
  <2> QED BY <1>1, <2>1, <2>2
<1>3. CASE Clean(s, 1)
  <2>1. 1 \in 1 .. Len(s) + 1
    BY <1>1
  <2>2. Clean(w, 1)
    BY <1>3, <2>1, CleanJoin
  <2> QED BY <1>2, <2>2 DEF Line, Whole
<1>4. CASE Cut(T, s)
  <2>1. PICK t \in T : \E k \in 2 .. Len(t) + 4 : Fits(s, 1, t, k)
    BY <1>4 DEF Cut
  <2>2. PICK k \in 2 .. Len(t) + 4 : Fits(s, 1, t, k)
    BY <2>1
  <2>3. t \in Texts /\ k \in 1 .. Len(t) + 4 /\ 1 \in Nat /\ 1 > 0
    BY TextFacts
  <2>4. Fits(w, 1, t, k)
    BY <2>2, <2>3, FitsJoin
  <2>5. Cut(T, w)
    BY <2>4 DEF Cut
  <2> QED BY <1>2, <2>5 DEF Line, Whole
<1> QED BY <1>3, <1>4 DEF Line

(* What the host sends: a packet of a text of T, or a sign. *)
Message(T, u) == u \in Seq(Char) /\ Whole(T, u) /\ Clean(u, 1)

(* A packet is a message, *)
LEMMA PacketIsMessage ==
  ASSUME NEW T, T \subseteq Texts, NEW t \in T
  PROVE  Message(T, Packet(t)) /\ Fits(Packet(t), 1, t, 1) /\ Packet(t) # <<>>
<1> DEFINE P == Packet(t)
           L == Len(t)
<1>1. /\ P \in Seq(Char) /\ Len(P) = L + 4 /\ P[1] = "$" /\ L \in Nat
      /\ \A k \in 2 .. L + 4 : P[k] # "$"
  BY PacketFacts, TextFacts
<1>2. Fits(P, 1, t, 1)
  <2>1. ASSUME NEW j \in 1 .. L + 4 PROVE 1 + j - 1 \in 1 .. Len(P) /\ P[1 + j - 1] = Packet(t)[j]
    <3>1. 1 + j - 1 = j
      BY <1>1
    <3> QED BY <1>1, <3>1
  <2>2. Clean(P, 1 + L + 5 - 1)
    <3>1. 1 + L + 5 - 1 > Len(P)
      BY <1>1
    <3>2. (1 + L + 5 - 1) .. Len(P) = {}
      BY <1>1, <3>1
    <3> QED BY <3>2 DEF Clean
  <2> QED BY <2>1, <2>2 DEF Fits, GoesOn
<1>3. Whole(T, P)
  <2> SUFFICES ASSUME NEW p \in 1 .. Len(P), P[p] = "$" PROVE \E x \in T : Fits(P, p, x, 1)
    BY DEF Whole
  <2>1. p = 1
    BY <1>1
  <2> QED BY <1>2, <2>1
<1>4. Clean(P, 1)
  <2> HIDE DEF P
  <2>1. \A q \in 1 .. Len(P) : 1 \in 1 .. q
    BY <1>1
  <2> QED BY <1>1, <2>1 DEF Clean
<1> QED BY <1>1, <1>2, <1>3, <1>4 DEF Message

(* and so is a sign. *)
LEMMA SignIsMessage ==
  ASSUME NEW T, NEW ch \in {"+", "-"}
  PROVE  Message(T, <<ch>>)
<1> DEFINE u == <<ch>>
<1>1. ch \in Char /\ ch # "$" /\ ch # "#" /\ ch # ":"
  BY Letters DEF Char
<1>2. u \in Seq(Char) /\ Len(u) = 1 /\ u[1] = ch
  BY <1>1
<1> HIDE DEF u
<1>3. \A q \in 1 .. Len(u) : u[q] = ch
  BY <1>2
<1>4. Whole(T, u)
  BY <1>1, <1>3 DEF Whole
<1>5. Clean(u, 1)
  BY <1>1, <1>3 DEF Clean
<1> QED BY <1>2, <1>4, <1>5 DEF Message, u

(* A message is sent. *)
LEMMA LineGrows ==
  ASSUME NEW T, T \subseteq Texts, NEW s \in Seq(Char), NEW u, Message(T, u), Line(T, s)
  PROVE  Line(T, s \o u) /\ s \o u \in Seq(Char) /\ IsJoin(s \o u, s, u)
<1>1. u \in Seq(Char) /\ Whole(T, u) /\ Clean(u, 1)
  BY DEF Message
<1>2. IsJoin(s \o u, s, u)
  BY <1>1, Joined
<1>3. Line(T, s \o u)
  BY <1>1, <1>2, LineJoin
<1> QED BY <1>2, <1>3 DEF IsJoin

(* Nothing is under way. *)
LEMMA LineEmpty ==
  ASSUME NEW T
  PROVE  Line(T, <<>>) /\ Clean(<<>>, 1)
BY DEF Line, Whole, Clean

-----------------------------------------------------------------------------
(* The receiver, character by character *)

Receiver(states) ==
  [st : states, count : 0 .. BUFMAX - 1, checksum : 0 .. Byte - 1, xmitcsum : 0 .. Byte - 1,
   buffer : [0 .. BUFMAX - 1 -> Letter]]

Reading  == {"hunt", "body", "hi", "lo"}
Verdicts == {"good", "bad"}

(* In the text there is room for one character more and the end. *)
Room(r) == r.st = "body" => r.count < BUFMAX - 1

(* The receiver at the start. *)
LEMMA EmptyReceiver ==
  Empty \in Receiver(Reading) /\ Room(Empty) /\ Empty.st = "hunt" /\ Empty.buffer[2] # ":"
<1>1. [i \in 0 .. BUFMAX - 1 |-> NUL] \in [0 .. BUFMAX - 1 -> Letter]
  BY Letters
<1>2. 0 \in 0 .. BUFMAX - 1 /\ 0 \in 0 .. Byte - 1 /\ "hunt" \in Reading
  BY Letters DEF Reading
<1>3. Empty \in Receiver(Reading)
  BY <1>1, <1>2 DEF Empty, Receiver
<1>4. Empty.st = "hunt" /\ Empty.buffer = [i \in 0 .. BUFMAX - 1 |-> NUL]
  BY DEF Empty
<1>5. Empty.buffer[2] = NUL
  BY <1>4, Letters
<1> QED BY <1>3, <1>4, <1>5 DEF Room, NUL

(* Between packets everything but a $ is skipped. *)
LEMMA ScanHunt ==
  ASSUME NEW r, NEW ch, r.st = "hunt", ch # "$"
  PROVE  Scan(r, ch) = r
BY DEF Scan

(* A $ begins a packet. *)
LEMMA ScanStart ==
  ASSUME NEW r \in Receiver(Reading), r.st \in {"hunt", "body"}, NEW q, q = Scan(r, "$")
  PROVE  /\ q \in Receiver(Reading) /\ Room(q) /\ q.st = "body" /\ q.count = 0 /\ q.checksum = 0
         /\ q.buffer = r.buffer
<1>1. Scan(r, "$") = Retry(r)
  BY DEF Scan
<1>2. q = [r EXCEPT !.st = "body", !.checksum = 0, !.count = 0]
  BY <1>1 DEF Retry
<1>3. 0 \in 0 .. BUFMAX - 1 /\ 0 \in 0 .. Byte - 1 /\ "body" \in Reading /\ 0 < BUFMAX - 1
  BY Letters DEF Reading
<1>4. r = [st |-> r.st, count |-> r.count, checksum |-> r.checksum, xmitcsum |-> r.xmitcsum, buffer |-> r.buffer]
  BY DEF Receiver
<1>5. q = [st |-> "body", count |-> 0, checksum |-> 0, xmitcsum |-> r.xmitcsum, buffer |-> r.buffer]
  BY <1>2, <1>4
<1>6. r.xmitcsum \in 0 .. Byte - 1 /\ r.buffer \in [0 .. BUFMAX - 1 -> Letter]
  BY DEF Receiver
<1>7. q \in Receiver(Reading)
  BY <1>3, <1>5, <1>6 DEF Receiver
<1> QED BY <1>3, <1>5, <1>7 DEF Room

(* A # ends its text. *)
LEMMA ScanEnd ==
  ASSUME NEW r \in Receiver(Reading), r.st = "body", Room(r), NEW q, q = Scan(r, "#")
  PROVE  /\ q \in Receiver(Reading) /\ Room(q) /\ q.st = "hi" /\ q.checksum = r.checksum
         /\ r.count \in 0 .. BUFMAX - 2 /\ q.buffer[r.count] = NUL
         /\ \A i \in 0 .. BUFMAX - 1 : i # r.count => q.buffer[i] = r.buffer[i]
<1>1. Scan(r, "#") = [r EXCEPT !.buffer[r.count] = NUL, !.st = "hi"]
  BY DEF Scan
<1>2. r = [st |-> r.st, count |-> r.count, checksum |-> r.checksum, xmitcsum |-> r.xmitcsum, buffer |-> r.buffer]
  BY DEF Receiver
<1> DEFINE b == [r.buffer EXCEPT ![r.count] = NUL]
<1>3. q = [st |-> "hi", count |-> r.count, checksum |-> r.checksum, xmitcsum |-> r.xmitcsum, buffer |-> b]
  BY <1>1, <1>2
<1>4. /\ r.xmitcsum \in 0 .. Byte - 1 /\ r.buffer \in [0 .. BUFMAX - 1 -> Letter]
      /\ r.count \in 0 .. BUFMAX - 1 /\ r.checksum \in 0 .. Byte - 1 /\ "hi" \in Reading
  BY DEF Receiver, Reading
<1>5. r.count \in 0 .. BUFMAX - 2
  BY <1>4, Letters DEF Room
<1>6. b \in [0 .. BUFMAX - 1 -> Letter] /\ b[r.count] = NUL
      /\ \A i \in 0 .. BUFMAX - 1 : i # r.count => b[i] = r.buffer[i]
  BY <1>4, Letters
<1> HIDE DEF b
<1>7. q \in Receiver(Reading)
  BY <1>3, <1>4, <1>6 DEF Receiver
<1>8. q.buffer = b /\ q.st = "hi" /\ q.checksum = r.checksum
  BY <1>3
<1> QED BY <1>5, <1>6, <1>7, <1>8 DEF Room

(* Everything else belongs to it. *)
LEMMA ScanLetter ==
  ASSUME NEW r \in Receiver(Reading), r.st = "body", Room(r), NEW ch \in Letter, NEW q, q = Scan(r, ch)
  PROVE  /\ q \in Receiver(Reading) /\ Room(q) /\ r.count \in 0 .. BUFMAX - 2
         /\ q.st = "body" \/ q.st = "hunt"
         /\ q.st = "body" => /\ q.count = r.count + 1
                             /\ q.checksum = (r.checksum + Code[ch]) % Byte
                             /\ q.buffer[r.count] = ch
                             /\ \A i \in 0 .. BUFMAX - 1 : i # r.count => q.buffer[i] = r.buffer[i]
         /\ q.buffer[2] = ":" => r.buffer[2] = ":" \/ (ch = ":" /\ r.count = 2)
<1>1. Scan(r, ch) = Bounded(Keep(r, ch))
  BY Letters DEF Scan
<1>2. r = [st |-> r.st, count |-> r.count, checksum |-> r.checksum, xmitcsum |-> r.xmitcsum, buffer |-> r.buffer]
  BY DEF Receiver
<1> DEFINE b == [r.buffer EXCEPT ![r.count] = ch]
           sum == (r.checksum + Code[ch]) % Byte
           k == Keep(r, ch)
           d == [b EXCEPT ![r.count + 1] = NUL]
<1>3. k = [st |-> "body", count |-> r.count + 1, checksum |-> sum, xmitcsum |-> r.xmitcsum, buffer |-> b]
  <2> DEFINE n == r.count + 1
             k0 == [r EXCEPT !.checksum = sum, !.buffer = b, !.count = n]
  <2>1. k = k0
    BY Zenon DEF Keep
  <2> HIDE DEF b, sum, n, k
  <2>2. k0 = [st |-> r.st, count |-> n, checksum |-> sum, xmitcsum |-> r.xmitcsum, buffer |-> b]
    <3> DEFINE f == r.st
               x == r.xmitcsum
               c == r.count
               d1 == r.checksum
               e == r.buffer
               r0 == [st |-> f, count |-> c, checksum |-> d1, xmitcsum |-> x, buffer |-> e]
    <3>1. r = r0
      BY <1>2
    <3> HIDE DEF f, x, c, d1, e
    <3>2. [r0 EXCEPT !.checksum = sum]
            = [st |-> f, count |-> c, checksum |-> sum, xmitcsum |-> x, buffer |-> e]
      OBVIOUS
    <3>3. [[st |-> f, count |-> c, checksum |-> sum, xmitcsum |-> x, buffer |-> e] EXCEPT !.buffer = b]
            = [st |-> f, count |-> c, checksum |-> sum, xmitcsum |-> x, buffer |-> b]
      OBVIOUS
    <3>4. [[st |-> f, count |-> c, checksum |-> sum, xmitcsum |-> x, buffer |-> b] EXCEPT !.count = n]
            = [st |-> f, count |-> n, checksum |-> sum, xmitcsum |-> x, buffer |-> b]
      OBVIOUS
    <3> QED BY <3>1, <3>2, <3>3, <3>4, Zenon DEF f, x
  <2> QED BY <2>1, <2>2 DEF n
<1>4. /\ r.xmitcsum \in 0 .. Byte - 1 /\ r.buffer \in [0 .. BUFMAX - 1 -> Letter]
      /\ r.count \in 0 .. BUFMAX - 1 /\ r.checksum \in 0 .. Byte - 1 /\ Code[ch] \in 0 .. Byte - 1
  BY Letters DEF Receiver
<1>5. r.count \in 0 .. BUFMAX - 2 /\ r.count + 1 \in 0 .. BUFMAX - 1
  BY <1>4, Letters DEF Room
<1>6. sum \in 0 .. Byte - 1
  <2> DEFINE x == r.checksum + Code[ch]
  <2>1. x \in Nat
    BY <1>4, Letters
  <2> HIDE DEF x
  <2>2. x % Byte \in 0 .. Byte - 1
    BY <2>1, Letters, DivMod
  <2> QED BY <2>2 DEF x
<1>7. b \in [0 .. BUFMAX - 1 -> Letter] /\ b[r.count] = ch
      /\ \A i \in 0 .. BUFMAX - 1 : i # r.count => b[i] = r.buffer[i]
  BY <1>4, Letters
<1>8. d \in [0 .. BUFMAX - 1 -> Letter] /\ d[r.count + 1] = NUL
      /\ \A i \in 0 .. BUFMAX - 1 : i # r.count + 1 => d[i] = b[i]
  BY <1>5, <1>7, Letters
<1>9. b[2] = ":" => r.buffer[2] = ":" \/ (ch = ":" /\ r.count = 2)
  <2>1. 2 \in 0 .. BUFMAX - 1
    BY Letters
  <2> QED BY <1>7, <2>1
<1>10. d[2] = ":" => b[2] = ":"
  <2>1. 2 \in 0 .. BUFMAX - 1 /\ NUL # ":"
    BY Letters DEF NUL
  <2> HIDE DEF b, d
  <2> QED BY <1>8, <2>1
<1>11. q = IF k.count < BUFMAX - 1 THEN k ELSE [k EXCEPT !.buffer[k.count] = NUL, !.st = "hunt"]
  BY <1>1 DEF Bounded
<1> HIDE DEF b, sum, k
<1>12. k.count = r.count + 1 /\ k.st = "body" /\ k.checksum = sum /\ k.buffer = b
  BY <1>3
<1>13. CASE k.count < BUFMAX - 1
  <2>1. q = k
    BY <1>11, <1>13
  <2>2. q \in Receiver(Reading)
    BY <1>3, <1>4, <1>5, <1>6, <1>7, <2>1 DEF Receiver, Reading
  <2> QED BY <1>5, <1>7, <1>9, <1>12, <1>13, <2>1, <2>2 DEF Room, sum
<1>14. CASE ~(k.count < BUFMAX - 1)
  <2>1. q = [st |-> "hunt", count |-> r.count + 1, checksum |-> sum, xmitcsum |-> r.xmitcsum, buffer |-> d]
    BY <1>3, <1>11, <1>14
  <2> HIDE DEF d
  <2>2. q \in Receiver(Reading)
    BY <1>4, <1>5, <1>6, <1>8, <2>1 DEF Receiver, Reading
  <2>3. q.st = "hunt" /\ q.buffer = d
    BY <2>1
  <2> QED BY <1>5, <1>9, <1>10, <2>2, <2>3 DEF Room
<1> QED BY <1>13, <1>14

(* The digits. *)
LEMMA ScanHi ==
  ASSUME NEW r \in Receiver(Reading), r.st = "hi", NEW ch, NEW q, q = Scan(r, ch)
  PROVE  /\ q \in Receiver(Reading) /\ Room(q) /\ q.st = "lo" /\ q.checksum = r.checksum
         /\ q.xmitcsum = (hex(ch) * Base) % Byte /\ q.buffer = r.buffer
<1>1. Scan(r, ch) = [r EXCEPT !.xmitcsum = (hex(ch) * Base) % Byte, !.st = "lo"]
  BY DEF Scan
<1>2. r = [st |-> r.st, count |-> r.count, checksum |-> r.checksum, xmitcsum |-> r.xmitcsum, buffer |-> r.buffer]
  BY DEF Receiver
<1> DEFINE x == hex(ch) * Base
           e == x % Byte
<1>3. x \in Int
  BY HexType, Letters
<1> HIDE DEF x
<1>4. e \in 0 .. Byte - 1
  BY <1>3, Letters
<1> HIDE DEF e
<1>5. q = [st |-> "lo", count |-> r.count, checksum |-> r.checksum, xmitcsum |-> e, buffer |-> r.buffer]
  BY <1>1, <1>2 DEF e, x
<1>6. /\ r.buffer \in [0 .. BUFMAX - 1 -> Letter]
      /\ r.count \in 0 .. BUFMAX - 1 /\ r.checksum \in 0 .. Byte - 1 /\ "lo" \in Reading
  BY DEF Receiver, Reading
<1>7. q \in Receiver(Reading)
  BY <1>4, <1>5, <1>6 DEF Receiver
<1> QED BY <1>5, <1>7 DEF Room, e, x

(* The second one: the packet is good or bad. *)
LEMMA ScanLo ==
  ASSUME NEW r \in Receiver(Reading), r.st = "lo", NEW ch, NEW q, q = Scan(r, ch)
  PROVE  /\ q.st \in Verdicts /\ q.buffer = r.buffer
         /\ q.st = "good" => r.checksum = (r.xmitcsum + hex(ch)) % Byte
         /\ [q EXCEPT !.st = "hunt"] \in Receiver(Reading) /\ Room([q EXCEPT !.st = "hunt"])
         /\ [q EXCEPT !.st = "hunt"].st = "hunt" /\ [q EXCEPT !.st = "hunt"].buffer = r.buffer
<1>1. Scan(r, ch) = [r EXCEPT !.st = Verdict(r, (r.xmitcsum + hex(ch)) % Byte)]
  BY DEF Scan
<1>2. r = [st |-> r.st, count |-> r.count, checksum |-> r.checksum, xmitcsum |-> r.xmitcsum, buffer |-> r.buffer]
  BY DEF Receiver
<1> DEFINE v == Verdict(r, (r.xmitcsum + hex(ch)) % Byte)
<1>3. v \in Verdicts /\ (v = "good" => r.checksum = (r.xmitcsum + hex(ch)) % Byte)
  BY DEF Verdict, Verdicts
<1> HIDE DEF v
<1>4. q = [st |-> v, count |-> r.count, checksum |-> r.checksum, xmitcsum |-> r.xmitcsum, buffer |-> r.buffer]
  BY <1>1, <1>2 DEF v
<1> DEFINE w == [q EXCEPT !.st = "hunt"]
<1>5. w = [st |-> "hunt", count |-> r.count, checksum |-> r.checksum, xmitcsum |-> r.xmitcsum, buffer |-> r.buffer]
  BY <1>4
<1> HIDE DEF w
<1>6. /\ r.buffer \in [0 .. BUFMAX - 1 -> Letter] /\ r.xmitcsum \in 0 .. Byte - 1
      /\ r.count \in 0 .. BUFMAX - 1 /\ r.checksum \in 0 .. Byte - 1 /\ "hunt" \in Reading
  BY DEF Receiver, Reading
<1>7. w \in Receiver(Reading)
  BY <1>5, <1>6 DEF Receiver
<1>8. w.st = "hunt" /\ w.buffer = r.buffer /\ q.st = v /\ q.buffer = r.buffer
  BY <1>4, <1>5
<1> QED BY <1>3, <1>7, <1>8 DEF Room, w

-----------------------------------------------------------------------------
(* The receiver and what is under way *)

(* The receiver has the first n characters of t. *)
Holds(r, t, n) ==
  /\ r.count = n /\ r.checksum = SumUpTo(t)[n]
  /\ \A i \in 0 .. n - 1 : r.buffer[i] = t[i + 1]

InText(r, s, t) == r.st = "body" /\ \E n \in 0 .. Len(t) : Holds(r, t, n) /\ Fits(s, 1, t, n + 2)

(* All of t is in the buffer. *)
Stored(b, t) ==
  /\ Len(t) <= BUFMAX - 2 /\ b[Len(t)] = NUL
  /\ \A i \in 0 .. Len(t) - 1 : b[i] = t[i + 1]

HasText(r, t) == r.st \in {"hi", "lo"} /\ Stored(r.buffer, t)

(* What the receiver has is what was sent. *)
InStep(T, r, s) == r.st = "hunt" \/ \E t \in T : InText(r, s, t) \/ HasText(r, t)

(* It is not, and the sum will tell: the end of the text went by unnoticed, *)
Adrift(r, s) == r.st = "body" /\ Clean(s, 1)

(* a character of the text did, *)
OffText(r, s, t) ==
  /\ r.st = "body"
  /\ \E k \in 3 .. Len(t) + 2 : Fits(s, 1, t, k) /\ r.checksum # SumUpTo(t)[k - 2]

(* or the sum is already compared with what is not equal to it. *)
OffHi(r, s, t) ==
  r.st = "hi" /\ \E k \in 3 .. Len(t) + 3 : Fits(s, 1, t, k) /\ r.checksum # Digits(t, k)

OffLo(r, s, t) ==
  /\ r.st = "lo"
  /\ \E k \in 3 .. Len(t) + 3 :
       /\ Fits(s, 1, t, k + 1) /\ r.checksum # Digits(t, k)
       /\ r.xmitcsum = (hex(Packet(t)[k]) * Base) % Byte

OffIn(r, s, t) == OffText(r, s, t) \/ OffHi(r, s, t) \/ OffLo(r, s, t)

Off(T, r, s) == Adrift(r, s) \/ \E t \in T : OffIn(r, s, t)

(* A text that goes on. *)
LEMMA TextGrows ==
  ASSUME NEW r \in Receiver(Reading), Room(r), r.st = "body", NEW t \in Texts, NEW n \in 0 .. Len(t) - 1,
         Holds(r, t, n), NEW q, q = Scan(r, Packet(t)[n + 2])
  PROVE  q.st = "body" => Holds(q, t, n + 1)
<1> DEFINE ch == Packet(t)[n + 2]
<1>1. Len(t) \in Nat
  BY TextFacts
<1>2. n + 2 \in 2 .. Len(t) + 1 /\ (n + 2) - 1 = n + 1 /\ n + 1 \in 1 .. Len(t) /\ (n + 1) - 1 = n
  BY <1>1
<1>3. ch = t[n + 1] /\ ch \in Letter
  BY <1>2, PacketFacts
<1> HIDE DEF ch
<1>4. SUFFICES ASSUME q.st = "body" PROVE Holds(q, t, n + 1)
  OBVIOUS
<1>5. /\ q.count = r.count + 1 /\ q.checksum = (r.checksum + Code[ch]) % Byte
      /\ q.buffer[r.count] = ch /\ r.count \in 0 .. BUFMAX - 2
      /\ \A i \in 0 .. BUFMAX - 1 : i # r.count => q.buffer[i] = r.buffer[i]
  BY <1>3, <1>4, ScanLetter DEF ch
<1>6. r.count = n /\ r.checksum = SumUpTo(t)[n] /\ \A i \in 0 .. n - 1 : r.buffer[i] = t[i + 1]
  BY DEF Holds
<1>7. q.checksum = SumUpTo(t)[n + 1]
  <2>1. SumUpTo(t)[n + 1] = (SumUpTo(t)[(n + 1) - 1] + Code[t[n + 1]]) % Byte
    BY <1>2, SumSteps, TextFacts
  <2> QED BY <1>2, <1>3, <1>5, <1>6, <2>1
<1>8. ASSUME NEW i \in 0 .. (n + 1) - 1 PROVE q.buffer[i] = t[i + 1]
  <2>1. CASE i = n
    BY <1>3, <1>5, <1>6, <2>1
  <2>2. CASE i # n
    <3>1. i \in 0 .. n - 1 /\ i \in 0 .. BUFMAX - 1
      BY <1>5, <1>6, <2>2, Letters
    <3> QED BY <1>5, <1>6, <2>2, <3>1
  <2> QED BY <2>1, <2>2
<1>9. q.count = n + 1
  BY <1>5, <1>6
<1> QED BY <1>7, <1>8, <1>9 DEF Holds

(* A text that ends. *)
LEMMA TextEnds ==
  ASSUME NEW r \in Receiver(Reading), Room(r), r.st = "body", NEW t \in Texts,
         Holds(r, t, Len(t)), NEW q, q = Scan(r, "#")
  PROVE  HasText(q, t)
<1>1. Len(t) \in Nat
  BY TextFacts
<1>2. /\ q.st = "hi" /\ r.count \in 0 .. BUFMAX - 2 /\ q.buffer[r.count] = NUL
      /\ \A i \in 0 .. BUFMAX - 1 : i # r.count => q.buffer[i] = r.buffer[i]
  BY ScanEnd
<1>3. r.count = Len(t) /\ \A i \in 0 .. Len(t) - 1 : r.buffer[i] = t[i + 1]
  BY DEF Holds
<1>4. ASSUME NEW i \in 0 .. Len(t) - 1 PROVE q.buffer[i] = t[i + 1]
  <2>1. i \in 0 .. BUFMAX - 1 /\ i # r.count
    BY <1>1, <1>2, <1>3, Letters
  <2> QED BY <1>2, <1>3, <2>1
<1>5. Len(t) <= BUFMAX - 2
  BY <1>1, <1>2, <1>3, Letters
<1> QED BY <1>2, <1>3, <1>4, <1>5 DEF HasText, Stored

(* Third characters that texts leave in the buffer. *)
LEMMA StoredMark ==
  ASSUME NEW t \in Texts, NEW b, Stored(b, t), Len(t) >= 2
  PROVE  b[2] # ":"
<1>1. Len(t) \in Nat /\ (Len(t) >= 3 => t[3] # ":")
  BY TextFacts
<1>2. CASE Len(t) = 2
  <2>1. b[Len(t)] = NUL /\ NUL # ":"
    BY DEF Stored, NUL
  <2> QED BY <1>2, <2>1
<1>3. CASE Len(t) >= 3
  <2>1. 2 \in 0 .. Len(t) - 1
    BY <1>1, <1>3
  <2>2. b[2] = t[2 + 1] /\ 2 + 1 = 3
    BY <2>1 DEF Stored
  <2> QED BY <1>1, <1>3, <2>2
<1>4. Len(t) = 2 \/ Len(t) >= 3
  <2> DEFINE L == Len(t)
  <2>1. L \in Nat /\ L >= 2
    BY <1>1, Zenon
  <2> HIDE DEF L
  <2>2. L = 2 \/ L >= 3
    BY <2>1
  <2> QED BY <2>2 DEF L
<1> QED BY <1>2, <1>3, <1>4, Zenon

(* The text that is taken from the buffer. *)
LEMMA StoredText ==
  ASSUME NEW t \in Texts, NEW r, Stored(r.buffer, t), r.buffer[2] # ":"
  PROVE  Text(r) = t /\ Acknowledge(r) = <<"+">>
<1>1. ~HasSequence(r)
  BY DEF HasSequence
<1>2. Text(r) = TextAt(r, 0) /\ Acknowledge(r) = <<"+">>
  BY <1>1 DEF Text, Acknowledge
<1> DEFINE L == Len(t)
           b == r.buffer
           Q(i) == b[i] = NUL /\ \A j \in 0 .. i - 1 : b[j] # NUL
           end == CHOOSE i \in 0 .. BUFMAX - 1 : Q(i)
<1>3. L \in Nat /\ L <= BUFMAX - 2 /\ b[L] = NUL /\ \A i \in 0 .. L - 1 : b[i] = t[i + 1] /\ b[i] # NUL
  <2>1. L \in Nat /\ L <= BUFMAX - 2 /\ b[L] = NUL /\ \A i \in 0 .. L - 1 : b[i] = t[i + 1]
    BY TextFacts DEF Stored
  <2>2. ASSUME NEW i \in 0 .. L - 1 PROVE b[i] # NUL
    <3>1. i + 1 \in 1 .. L
      BY <2>1
    <3> QED BY <2>1, <3>1, TextFacts
  <2> QED BY <2>1, <2>2
<1>4. TextAt(r, 0) = [i \in 1 .. end - 0 |-> b[0 + i - 1]]
  BY DEF TextAt
<1> HIDE DEF b
<1>5. L \in 0 .. BUFMAX - 1 /\ Q(L)
  BY <1>3, Letters
<1>6. end \in 0 .. BUFMAX - 1 /\ Q(end)
  <2>1. \E i \in 0 .. BUFMAX - 1 : Q(i)
    BY <1>5
  <2> HIDE DEF Q
  <2> QED BY <2>1
<1> HIDE DEF end
<1>7. end = L
  <2>1. CASE end < L
    BY <1>3, <1>6, <2>1, Letters
  <2>2. CASE L < end
    BY <1>3, <1>5, <1>6, <2>2, Letters
  <2> QED BY <1>3, <1>6, <2>1, <2>2, Letters
<1>8. ASSUME NEW i \in 1 .. L PROVE b[0 + i - 1] = t[i]
  <2>1. 0 + i - 1 \in 0 .. L - 1 /\ (0 + i - 1) + 1 = i
    BY <1>3
  <2> QED BY <1>3, <2>1
<1>9. end - 0 = L
  BY <1>3, <1>7
<1>10. TextAt(r, 0) = [i \in 1 .. L |-> t[i]]
  BY <1>4, <1>8, <1>9
<1>11. t = [i \in 1 .. L |-> t[i]]
  BY TextFacts
<1> QED BY <1>2, <1>10, <1>11

(* What may be read in the place of a character, as far as it matters. *)
LEMMA ScanTypes ==
  ASSUME NEW r \in Receiver(Reading), Room(r), NEW ch \in Char, NEW q, q = Scan(r, ch)
  PROVE  /\ q.st \in Verdicts => r.st = "lo"
         /\ q.st \notin Verdicts => q \in Receiver(Reading) /\ Room(q)
         /\ q.buffer[2] = ":" => r.buffer[2] = ":" \/ (r.st = "body" /\ ch = ":" /\ r.count = 2)
<1>1. r.st = "hunt" \/ r.st = "body" \/ r.st = "hi" \/ r.st = "lo"
  BY DEF Receiver, Reading
<1>2. ch = "$" \/ ch = "#" \/ ch \in Letter
  BY DEF Char
<1>3. CASE r.st = "hunt" /\ ch # "$"
  BY <1>3, ScanHunt DEF Verdicts
<1>4. CASE r.st \in {"hunt", "body"} /\ ch = "$"
  BY <1>4, ScanStart DEF Verdicts
<1>5. CASE r.st = "body" /\ ch = "#"
  <2>1. q \in Receiver(Reading) /\ Room(q) /\ q.st = "hi" /\ q.buffer[r.count] = NUL
        /\ \A i \in 0 .. BUFMAX - 1 : i # r.count => q.buffer[i] = r.buffer[i]
    BY <1>5, ScanEnd
  <2>2. 2 \in 0 .. BUFMAX - 1 /\ NUL # ":"
    BY Letters DEF NUL
  <2>3. q.buffer[2] = ":" => r.buffer[2] = ":"
    BY <2>1, <2>2
  <2> QED BY <2>1, <2>3 DEF Verdicts
<1>6. CASE r.st = "body" /\ ch \in Letter
  BY <1>6, ScanLetter DEF Verdicts
<1>7. CASE r.st = "hi"
  BY <1>7, ScanHi DEF Verdicts
<1>8. CASE r.st = "lo"
  BY <1>8, ScanLo
<1> QED BY <1>1, <1>2, <1>3, <1>4, <1>5, <1>6, <1>7, <1>8

(* The texts of T tell marks, see NoiseAssumption. *)
Telling(T) == T \subseteq Texts /\ \A t \in T : TellsMarks(t)

(* In the text, the next character is read. *)
LEMMA InTextReads ==
  ASSUME NEW t \in Texts, NEW r \in Receiver(Reading), Room(r), NEW s \in Seq(Char),
         InText(r, s, t), NEW q, q = Scan(r, Head(s))
  PROVE  /\ s # <<>>
         /\ \/ q.st = "body" /\ q.count = r.count + 1 /\ InText(q, Tail(s), t)
            \/ q.st = "hunt"
            \/ q.st = "hi" /\ r.count = Len(t) /\ HasText(q, t)
         /\ q.buffer[2] = ":" => r.buffer[2] = ":"
<1>1. PICK n \in 0 .. Len(t) : Holds(r, t, n) /\ Fits(s, 1, t, n + 2)
  BY DEF InText
<1>2. r.st = "body" /\ Len(t) \in Nat /\ r.count = n
  BY <1>1, TextFacts DEF InText, Holds
<1>3. n + 2 \in 1 .. Len(t) + 4
  BY <1>2
<1>4. s # <<>> /\ Head(s) = Packet(t)[n + 2] /\ Fits(Tail(s), 1, t, (n + 2) + 1)
  BY <1>1, <1>3, FitsNext
<1>5. CASE n < Len(t)
  <2>1. n \in 0 .. Len(t) - 1 /\ n + 2 \in 2 .. Len(t) + 1 /\ (n + 2) + 1 = (n + 1) + 2
        /\ n + 1 \in 0 .. Len(t) /\ (n + 2) - 1 = n + 1
    BY <1>2, <1>5
  <2>2. Packet(t)[n + 2] \in Letter /\ Packet(t)[n + 2] = t[n + 1]
    BY <2>1, PacketFacts
  <2>3. q = Scan(r, Packet(t)[n + 2])
    BY <1>4
  <2>4. q.st = "body" => Holds(q, t, n + 1)
    BY <1>1, <1>2, <2>1, <2>3, TextGrows
  <2>5. /\ q.st = "body" \/ q.st = "hunt"
        /\ q.st = "body" => q.count = r.count + 1
        /\ q.buffer[2] = ":" => r.buffer[2] = ":" \/ (Packet(t)[n + 2] = ":" /\ r.count = 2)
    BY <1>2, <2>2, <2>3, ScanLetter
  <2>6. ~(Packet(t)[n + 2] = ":" /\ r.count = 2)
    <3> SUFFICES ASSUME n = 2 PROVE t[n + 1] # ":"
      BY <1>2, <2>2
    <3>1. n + 1 = 3 /\ Len(t) >= 3
      BY <1>2, <1>5
    <3> QED BY <3>1, TextFacts
  <2>7. q.st = "body" => InText(q, Tail(s), t)
    BY <1>4, <2>1, <2>4 DEF InText
  <2> QED BY <1>4, <2>5, <2>6, <2>7
<1>6. CASE n = Len(t)
  <2>1. Head(s) = "#"
    BY <1>4, <1>6, PacketFacts
  <2>2. HasText(q, t) /\ q.st = "hi"
    BY <1>1, <1>2, <1>6, <2>1, TextEnds, ScanEnd
  <2>3. q.buffer[2] = ":" => r.buffer[2] = ":"
    <3>1. "#" \in Char
      BY DEF Char
    <3> QED BY <2>1, <3>1, ScanTypes
  <2> QED BY <1>2, <1>4, <1>6, <2>2, <2>3
<1> QED BY <1>2, <1>5, <1>6

(* Behind it, the digits are. *)
LEMMA HasTextReads ==
  ASSUME NEW t, NEW r \in Receiver(Reading), HasText(r, t), NEW ch, NEW q, q = Scan(r, ch)
  PROVE  /\ q.buffer = r.buffer
         /\ \/ r.st = "hi" /\ q.st = "lo" /\ HasText(q, t)
            \/ r.st = "lo" /\ q.st \in Verdicts
<1>1. CASE r.st = "hi"
  BY <1>1, ScanHi DEF HasText
<1>2. CASE r.st = "lo"
  BY <1>2, ScanLo
<1> QED BY <1>1, <1>2 DEF HasText

(* Between packets, a $ begins the next one. *)
LEMMA StartReads ==
  ASSUME NEW T, T \subseteq Texts, NEW r \in Receiver(Reading), r.st \in {"hunt", "body"},
         NEW s \in Seq(Char), Line(T, s), s # <<>>, Head(s) = "$", NEW q, q = Scan(r, "$")
  PROVE  /\ q.st = "body" /\ q.count = 0 /\ q.buffer = r.buffer
         /\ \E t \in T : InText(q, Tail(s), t) /\ Fits(s, 1, t, 1)
<1>1. s[1] = "$" /\ 1 \in 1 .. Len(s)
  BY Shorter
<1>2. PICK t \in T : Fits(s, 1, t, 1)
  BY <1>1 DEF Line, Whole
<1>3. t \in Texts /\ Len(t) \in Nat /\ 1 \in 1 .. Len(t) + 4 /\ 0 \in 0 .. Len(t)
  BY TextFacts
<1>4. Fits(Tail(s), 1, t, 1 + 1)
  BY <1>2, <1>3, FitsNext
<1>5. q.st = "body" /\ q.count = 0 /\ q.checksum = 0 /\ q.buffer = r.buffer
  BY ScanStart
<1>6. SumUpTo(t)[0] = 0
  BY <1>3, TextFacts, SumSteps
<1>7. Holds(q, t, 0)
  BY <1>5, <1>6 DEF Holds
<1>8. Fits(Tail(s), 1, t, 0 + 2)
  BY <1>4
<1>9. InText(q, Tail(s), t)
  BY <1>3, <1>5, <1>7, <1>8 DEF InText
<1> QED BY <1>2, <1>5, <1>9

(* In step, the receiver stays in step. *)
LEMMA InStepReads ==
  ASSUME NEW T, T \subseteq Texts, NEW r \in Receiver(Reading), Room(r),
         NEW s \in Seq(Char), s # <<>>, Line(T, s), InStep(T, r, s), NEW q, q = Scan(r, Head(s))
  PROVE  /\ q.st \in Verdicts => \E t \in T : HasText(r, t)
         /\ q.st \notin Verdicts => InStep(T, q, Tail(s))
         /\ q.buffer[2] = ":" => r.buffer[2] = ":"
<1>1. CASE r.st = "hunt" /\ Head(s) # "$"
  BY <1>1, ScanHunt DEF InStep, Verdicts
<1>2. CASE r.st = "hunt" /\ Head(s) = "$"
  BY <1>2, StartReads DEF InStep, Verdicts
<1>3. ASSUME NEW t \in T, InText(r, s, t)
      PROVE  q.st \notin Verdicts /\ InStep(T, q, Tail(s)) /\ (q.buffer[2] = ":" => r.buffer[2] = ":")
  BY <1>3, InTextReads DEF InStep, Verdicts
<1>4. ASSUME NEW t \in T, HasText(r, t)
      PROVE  q.buffer = r.buffer /\ (q.st \notin Verdicts => InStep(T, q, Tail(s)))
  BY <1>4, HasTextReads DEF InStep
<1> QED BY <1>1, <1>2, <1>3, <1>4 DEF InStep

(* Off, the receiver stays off until it notices. *)
LEMMA OffTextReads ==
  ASSUME NEW t \in Texts, NEW r \in Receiver(Reading), Room(r), NEW s \in Seq(Char),
         OffText(r, s, t), NEW q, q = Scan(r, Head(s))
  PROVE  /\ s # <<>> /\ Head(s) # "$"
         /\ q.st = "hunt" \/ OffIn(q, Tail(s), t)
         /\ q.st \notin Verdicts
         /\ q.buffer[2] = ":" => r.buffer[2] = ":" \/ Len(t) >= 2
<1>1. PICK k \in 3 .. Len(t) + 2 : Fits(s, 1, t, k) /\ r.checksum # SumUpTo(t)[k - 2]
  BY DEF OffText
<1>2. r.st = "body" /\ Len(t) \in Nat
  BY TextFacts DEF OffText
<1>3. k \in 1 .. Len(t) + 4 /\ k \in 2 .. Len(t) + 4
  BY <1>2
<1>4. s # <<>> /\ Head(s) = Packet(t)[k] /\ Fits(Tail(s), 1, t, k + 1)
  BY <1>1, <1>3, FitsNext
<1>5. Head(s) # "$"
  BY <1>3, <1>4, PacketFacts
<1>6. CASE k <= Len(t) + 1
  <2>1. k \in 2 .. Len(t) + 1 /\ k + 1 \in 3 .. Len(t) + 2 /\ (k + 1) - 2 = k - 1 /\ k - 1 \in 1 .. Len(t)
        /\ (k - 1) - 1 = k - 2 /\ k - 2 \in 0 .. Len(t) /\ Len(t) >= 2
    BY <1>2, <1>6
  <2> DEFINE ch == Packet(t)[k]
             a == r.checksum
             b == SumUpTo(t)[k - 2]
  <2>2. ch \in Letter /\ ch = t[k - 1] /\ q = Scan(r, ch)
    BY <1>4, <2>1, PacketFacts
  <2>3. a \in 0 .. Byte - 1 /\ b \in 0 .. Byte - 1 /\ Code[ch] \in 0 .. Byte - 1 /\ a # b
    BY <1>1, <2>1, <2>2, Letters, SumSteps, TextFacts DEF Receiver
  <2>4. SumUpTo(t)[k - 1] = (b + Code[ch]) % Byte
    <3>1. SumUpTo(t)[k - 1] = (SumUpTo(t)[(k - 1) - 1] + Code[t[k - 1]]) % Byte
      BY <2>1, SumSteps, TextFacts
    <3> QED BY <2>1, <2>2, <3>1
  <2> HIDE DEF a, b, ch
  <2>5. (a + Code[ch]) % Byte # (b + Code[ch]) % Byte
    BY <2>3, StayApart
  <2>6. q.st = "body" \/ q.st = "hunt"
    BY <1>2, <2>2, ScanLetter
  <2>7. q.st = "body" => q.checksum = (a + Code[ch]) % Byte
    BY <1>2, <2>2, ScanLetter DEF a
  <2>8. q.st = "body" => q.checksum # SumUpTo(t)[(k + 1) - 2]
    BY <2>1, <2>4, <2>5, <2>7
  <2>9. q.st = "body" => OffText(q, Tail(s), t)
    BY <1>4, <2>1, <2>8 DEF OffText
  <2> QED BY <1>4, <1>5, <2>1, <2>6, <2>9 DEF OffIn, Verdicts
<1>7. CASE k = Len(t) + 2
  <2>1. Head(s) = "#" /\ Digits(t, Len(t) + 3) = SumUpTo(t)[Len(t)]
    BY <1>4, <1>7, PacketFacts
  <2>2. k + 1 = Len(t) + 3 /\ k - 2 = Len(t) /\ k + 1 \in 3 .. Len(t) + 3
    BY <1>2, <1>7
  <2>3. q.st = "hi" /\ q.checksum = r.checksum
    BY <1>2, <2>1, ScanEnd
  <2>4. q.checksum # Digits(t, k + 1)
    BY <1>1, <2>1, <2>2, <2>3
  <2>5. OffHi(q, Tail(s), t)
    BY <1>4, <2>2, <2>3, <2>4 DEF OffHi
  <2>6. q.buffer[2] = ":" => r.buffer[2] = ":"
    <3>1. "#" \in Char
      BY DEF Char
    <3> QED BY <2>1, <3>1, ScanTypes
  <2> QED BY <1>4, <1>5, <2>3, <2>5, <2>6 DEF OffIn, Verdicts
<1> QED BY <1>2, <1>6, <1>7

(* Off behind the text, the packet is rejected. *)
LEMMA OffDigitsRead ==
  ASSUME NEW t \in Texts, NEW r \in Receiver(Reading), Room(r), NEW s \in Seq(Char),
         OffHi(r, s, t) \/ OffLo(r, s, t), NEW q, q = Scan(r, Head(s))
  PROVE  /\ s # <<>> /\ Head(s) # "$"
         /\ q.st = "bad" \/ (q.st \notin Verdicts /\ OffIn(q, Tail(s), t))
         /\ q.buffer = r.buffer
<1>1. Len(t) \in Nat
  BY TextFacts
<1>2. CASE OffHi(r, s, t)
  <2>1. PICK k \in 3 .. Len(t) + 3 : Fits(s, 1, t, k) /\ r.checksum # Digits(t, k)
    BY <1>2 DEF OffHi
  <2>2. k \in 1 .. Len(t) + 4 /\ k \in 2 .. Len(t) + 4
    BY <1>1
  <2>3. s # <<>> /\ Head(s) = Packet(t)[k] /\ Fits(Tail(s), 1, t, k + 1) /\ Head(s) # "$"
    BY <2>1, <2>2, FitsNext, PacketFacts
  <2>4. /\ q.st = "lo" /\ q.checksum = r.checksum /\ q.buffer = r.buffer
        /\ q.xmitcsum = (hex(Packet(t)[k]) * Base) % Byte
    BY <1>2, <2>3, ScanHi DEF OffHi
  <2>5. OffLo(q, Tail(s), t)
    BY <2>1, <2>3, <2>4 DEF OffLo
  <2> QED BY <2>3, <2>4, <2>5 DEF OffIn, Verdicts
<1>3. CASE OffLo(r, s, t)
  <2>1. PICK k \in 3 .. Len(t) + 3 :
               /\ Fits(s, 1, t, k + 1) /\ r.checksum # Digits(t, k)
               /\ r.xmitcsum = (hex(Packet(t)[k]) * Base) % Byte
    BY <1>3 DEF OffLo
  <2>2. k + 1 \in 1 .. Len(t) + 4 /\ k + 1 \in 2 .. Len(t) + 4
    BY <1>1
  <2>3. s # <<>> /\ Head(s) = Packet(t)[k + 1] /\ Head(s) # "$"
    BY <2>1, <2>2, FitsNext, PacketFacts
  <2>4. Digits(t, k) = (r.xmitcsum + hex(Head(s))) % Byte
    BY <2>1, <2>3 DEF Digits
  <2>5. q.st \in Verdicts /\ q.buffer = r.buffer /\ q.st # "good"
    BY <1>3, <2>1, <2>4, ScanLo DEF OffLo
  <2> QED BY <2>3, <2>5 DEF Verdicts
<1> QED BY <1>2, <1>3

(* Both cases together. *)
LEMMA OffInReads ==
  ASSUME NEW t \in Texts, NEW r \in Receiver(Reading), Room(r), NEW s \in Seq(Char),
         OffIn(r, s, t), NEW q, q = Scan(r, Head(s))
  PROVE  /\ s # <<>> /\ Head(s) # "$"
         /\ q.st = "bad" \/ q.st = "hunt" \/ (q.st \notin Verdicts /\ OffIn(q, Tail(s), t))
         /\ q.buffer[2] = ":" => r.buffer[2] = ":" \/ Len(t) >= 2
<1>1. CASE OffText(r, s, t)
  BY <1>1, OffTextReads
<1>2. CASE OffHi(r, s, t) \/ OffLo(r, s, t)
  BY <1>2, OffDigitsRead
<1> QED BY <1>1, <1>2 DEF OffIn

(* Behind the end that went by, everything is taken for text. *)
LEMMA AdriftReads ==
  ASSUME NEW r \in Receiver(Reading), Room(r), NEW s \in Seq(Char), s # <<>>,
         Adrift(r, s), Head(s) # "$", NEW q, q = Scan(r, Head(s))
  PROVE  /\ q.st = "hunt" \/ Adrift(q, Tail(s))
         /\ q.st \notin Verdicts
         /\ q.buffer[2] = ":" => r.buffer[2] = ":"
<1>1. Head(s) = s[1] /\ s[1] \in Char /\ 1 \in 1 .. Len(s) /\ r.st = "body" /\ Clean(s, 1)
  BY Shorter DEF Adrift
<1>2. s[1] # "#" /\ s[1] # ":"
  <2>1. \A p \in 1 .. 1 : p = 1
    OBVIOUS
  <2> QED BY <1>1, <2>1 DEF Clean
<1>3. s[1] \in Letter
  BY <1>1, <1>2 DEF Char
<1>4. Clean(Tail(s), IF 1 = 1 THEN 1 ELSE 1 - 1)
  BY <1>1, CleanTail
<1>5. /\ q.st = "body" \/ q.st = "hunt"
      /\ q.buffer[2] = ":" => r.buffer[2] = ":" \/ (s[1] = ":" /\ r.count = 2)
  BY <1>1, <1>3, ScanLetter
<1> QED BY <1>2, <1>4, <1>5 DEF Adrift, Verdicts

(* A damaged character that looks like the start of a packet, *)
LEMMA StruckHunt ==
  ASSUME NEW T, Telling(T), NEW r \in Receiver(Reading), r.st = "hunt", "$" \in Noise,
         NEW s \in Seq(Char), s # <<>>, Line(T, s), Head(s) # "$", NEW q, q = Scan(r, "$")
  PROVE  Adrift(q, Tail(s)) \/ \E t \in T : OffIn(q, Tail(s), t)
<1>1. q.st = "body" /\ q.checksum = 0
  BY ScanStart
<1>2. Head(s) = s[1] /\ Tail(s) \in Seq(Char)
  BY Shorter
<1>3. CASE Clean(s, 1)
  <2>1. Clean(Tail(s), IF 1 = 1 THEN 1 ELSE 1 - 1)
    BY <1>2, <1>3, CleanTail
  <2> QED BY <1>1, <2>1 DEF Adrift
<1>4. CASE Cut(T, s)
  <2>1. PICK t \in T : \E k \in 2 .. Len(t) + 4 : Fits(s, 1, t, k)
    BY <1>4 DEF Cut
  <2>2. PICK k \in 2 .. Len(t) + 4 : Fits(s, 1, t, k)
    BY <2>1
  <2>3. t \in Texts /\ Len(t) \in Nat /\ TellsMarks(t)
    BY TextFacts DEF Telling
  <2>4. k \in 1 .. Len(t) + 4
    BY <2>3
  <2>5. Fits(Tail(s), 1, t, k + 1)
    BY <2>2, <2>3, <2>4, FitsNext
  <2>6. CASE k <= Len(t) + 1
    <3>1. k + 1 \in 3 .. Len(t) + 2 /\ (k + 1) - 2 = k - 1 /\ k - 1 \in 1 .. Len(t)
      BY <2>3, <2>6
    <3>2. SumUpTo(t)[(k + 1) - 2] # 0
      BY <2>3, <3>1 DEF TellsMarks
    <3>3. q.checksum # SumUpTo(t)[(k + 1) - 2]
      BY <1>1, <3>2
    <3>4. OffText(q, Tail(s), t)
      BY <1>1, <2>5, <3>1, <3>3 DEF OffText
    <3> QED BY <3>4 DEF OffIn
  <2>7. CASE k > Len(t) + 1
    <3>1. k + 1 \in Len(t) + 3 .. Len(t) + 5
      BY <2>3, <2>7
    <3>2. Clean(Tail(s), 1)
      BY <1>2, <2>3, <2>5, <3>1, CleanBehind
    <3> QED BY <1>1, <3>2 DEF Adrift
  <2> QED BY <2>3, <2>6, <2>7
<1> QED BY <1>3, <1>4 DEF Line

(* one in a text, *)
LEMMA StruckText ==
  ASSUME NEW t \in Texts, TellsMarks(t), NEW r \in Receiver(Reading), Room(r), NEW s \in Seq(Char),
         InText(r, s, t), NEW ch \in Noise, ch # Head(s), NEW q, q = Scan(r, ch)
  PROVE  /\ q.st = "hunt" \/ Adrift(q, Tail(s)) \/ OffIn(q, Tail(s), t)
         /\ q.st \notin Verdicts
         /\ q.buffer[2] = ":" => r.buffer[2] = ":" \/ Len(t) >= 2
<1>1. PICK n \in 0 .. Len(t) : Holds(r, t, n) /\ Fits(s, 1, t, n + 2)
  BY DEF InText
<1>2. r.st = "body" /\ Len(t) \in Nat /\ r.count = n /\ r.checksum = SumUpTo(t)[n]
  BY <1>1, TextFacts DEF InText, Holds
<1>3. n + 2 \in 1 .. Len(t) + 4
  BY <1>2
<1>4. s # <<>> /\ Head(s) = Packet(t)[n + 2] /\ Fits(Tail(s), 1, t, (n + 2) + 1)
  BY <1>1, <1>3, FitsNext
<1>5. (n + 2) + 1 = n + 3 /\ Fits(Tail(s), 1, t, n + 3) /\ Tail(s) \in Seq(Char)
  BY <1>4, <1>2, Shorter
<1>6. q.buffer[2] = ":" => r.buffer[2] = ":" \/ Len(t) >= 2
  <2>1. ch \in Char
    BY Letters
  <2>2. q.buffer[2] = ":" => r.buffer[2] = ":" \/ (r.st = "body" /\ ch = ":" /\ r.count = 2)
    BY <2>1, ScanTypes
  <2>3. r.count = 2 => Len(t) >= 2
    BY <1>2
  <2> QED BY <2>2, <2>3
<1>7. CASE n = Len(t)
  (* not the # any more *)
  <2>1. Head(s) = "#"
    BY <1>4, <1>7, PacketFacts
  <2>2. n + 3 \in Len(t) + 3 .. Len(t) + 5
    BY <1>2, <1>7
  <2>3. Clean(Tail(s), 1)
    BY <1>5, <2>2, CleanBehind
  <2>4. CASE ch = "$"
    <3>1. q.st = "body"
      BY <1>2, <2>4, ScanStart
    <3> QED BY <1>6, <2>3, <3>1 DEF Adrift, Verdicts
  <2>5. CASE ch # "$"
    <3>1. ch \in Letter
      BY <2>1, <2>5, Letters DEF Char
    <3>2. q.st = "body" \/ q.st = "hunt"
      BY <1>2, <3>1, ScanLetter
    <3> QED BY <1>6, <2>3, <3>2 DEF Adrift, Verdicts
  <2> QED BY <2>4, <2>5
<1>8. CASE n < Len(t)
  <2>1. n + 3 \in 3 .. Len(t) + 2 /\ (n + 3) - 2 = n + 1 /\ n + 1 \in 1 .. Len(t) /\ n \in 0 .. Len(t) - 1
        /\ n + 2 \in 2 .. Len(t) + 1 /\ (n + 2) - 1 = n + 1 /\ (n + 1) - 1 = n /\ n + 3 \in 3 .. Len(t) + 3
    BY <1>2, <1>8
  <2>2. CASE ch = "$"
    <3>1. q.st = "body" /\ q.checksum = 0
      BY <1>2, <2>2, ScanStart
    <3>2. SumUpTo(t)[(n + 3) - 2] # 0
      BY <2>1, <2>2 DEF TellsMarks
    <3>3. q.checksum # SumUpTo(t)[(n + 3) - 2]
      BY <3>1, <3>2
    <3>4. OffText(q, Tail(s), t)
      BY <1>5, <2>1, <3>1, <3>3 DEF OffText
    <3> QED BY <1>6, <3>1, <3>4 DEF OffIn, Verdicts
  <2>3. CASE ch = "#"
    <3>1. q.st = "hi" /\ q.checksum = r.checksum
      BY <1>2, <2>3, ScanEnd
    <3>2. Digits(t, n + 3) # SumUpTo(t)[n]
      BY <2>1, <2>3 DEF TellsMarks
    <3>3. q.checksum # Digits(t, n + 3)
      BY <1>2, <3>1, <3>2
    <3>4. OffHi(q, Tail(s), t)
      BY <1>5, <2>1, <3>1, <3>3 DEF OffHi
    <3> QED BY <1>6, <3>1, <3>4 DEF OffIn, Verdicts
  <2>4. CASE ch # "$" /\ ch # "#"
    <3> DEFINE a == Code[ch]
               b == Code[t[n + 1]]
               c == SumUpTo(t)[n]
    <3>1. ch \in Letter /\ t[n + 1] \in Letter /\ ch # t[n + 1]
      <4>1. Packet(t)[n + 2] = t[n + 1]
        BY <2>1, PacketFacts
      <4>2. t[n + 1] \in Letter
        BY <2>1, TextFacts
      <4> QED BY <1>4, <2>4, <4>1, <4>2, Letters DEF Char
    <3>2. a \in 0 .. Byte - 1 /\ b \in 0 .. Byte - 1 /\ c \in 0 .. Byte - 1 /\ a # b
      <4>1. n \in 0 .. Len(t)
        BY <1>2
      <4> QED BY <3>1, <4>1, Letters, SumSteps, TextFacts
    <3>3. SumUpTo(t)[n + 1] = (c + b) % Byte
      <4>1. SumUpTo(t)[n + 1] = (SumUpTo(t)[(n + 1) - 1] + Code[t[n + 1]]) % Byte
        BY <2>1, SumSteps, TextFacts
      <4> QED BY <2>1, <4>1
    <3>4. q.st = "body" \/ q.st = "hunt"
      BY <1>2, <3>1, ScanLetter
    <3>5. q.st = "body" => q.checksum = (c + a) % Byte
      BY <1>2, <3>1, ScanLetter
    <3> HIDE DEF a, b, c
    <3>6. c + a = a + c /\ c + b = b + c
      BY <3>2
    <3>7. (a + c) % Byte # (b + c) % Byte
      BY <3>2, StayApart
    <3>8. q.st = "body" => q.checksum # SumUpTo(t)[(n + 3) - 2]
      BY <2>1, <3>3, <3>5, <3>6, <3>7
    <3>9. q.st = "body" => OffText(q, Tail(s), t)
      BY <1>5, <2>1, <3>8 DEF OffText
    <3> QED BY <1>6, <3>4, <3>9 DEF OffIn, Verdicts
  <2> QED BY <2>2, <2>3, <2>4
<1> QED BY <1>2, <1>7, <1>8

(* and one that is missing there. *)
LEMMA MissedText ==
  ASSUME NEW t \in Texts, NEW r \in Receiver(Reading), NEW s \in Seq(Char), InText(r, s, t)
  PROVE  s # <<>> /\ (Adrift(r, Tail(s)) \/ OffIn(r, Tail(s), t))
<1>1. PICK n \in 0 .. Len(t) : Holds(r, t, n) /\ Fits(s, 1, t, n + 2)
  BY DEF InText
<1>2. r.st = "body" /\ Len(t) \in Nat /\ r.checksum = SumUpTo(t)[n]
  BY <1>1, TextFacts DEF InText, Holds
<1>3. n + 2 \in 1 .. Len(t) + 4
  BY <1>2
<1>4. s # <<>> /\ Fits(Tail(s), 1, t, (n + 2) + 1)
  BY <1>1, <1>3, FitsNext
<1>5. (n + 2) + 1 = n + 3 /\ Fits(Tail(s), 1, t, n + 3) /\ Tail(s) \in Seq(Char)
  BY <1>4, <1>2, Shorter
<1>6. CASE n = Len(t)
  <2>1. n + 3 \in Len(t) + 3 .. Len(t) + 5
    BY <1>2, <1>6
  <2>2. Clean(Tail(s), 1)
    BY <1>5, <2>1, CleanBehind
  <2> QED BY <1>2, <1>4, <2>2 DEF Adrift
<1>7. CASE n < Len(t)
  <2>1. n + 3 \in 3 .. Len(t) + 2 /\ (n + 3) - 2 = n + 1 /\ n + 1 \in 1 .. Len(t)
        /\ (n + 1) - 1 = n /\ n \in 0 .. Len(t)
    BY <1>2, <1>7
  <2> DEFINE a == Code[t[n + 1]]
             c == SumUpTo(t)[n]
  <2>2. a \in 0 .. Byte - 1 /\ a # 0 /\ c \in 0 .. Byte - 1 /\ 0 \in 0 .. Byte - 1
    <3>1. t[n + 1] \in Letter /\ t[n + 1] # NUL
      BY <2>1, TextFacts
    <3> QED BY <2>1, <3>1, Letters, SumSteps, TextFacts
  <2>3. SumUpTo(t)[n + 1] = (c + a) % Byte
    <3>1. SumUpTo(t)[n + 1] = (SumUpTo(t)[(n + 1) - 1] + Code[t[n + 1]]) % Byte
      BY <2>1, SumSteps, TextFacts
    <3> QED BY <2>1, <3>1
  <2> HIDE DEF a, c
  <2>4. c + a = a + c /\ 0 + c = c /\ c \in Nat /\ c < Byte
    BY <2>2, Letters
  <2>5. (a + c) % Byte # (0 + c) % Byte
    BY <2>2, StayApart
  <2>6. c % Byte = c
    BY <2>4, Letters, SmallMod
  <2>7. r.checksum # SumUpTo(t)[(n + 3) - 2]
    BY <1>2, <2>1, <2>3, <2>4, <2>5, <2>6 DEF c
  <2>8. OffText(r, Tail(s), t)
    BY <1>2, <1>5, <2>1, <2>7 DEF OffText
  <2> QED BY <1>4, <2>8 DEF OffIn
<1> QED BY <1>2, <1>6, <1>7

(* More behind what is under way changes none of this. *)
LEMMA StillSo ==
  ASSUME NEW s \in Seq(Char), NEW u \in Seq(Char), NEW w, IsJoin(w, s, u), Clean(u, 1),
         NEW t \in Texts, NEW r
  PROVE  /\ InText(r, s, t) => InText(r, w, t)
         /\ Adrift(r, s) => Adrift(r, w)
         /\ OffIn(r, s, t) => OffIn(r, w, t)
<1>1. Len(t) \in Nat /\ Len(s) \in Nat
  BY TextFacts DEF IsJoin
<1>2. ASSUME NEW k \in 1 .. Len(t) + 4, Fits(s, 1, t, k) PROVE Fits(w, 1, t, k)
  <2>1. 1 \in Nat /\ 1 > 0
    OBVIOUS
  <2> QED BY <1>2, <2>1, FitsJoin
<1>3. InText(r, s, t) => InText(r, w, t)
  <2>1. \A n \in 0 .. Len(t) : n + 2 \in 1 .. Len(t) + 4
    BY <1>1
  <2> QED BY <1>2, <2>1 DEF InText
<1>4. Adrift(r, s) => Adrift(r, w)
  <2>1. 1 \in 1 .. Len(s) + 1
    BY <1>1
  <2> QED BY <2>1, CleanJoin DEF Adrift
<1>5. OffText(r, s, t) => OffText(r, w, t)
  <2>1. \A k \in 3 .. Len(t) + 2 : k \in 1 .. Len(t) + 4
    BY <1>1
  <2> QED BY <1>2, <2>1 DEF OffText
<1>6. OffHi(r, s, t) => OffHi(r, w, t)
  <2>1. \A k \in 3 .. Len(t) + 3 : k \in 1 .. Len(t) + 4
    BY <1>1
  <2> QED BY <1>2, <2>1 DEF OffHi
<1>7. OffLo(r, s, t) => OffLo(r, w, t)
  <2>1. \A k \in 3 .. Len(t) + 3 : k + 1 \in 1 .. Len(t) + 4
    BY <1>1
  <2> QED BY <1>2, <2>1 DEF OffLo
<1> QED BY <1>3, <1>4, <1>5, <1>6, <1>7 DEF OffIn

-----------------------------------------------------------------------------
(* The session without early repetitions: one packet, one sign at a time *)

None(s)    == \A p \in 1 .. Len(s) : s[p] # "$"
Ends(s, t) == \A p \in 1 .. Len(s) : s[p] = "$" => p + Len(t) + 3 = Len(s)
First(s)   == \A p \in 1 .. Len(s) : s[p] = "$" => p = 1

(* Where the receiver is and how much is under way. *)
Exact(r, s, t) ==
  /\ r.st = "hunt" => Ends(s, t)
  /\ r.st = "body" => Len(s) + r.count = Len(t) + 3
  /\ r.st = "hi" => Len(s) = 2
  /\ r.st = "lo" => Len(s) = 1

(* The receiver and what is under way make at most one packet, of t. *)
Sole(r, s, t) == Line({t}, s) /\ InStep({t}, r, s) /\ Exact(r, s, t)

Astray(r, s, t) ==
  Line({t}, s) /\ ((OffIn(r, s, t) /\ None(s)) \/ (Adrift(r, s) /\ Ends(s, t)))

Command == Script[host.at]

(* The phases of an exchange; s is under way to the stub. *)
Listening(s) ==
  /\ host.st = "ack" /\ host.rx.st = "hunt" /\ toHost = <<>> /\ mode = "get"
  /\ Sole(rx, s, Command) \/ Astray(rx, s, Command)

Rejected(s) ==
  /\ host.st = "ack" /\ host.rx.st = "hunt" /\ toHost = <<"-">> /\ mode = "get"
  /\ rx.st = "hunt" /\ None(s) /\ Line({Command}, s)

Sending(s) ==
  /\ host.st = "ack" /\ host.rx.st = "hunt" /\ toHost = <<>> /\ mode = "put"
  /\ rx.st = "hunt" /\ s = <<"+">> \o Packet(Command)

Accepted(s) ==
  /\ host.st = "ack" /\ host.rx.st = "hunt" /\ toHost = <<"+">> \o Packet(out) /\ mode = "put"
  /\ rx.st = "hunt" /\ s = <<>>

Replying(s) ==
  /\ host.st = "reply" /\ mode = "put" /\ rx.st = "hunt"
  /\ \/ s = <<>> /\ Sole(host.rx, toHost, out)
     \/ s = <<"-">> /\ toHost = <<>> /\ host.rx.st = "hunt"

Idle(s) ==
  /\ host.st = "idle" /\ host.rx.st = "hunt" /\ toHost = <<>> /\ rx.st = "hunt"
  /\ (mode = "put" /\ s = <<"+">>) \/ (mode = "get" /\ s = <<>>)

(* A `:' that was left in the buffer is overwritten by the same command,    *)
(* before another one comes.                                                *)
Phase(s) ==
  \/ (Listening(s) \/ Rejected(s)) /\ (rx.buffer[2] = ":" => Len(Command) >= 2)
  \/ (Sending(s) \/ Accepted(s) \/ Replying(s) \/ Idle(s)) /\ rx.buffer[2] # ":"

(* Nothing was lost or damaged so far. *)
Neat(s) ==
  mode = "get" =>
    /\ toHost # <<>> => s = <<>>
    /\ First(s)
    /\ host.st = "ack" /\ toHost = <<>> => Sole(rx, s, Command)

-----------------------------------------------------------------------------
(* The invariant *)

HostType == [st : {"idle", "ack", "reply"}, at : 0 .. Len(Script), rx : Receiver(Reading)]

TypeInv ==
  /\ toStub \in Seq(Char) /\ toHost \in Seq(Char)
  /\ rx \in Receiver(Reading) /\ Room(rx) /\ mode \in {"get", "put"} /\ out \in Texts
  /\ host \in HostType /\ Room(host.rx) /\ (host.st # "idle" => host.at >= 1)
  /\ marked \in BOOLEAN /\ lost \in Nat /\ damaged \in Nat /\ hasty \in Nat
  /\ mode = "put" => rx.st = "hunt"

(* The stub and the host understand each other, s being under way. *)
Clear(s) ==
  /\ Line(Commands, s) /\ InStep(Commands, rx, s) /\ ~marked
  /\ hasty = 0 => Phase(s) /\ Neat(s)

(* The first character of s0 was damaged, and s is under way. *)
Struck(s, s0) ==
  /\ s0 \in Seq(Char) /\ s0 # <<>> /\ Len(s) = Len(s0) /\ s[1] \in Noise /\ s[1] # s0[1]
  /\ \A i \in 2 .. Len(s) : s[i] = s0[i]

Hit == \E s0 \in Seq(Char) : Struck(toStub, s0) /\ Clear(s0)

(* The stub took in what was damaged, or what came before and after what    *)
(* was lost.                                                                *)
Misled ==
  /\ Line(Commands, toStub) /\ Off(Commands, rx, toStub) /\ mode = "get"
  /\ hasty = 0 => Phase(toStub)

Recovered ==
  /\ Line(Commands, toStub) /\ InStep(Commands, rx, toStub)
  /\ marked /\ hasty = 0 => Phase(toStub)

ForgeryInv ==
  /\ Errors = 0 => Clear(toStub)
  /\ Errors = 1 => Hit \/ Misled \/ Recovered
  /\ Errors <= 1 /\ ~marked => rx.buffer[2] # ":"
  /\ Errors <= 1 /\ ~(marked /\ hasty > 0) => executed \in Seq(Commands)

-----------------------------------------------------------------------------
(* At most one packet *)

(* Of what is left there are no more packets. *)
LEMMA FewerStarts ==
  ASSUME NEW s \in Seq(Char), s # <<>>, NEW t \in Texts
  PROVE  /\ None(s) => None(Tail(s)) /\ Ends(s, t) /\ First(s)
         /\ First(s) => None(Tail(s))
         /\ Ends(s, t) => Ends(Tail(s), t)
<1>1. /\ Len(s) \in Nat /\ Len(Tail(s)) = Len(s) - 1 /\ Len(t) \in Nat
      /\ \A i \in 1 .. Len(s) - 1 : Tail(s)[i] = s[i + 1]
  BY Shorter, TextFacts
<1> DEFINE u == Tail(s)
<1> HIDE DEF u
<1>2. ASSUME NEW p \in 1 .. Len(u) PROVE p + 1 \in 1 .. Len(s) /\ u[p] = s[p + 1] /\ p + 1 # 1
  BY <1>1 DEF u
<1>3. None(s) => None(u)
  BY <1>2 DEF None
<1>4. None(s) => Ends(s, t) /\ First(s)
  BY DEF None, Ends, First
<1>5. First(s) => None(u)
  BY <1>2 DEF None, First
<1>6. ASSUME Ends(s, t), NEW p \in 1 .. Len(u), u[p] = "$" PROVE p + Len(t) + 3 = Len(u)
  <2>1. (p + 1) + Len(t) + 3 = Len(s)
    BY <1>2, <1>6 DEF Ends
  <2>2. Len(u) = Len(s) - 1
    BY <1>1 DEF u
  <2> DEFINE l == Len(t)
             m == Len(s)
             n == Len(u)
  <2>3. l \in Nat /\ m \in Nat /\ (p + 1) + l + 3 = m /\ n = m - 1 /\ p \in 1 .. n
    BY <1>1, <1>6, <2>1, <2>2, Zenon
  <2> HIDE DEF l, m, n
  <2>4. p + l + 3 = n
    BY <2>3
  <2> QED BY <2>4 DEF l, n
<1>7. Ends(s, t) => Ends(u, t)
  BY <1>6 DEF Ends
<1> QED BY <1>3, <1>4, <1>5, <1>7 DEF u

(* In the rest of a packet no other begins. *)
LEMMA NoStart ==
  ASSUME NEW s \in Seq(Char), NEW t \in Texts, NEW k \in 2 .. Len(t) + 4,
         Fits(s, 1, t, k), Len(s) <= Len(t) + 5 - k
  PROVE  None(s)
<1>1. Len(s) \in Nat /\ Len(t) \in Nat
  BY TextFacts
<1> SUFFICES ASSUME NEW p \in 1 .. Len(s) PROVE s[p] # "$"
  BY DEF None
<1> DEFINE j == p + k - 1
<1>2. j \in k .. Len(t) + 4 /\ j \in 2 .. Len(t) + 4 /\ 1 + j - k = p
  BY <1>1
<1>3. s[p] = Packet(t)[j]
  BY <1>2 DEF Fits, GoesOn
<1> QED BY <1>2, <1>3, PacketFacts

(* In the text of the only packet nothing else is under way. *)
LEMMA OnlyText ==
  ASSUME NEW t \in Texts, NEW r \in Receiver(Reading), NEW s \in Seq(Char),
         InText(r, s, t), Exact(r, s, t)
  PROVE  None(s) /\ s # <<>> /\ r.st = "body" /\ Len(s) + r.count = Len(t) + 3 /\ r.count \in Nat
<1>1. PICK n \in 0 .. Len(t) : Holds(r, t, n) /\ Fits(s, 1, t, n + 2)
  BY DEF InText
<1>2. r.st = "body" /\ r.count = n /\ Len(t) \in Nat /\ Len(s) \in Nat
  BY <1>1, TextFacts DEF InText, Holds
<1>3. Len(s) + n = Len(t) + 3
  BY <1>2 DEF Exact
<1>4. n + 2 \in 2 .. Len(t) + 4 /\ Len(s) <= Len(t) + 5 - (n + 2) /\ n + 2 \in 1 .. Len(t) + 4
  BY <1>2, <1>3
<1>5. None(s)
  BY <1>1, <1>4, NoStart
<1>6. s # <<>>
  BY <1>1, <1>4, FitsNext
<1> QED BY <1>2, <1>3, <1>5, <1>6

(* Where the receiver of the only packet may be. *)
LEMMA SoleCases ==
  ASSUME NEW t, NEW r, NEW s, Sole(r, s, t)
  PROVE  r.st = "hunt" \/ InText(r, s, t) \/ HasText(r, t)
BY DEF Sole, InStep

(* A character is read, *)
LEMMA SoleReads ==
  ASSUME NEW t \in Texts, NEW r \in Receiver(Reading), Room(r), NEW s \in Seq(Char), s # <<>>,
         Sole(r, s, t), NEW q, q = Scan(r, Head(s))
  PROVE  /\ q.st \in Verdicts => HasText(r, t) /\ Tail(s) = <<>>
         /\ q.st \notin Verdicts => Sole(q, Tail(s), t)
         /\ q.buffer[2] = ":" => r.buffer[2] = ":"
<1>1. /\ Len(s) \in Nat /\ Len(s) > 0 /\ Len(Tail(s)) = Len(s) - 1 /\ Len(t) \in Nat
      /\ Tail(s) \in Seq(Char) /\ Head(s) = s[1] /\ {t} \subseteq Texts
  BY Shorter, TextFacts
<1>2. Line({t}, s) /\ InStep({t}, r, s) /\ Exact(r, s, t)
  BY DEF Sole
<1>3. Line({t}, Tail(s))
  BY <1>1, <1>2, LineTail
<1>4. /\ q.st \in Verdicts => HasText(r, t)
      /\ q.st \notin Verdicts => InStep({t}, q, Tail(s))
      /\ q.buffer[2] = ":" => r.buffer[2] = ":"
  <2>1. q.st \in Verdicts => \E x \in {t} : HasText(r, x)
    BY <1>1, <1>2, InStepReads
  <2>2. q.st \notin Verdicts => InStep({t}, q, Tail(s))
    BY <1>1, <1>2, InStepReads
  <2>3. q.buffer[2] = ":" => r.buffer[2] = ":"
    BY <1>1, <1>2, InStepReads
  <2> QED BY <2>1, <2>2, <2>3
<1>5. CASE r.st = "hunt" /\ Head(s) # "$"
  <2>1. q = r
    BY <1>5, ScanHunt
  <2>2. Ends(Tail(s), t)
    BY <1>2, <1>5, FewerStarts DEF Exact
  <2>3. Exact(q, Tail(s), t)
    BY <1>5, <2>1, <2>2 DEF Exact
  <2> QED BY <1>3, <1>4, <1>5, <2>1, <2>3 DEF Sole, Verdicts
<1>6. CASE r.st = "hunt" /\ Head(s) = "$"
  <2>1. q.st = "body" /\ q.count = 0
    BY <1>6, ScanStart
  <2>2. 1 + Len(t) + 3 = Len(s)
    <3>1. Ends(s, t) /\ s[1] = "$"
      BY <1>1, <1>2, <1>6 DEF Exact
    <3>2. 1 \in 1 .. Len(s)
      BY <1>1
    <3> QED BY <3>1, <3>2 DEF Ends
  <2>3. Exact(q, Tail(s), t)
    BY <1>1, <2>1, <2>2 DEF Exact
  <2> QED BY <1>3, <1>4, <2>1, <2>3 DEF Sole, Verdicts
<1>7. CASE InText(r, s, t)
  <2>1. None(s) /\ Len(s) + r.count = Len(t) + 3 /\ r.count \in Nat
    BY <1>2, <1>7, OnlyText
  <2>2. None(Tail(s))
    BY <2>1, FewerStarts
  <2>3. Ends(Tail(s), t)
    BY <2>2 DEF None, Ends
  <2>4. \/ q.st = "body" /\ q.count = r.count + 1
        \/ q.st = "hunt"
        \/ q.st = "hi" /\ r.count = Len(t)
    BY <1>7, InTextReads
  <2>5. Exact(q, Tail(s), t)
    BY <1>1, <2>1, <2>3, <2>4 DEF Exact
  <2> QED BY <1>3, <1>4, <2>4, <2>5 DEF Sole, Verdicts
<1>8. CASE HasText(r, t)
  <2>1. CASE r.st = "hi"
    <3>1. q.st = "lo" /\ Len(s) = 2
      BY <1>2, <2>1, ScanHi DEF Exact
    <3>2. Exact(q, Tail(s), t)
      BY <1>1, <3>1 DEF Exact
    <3> QED BY <1>3, <1>4, <3>1, <3>2 DEF Sole, Verdicts
  <2>2. CASE r.st = "lo"
    <3>1. q.st \in Verdicts /\ Len(s) = 1
      BY <1>2, <2>2, ScanLo DEF Exact
    <3>2. Tail(s) = <<>>
      <4>1. Len(Tail(s)) = 0
        BY <1>1, <3>1
      <4> QED BY <1>1, <4>1, EmptySeq
    <3> QED BY <1>4, <3>1, <3>2
  <2> QED BY <1>8, <2>1, <2>2 DEF HasText
<1> QED BY <1>5, <1>6, <1>7, <1>8, SoleCases

(* also when the receiver is off, *)
LEMMA AstrayReads ==
  ASSUME NEW t \in Texts, NEW r \in Receiver(Reading), Room(r), NEW s \in Seq(Char), s # <<>>,
         Astray(r, s, t), NEW q, q = Scan(r, Head(s))
  PROVE  /\ q.st # "good"
         /\ q.st = "bad" => None(Tail(s)) /\ Line({t}, Tail(s))
         /\ q.st \notin Verdicts => Sole(q, Tail(s), t) \/ Astray(q, Tail(s), t)
         /\ q.buffer[2] = ":" => r.buffer[2] = ":" \/ Len(t) >= 2
<1>1. /\ Len(s) \in Nat /\ Len(s) > 0 /\ Len(Tail(s)) = Len(s) - 1 /\ Len(t) \in Nat
      /\ Tail(s) \in Seq(Char) /\ Head(s) = s[1] /\ {t} \subseteq Texts
  BY Shorter, TextFacts
<1>2. Line({t}, s)
  BY DEF Astray
<1>3. Line({t}, Tail(s))
  BY <1>1, <1>2, LineTail
<1>4. ASSUME q.st = "hunt", Ends(Tail(s), t) PROVE Sole(q, Tail(s), t)
  BY <1>3, <1>4 DEF Sole, InStep, Exact
<1>5. CASE OffIn(r, s, t) /\ None(s)
  <2>1. /\ q.st = "bad" \/ q.st = "hunt" \/ (q.st \notin Verdicts /\ OffIn(q, Tail(s), t))
        /\ q.buffer[2] = ":" => r.buffer[2] = ":" \/ Len(t) >= 2
    BY <1>5, OffInReads
  <2>2. None(Tail(s))
    BY <1>5, FewerStarts
  <2>3. Ends(Tail(s), t)
    BY <2>2 DEF None, Ends
  <2> QED BY <1>3, <1>4, <2>1, <2>2, <2>3 DEF Astray, Verdicts
<1>6. CASE Adrift(r, s) /\ Ends(s, t) /\ Head(s) # "$"
  <2>1. /\ q.st = "hunt" \/ Adrift(q, Tail(s))
        /\ q.st \notin Verdicts
        /\ q.buffer[2] = ":" => r.buffer[2] = ":"
    BY <1>6, AdriftReads
  <2>2. Ends(Tail(s), t)
    BY <1>6, FewerStarts
  <2> QED BY <1>3, <1>4, <2>1, <2>2 DEF Astray, Verdicts
<1>7. CASE Adrift(r, s) /\ Ends(s, t) /\ Head(s) = "$"
  <2>1. r.st \in {"hunt", "body"} /\ q = Scan(r, "$")
    BY <1>7 DEF Adrift
  <2>2. q.st = "body" /\ q.count = 0 /\ q.buffer = r.buffer
    BY <2>1, ScanStart
  <2>3. \E x \in {t} : InText(q, Tail(s), x)
    BY <1>1, <1>2, <1>7, <2>1, StartReads
  <2>4. InStep({t}, q, Tail(s))
    BY <2>3 DEF InStep
  <2>5. 1 + Len(t) + 3 = Len(s)
    <3>1. 1 \in 1 .. Len(s) /\ s[1] = "$"
      BY <1>1, <1>7
    <3> QED BY <1>7, <3>1 DEF Ends
  <2>6. Exact(q, Tail(s), t)
    BY <1>1, <2>2, <2>5 DEF Exact
  <2> QED BY <1>3, <2>2, <2>4, <2>6 DEF Sole, Verdicts
<1> QED BY <1>5, <1>6, <1>7 DEF Astray

(* or lost, or was damaged. *)
LEMMA SoleMisses ==
  ASSUME NEW t \in Texts, NEW r \in Receiver(Reading), NEW s \in Seq(Char),
         Sole(r, s, t), InText(r, s, t)
  PROVE  Astray(r, Tail(s), t)
<1>1. None(s) /\ s # <<>> /\ {t} \subseteq Texts
  BY OnlyText DEF Sole
<1>2. None(Tail(s))
  BY <1>1, FewerStarts
<1>3. Ends(Tail(s), t)
  BY <1>2 DEF None, Ends
<1>4. Line({t}, Tail(s))
  BY <1>1, LineTail DEF Sole
<1> QED BY <1>2, <1>3, <1>4, MissedText DEF Astray

(* in the text, *)
LEMMA SoleStruck ==
  ASSUME NEW t \in Texts, TellsMarks(t), NEW r \in Receiver(Reading), Room(r), NEW s \in Seq(Char),
         Sole(r, s, t), InText(r, s, t), NEW ch \in Noise, ch # Head(s), NEW q, q = Scan(r, ch)
  PROVE  /\ q.st \notin Verdicts /\ (Sole(q, Tail(s), t) \/ Astray(q, Tail(s), t))
         /\ q.buffer[2] = ":" => r.buffer[2] = ":" \/ Len(t) >= 2
<1>1. None(s) /\ s # <<>> /\ {t} \subseteq Texts
  BY OnlyText DEF Sole
<1>2. None(Tail(s))
  BY <1>1, FewerStarts
<1>3. Ends(Tail(s), t)
  BY <1>2 DEF None, Ends
<1>4. Line({t}, Tail(s))
  BY <1>1, LineTail DEF Sole
<1>5. q.st = "hunt" => Sole(q, Tail(s), t)
  BY <1>3, <1>4 DEF Sole, InStep, Exact
<1>6. /\ q.st = "hunt" \/ Adrift(q, Tail(s)) \/ OffIn(q, Tail(s), t)
      /\ q.st \notin Verdicts
      /\ q.buffer[2] = ":" => r.buffer[2] = ":" \/ Len(t) >= 2
  BY StruckText
<1> QED BY <1>2, <1>3, <1>4, <1>5, <1>6 DEF Astray

(* or as the start of a packet. *)
LEMMA SoleStarted ==
  ASSUME NEW t \in Texts, TellsMarks(t), NEW r \in Receiver(Reading), r.st = "hunt", "$" \in Noise,
         NEW s \in Seq(Char), s # <<>>, Line({t}, s), First(s), Head(s) # "$", NEW q, q = Scan(r, "$")
  PROVE  Astray(q, Tail(s), t) /\ q.st \notin Verdicts
<1>1. Telling({t}) /\ {t} \subseteq Texts
  BY DEF Telling
<1>2. None(Tail(s)) /\ Line({t}, Tail(s))
  BY <1>1, FewerStarts, LineTail
<1>3. Ends(Tail(s), t)
  BY <1>2 DEF None, Ends
<1>4. Adrift(q, Tail(s)) \/ \E x \in {t} : OffIn(q, Tail(s), x)
  BY <1>1, StruckHunt
<1>5. q.st = "body"
  BY ScanStart
<1> QED BY <1>2, <1>3, <1>4, <1>5 DEF Astray, Verdicts

(* A packet is sent. *)
LEMMA PacketEnds ==
  ASSUME NEW t \in Texts, NEW s \in Seq(Char), None(s)
  PROVE  Ends(s \o Packet(t), t) /\ (s = <<>> => First(s \o Packet(t)))
<1> DEFINE u == Packet(t)
           w == s \o u
<1>1. u \in Seq(Char) /\ Len(u) = Len(t) + 4 /\ Len(t) \in Nat /\ \A k \in 2 .. Len(t) + 4 : u[k] # "$"
  BY PacketFacts, TextFacts
<1> HIDE DEF u
<1>2. IsJoin(w, s, u)
  BY <1>1, Joined
<1> HIDE DEF w
<1>3. ASSUME NEW p \in 1 .. Len(w), w[p] = "$" PROVE p = Len(s) + 1
  <2>1. Len(w) = Len(s) + Len(u) /\ Len(s) \in Nat /\ Len(u) \in Nat
    BY <1>2 DEF IsJoin
  <2>2. CASE p <= Len(s)
    <3>1. p \in 1 .. Len(s)
      BY <2>1, <2>2
    <3>2. w[p] = s[p]
      BY <1>2, <3>1 DEF IsJoin
    <3> QED BY <1>3, <3>1, <3>2 DEF None
  <2>3. CASE p > Len(s)
    <3>1. p \in Len(s) + 1 .. Len(s) + Len(u) /\ p - Len(s) \in 1 .. Len(t) + 4
      BY <1>1, <2>1, <2>3
    <3>2. w[p] = u[p - Len(s)]
      BY <1>2, <3>1 DEF IsJoin
    <3>3. p - Len(s) \notin 2 .. Len(t) + 4
      BY <1>1, <1>3, <3>2
    <3> QED BY <1>1, <2>1, <3>1, <3>3
  <2> QED BY <2>1, <2>2, <2>3
<1>4. Len(w) = Len(s) + Len(t) + 4 /\ Len(s) \in Nat
  BY <1>1, <1>2 DEF IsJoin
<1>5. Ends(w, t)
  BY <1>1, <1>3, <1>4 DEF Ends
<1>6. s = <<>> => First(w)
  BY <1>3 DEF First
<1> QED BY <1>5, <1>6 DEF w, u

(* It is the only one, *)
LEMMA SoleSent ==
  ASSUME NEW t \in Texts, NEW r, r.st = "hunt", NEW s \in Seq(Char), None(s), Line({t}, s)
  PROVE  Sole(r, s \o Packet(t), t) /\ (s = <<>> => First(s \o Packet(t)))
<1>1. {t} \subseteq Texts /\ Message({t}, Packet(t))
  BY PacketIsMessage
<1>2. Line({t}, s \o Packet(t))
  BY <1>1, LineGrows
<1>3. Ends(s \o Packet(t), t) /\ (s = <<>> => First(s \o Packet(t)))
  BY PacketEnds
<1> QED BY <1>2, <1>3 DEF Sole, InStep, Exact

(* also if nothing else is under way. *)
LEMMA SolePacket ==
  ASSUME NEW t \in Texts, NEW r, r.st = "hunt"
  PROVE  Sole(r, Packet(t), t) /\ First(Packet(t))
<1>1. <<>> \in Seq(Char) /\ None(<<>>) /\ Line({t}, <<>>)
  BY LineEmpty DEF None
<1>2. <<>> \o Packet(t) = Packet(t)
  BY PacketFacts
<1> QED BY <1>1, <1>2, SoleSent

(* Nothing is under way, and a packet is sent again. *)
LEMMA SentAgain ==
  ASSUME NEW t \in Texts, NEW r \in Receiver(Reading), Room(r), Sole(r, <<>>, t) \/ Astray(r, <<>>, t)
  PROVE  Sole(r, Packet(t), t) \/ Astray(r, Packet(t), t)
<1>1. <<>> \in Seq(Char) /\ None(<<>>) /\ Line({t}, <<>>) /\ <<>> \o Packet(t) = Packet(t)
  BY LineEmpty, PacketFacts DEF None
<1>2. CASE r.st = "hunt"
  BY <1>2, SolePacket
<1>3. ~InText(r, <<>>, t)
  BY <1>1, MissedText
<1>4. ~OffIn(r, <<>>, t)
  BY <1>1, OffInReads
<1>5. ~(HasText(r, t) /\ Exact(r, <<>>, t))
  BY DEF HasText, Exact
<1>6. CASE Adrift(r, <<>>)
  <2>1. Message({t}, Packet(t))
    BY PacketIsMessage
  <2>2. Line({t}, Packet(t)) /\ Clean(Packet(t), 1)
    BY <2>1 DEF Message, Line
  <2>3. Ends(Packet(t), t)
    BY <1>1, PacketEnds
  <2> QED BY <1>6, <2>2, <2>3 DEF Astray, Adrift
<1> QED BY <1>2, <1>3, <1>4, <1>5, <1>6 DEF Sole, InStep, Astray

-----------------------------------------------------------------------------
(* Types *)

(* Commands are texts that tell marks. *)
LEMMA CommandFacts ==
  /\ Telling(Commands) /\ Commands \subseteq Texts
  /\ \A i \in 1 .. Len(Script) : Script[i] \in Commands /\ Script[i] \in Texts /\ TellsMarks(Script[i])
<1>1. Script \in Seq(Texts) /\ DOMAIN Script = 1 .. Len(Script)
  BY LinkAssumption DEF LinkAssumption
<1>2. \A i \in 1 .. Len(Script) : Script[i] \in Texts /\ TellsMarks(Script[i])
  BY <1>1, NoiseAssumption DEF NoiseAssumption
<1> QED BY <1>1, <1>2 DEF Commands, Telling

(* Replies are texts. *)
LEMMA ReplyFacts ==
  ASSUME NEW x
  PROVE  Reply(x) \in Texts /\ Packet(Reply(x)) \in Seq(Char)
<1>1. <<>> \in Texts
  BY DEF Texts
<1>2. x \in DOMAIN Answer => Answer[x] \in Texts
  BY LinkAssumption DEF LinkAssumption
<1>3. Reply(x) \in Texts
  BY <1>1, <1>2 DEF Reply
<1> QED BY <1>3, PacketFacts

(* What the host is at. *)
LEMMA HostFacts ==
  ASSUME TypeInv
  PROVE  /\ host.st \in {"idle", "ack", "reply"} /\ host.at \in 0 .. Len(Script) /\ host.at \in Nat
         /\ host.rx \in Receiver(Reading) /\ Room(host.rx) /\ Len(Script) \in Nat
         /\ host.st # "idle" => host.at \in 1 .. Len(Script) /\ Command \in Commands
                                /\ Command \in Texts /\ TellsMarks(Command)
<1>1. host \in HostType /\ Room(host.rx) /\ (host.st # "idle" => host.at >= 1)
  BY DEF TypeInv
<1>2. Len(Script) \in Nat
  BY LinkAssumption DEF LinkAssumption
<1>3. host.st \in {"idle", "ack", "reply"} /\ host.at \in 0 .. Len(Script) /\ host.rx \in Receiver(Reading)
  BY <1>1 DEF HostType
<1>4. host.at \in Nat
  BY <1>2, <1>3
<1>5. host.st # "idle" => host.at \in 1 .. Len(Script)
  BY <1>1, <1>2, <1>3
<1> QED BY <1>1, <1>2, <1>3, <1>4, <1>5, CommandFacts DEF Command

(* The host takes up a state and forgets what it was reading, *)
LEMMA HostIsFacts ==
  ASSUME TypeInv, NEW st \in {"idle", "ack", "reply"}, HostIs(st), host.st # "idle"
  PROVE  /\ host' \in HostType /\ Room(host'.rx) /\ host'.st = st /\ host'.at = host.at
         /\ host'.rx = Empty /\ host'.rx.st = "hunt" /\ host'.at >= 1
<1>1. host \in HostType /\ host.at >= 1
  BY DEF TypeInv
<1>2. Empty \in Receiver(Reading) /\ Room(Empty) /\ Empty.st = "hunt"
  BY EmptyReceiver
<1>3. host' = [st |-> st, at |-> host.at, rx |-> Empty]
  BY <1>1 DEF HostIs, HostType
<1>4. host'.st = st /\ host'.at = host.at /\ host'.rx = Empty
  BY <1>3
<1>5. host' \in HostType
  BY <1>1, <1>2, <1>3 DEF HostType
<1> QED BY <1>1, <1>2, <1>4, <1>5

(* or goes on reading. *)
LEMMA HostReads ==
  ASSUME TypeInv, NEW r \in Receiver(Reading), Room(r), host' = [host EXCEPT !.rx = r]
  PROVE  /\ host' \in HostType /\ Room(host'.rx) /\ host'.st = host.st /\ host'.at = host.at
         /\ host'.rx = r
<1>1. host \in HostType
  BY DEF TypeInv
<1>2. host' = [st |-> host.st, at |-> host.at, rx |-> r]
  BY <1>1 DEF HostType
<1>3. host'.st = host.st /\ host'.at = host.at /\ host'.rx = r
  BY <1>2
<1>4. host' \in HostType
  BY <1>1, <1>2 DEF HostType
<1> QED BY <1>3, <1>4

(* The three ways a character is read in getpacket. *)
GetGood(q) ==
  /\ q.st = "good" /\ rx.st = "lo" /\ rx'.st = "hunt" /\ rx'.buffer = rx.buffer /\ q.buffer = rx.buffer
  /\ executed' = Append(executed, Text(q)) /\ out' = Reply(Text(q)) /\ mode' = "put"
  /\ toHost' = toHost \o Acknowledge(q) \o Packet(out')

GetBad(q) ==
  /\ q.st = "bad" /\ rx.st = "lo" /\ rx'.st = "hunt" /\ rx'.buffer = rx.buffer /\ q.buffer = rx.buffer
  /\ toHost' = Append(toHost, "-") /\ UNCHANGED <<executed, out, mode>>

GetMore(q) ==
  q.st \notin Verdicts /\ rx' = q /\ UNCHANGED <<executed, out, mode, toHost>>

(* A character is read in one of them. *)
LEMMA GetPacketCases ==
  ASSUME TypeInv, GetPacket, NEW q, q = Scan(rx, Head(toStub))
  PROVE  /\ mode = "get" /\ toStub # <<>> /\ toStub' = Tail(toStub) /\ Head(toStub) \in Char
         /\ Tail(toStub) \in Seq(Char)
         /\ marked' = (marked \/ q.buffer[2] = ":")
         /\ host' = host /\ lost' = lost /\ damaged' = damaged /\ hasty' = hasty
         /\ GetGood(q) \/ GetBad(q) \/ GetMore(q)
         /\ rx' \in Receiver(Reading) /\ Room(rx') /\ rx'.buffer = q.buffer
<1>1. /\ mode = "get" /\ toStub # <<>> /\ toStub' = Tail(toStub)
      /\ marked' = (marked \/ q.buffer[2] = ":")
      /\ host' = host /\ lost' = lost /\ damaged' = damaged /\ hasty' = hasty
  BY DEF GetPacket, HasSequence, faults
<1>2. toStub \in Seq(Char) /\ rx \in Receiver(Reading) /\ Room(rx)
  BY DEF TypeInv
<1>3. Head(toStub) \in Char /\ Tail(toStub) \in Seq(Char)
  BY <1>1, <1>2, Shorter
<1>4. /\ q.st \in Verdicts => rx.st = "lo"
      /\ q.st \notin Verdicts => q \in Receiver(Reading) /\ Room(q)
  BY <1>2, <1>3, ScanTypes
<1>5. rx.st = "lo" => /\ q.buffer = rx.buffer /\ [q EXCEPT !.st = "hunt"] \in Receiver(Reading)
                      /\ Room([q EXCEPT !.st = "hunt"])
                      /\ [q EXCEPT !.st = "hunt"].st = "hunt" /\ [q EXCEPT !.st = "hunt"].buffer = rx.buffer
  BY <1>2, ScanLo
<1>6. CASE q.st = "good"
  <2>1. /\ rx' = [q EXCEPT !.st = "hunt"] /\ executed' = Append(executed, Text(q))
        /\ out' = Reply(Text(q)) /\ toHost' = toHost \o Acknowledge(q) \o Packet(out') /\ mode' = "put"
    BY <1>6 DEF GetPacket
  <2>2. rx.st = "lo"
    BY <1>4, <1>6 DEF Verdicts
  <2> QED BY <1>1, <1>3, <1>5, <1>6, <2>1, <2>2 DEF GetGood
<1>7. CASE q.st = "bad"
  <2>1. /\ rx' = [q EXCEPT !.st = "hunt"] /\ toHost' = Append(toHost, "-") /\ UNCHANGED <<executed, out, mode>>
    BY <1>7 DEF GetPacket
  <2>2. rx.st = "lo"
    BY <1>4, <1>7 DEF Verdicts
  <2> QED BY <1>1, <1>3, <1>5, <1>7, <2>1, <2>2 DEF GetBad
<1>8. CASE q.st \notin Verdicts
  <2>1. rx' = q /\ UNCHANGED <<executed, out, mode, toHost>>
    BY <1>8 DEF GetPacket, Verdicts
  <2> QED BY <1>1, <1>3, <1>4, <1>8, <2>1 DEF GetMore
<1> QED BY <1>6, <1>7, <1>8 DEF Verdicts

(* What the host sends when it does not give up waiting. *)
HostSends(u) ==
  /\ Message(Commands, u) /\ toStub' = toStub \o u
  /\ UNCHANGED <<rx, mode, out, executed, marked, lost, damaged>>

(* Sending nothing. *)
LEMMA NoMessage ==
  ASSUME NEW T
  PROVE  Message(T, <<>>) /\ \A s \in Seq(Char) : s \o <<>> = s
BY DEF Message, Whole, Clean

(* Sending a sign. *)
LEMMA AppendMessage ==
  ASSUME NEW s \in Seq(Char), NEW ch \in {"+", "-"}
  PROVE  Append(s, ch) = s \o <<ch>> /\ Append(s, ch) \in Seq(Char)
<1>1. ch \in Char
  BY Letters DEF Char
<1> QED BY <1>1

(* The types hold at the start, and in the steps of the stub. *)
LEMMA TypesAtStart == Init => TypeInv
<1> SUFFICES ASSUME Init PROVE TypeInv
  OBVIOUS
<1>1. Empty \in Receiver(Reading) /\ Room(Empty) /\ Empty.st = "hunt"
  BY EmptyReceiver
<1>2. Len(Script) \in Nat
  BY LinkAssumption DEF LinkAssumption
<1>3. 0 \in 0 .. Len(Script)
  BY <1>2
<1>4. host = [st |-> "idle", at |-> 0, rx |-> Empty]
  BY DEF Init
<1>5. host \in HostType /\ host.rx = Empty /\ host.st = "idle"
  BY <1>1, <1>3, <1>4 DEF HostType
<1>6. out \in Texts
  BY DEF Init, Texts
<1>7. toStub \in Seq(Char) /\ toHost \in Seq(Char)
  BY DEF Init
<1>8. rx = Empty /\ mode = "get" /\ marked = FALSE /\ lost = 0 /\ damaged = 0 /\ hasty = 0
  BY DEF Init
<1> QED BY <1>1, <1>5, <1>6, <1>7, <1>8 DEF TypeInv

(* In getpacket, *)
LEMMA TypesInGet == TypeInv /\ GetPacket => TypeInv'
<1> SUFFICES ASSUME TypeInv, GetPacket PROVE TypeInv'
  OBVIOUS
<1> DEFINE q == Scan(rx, Head(toStub))
<1>1. /\ toStub' \in Seq(Char) /\ marked' \in BOOLEAN /\ host' = host /\ mode = "get"
      /\ lost' = lost /\ damaged' = damaged /\ hasty' = hasty
      /\ GetGood(q) \/ GetBad(q) \/ GetMore(q)
      /\ rx' \in Receiver(Reading) /\ Room(rx') /\ rx'.buffer = q.buffer
  BY GetPacketCases DEF TypeInv
<1> HIDE DEF q
<1>2. toHost \in Seq(Char) /\ out \in Texts
  BY DEF TypeInv
<1>3. CASE GetGood(q)
  <2>1. out' \in Texts /\ Packet(out') \in Seq(Char) /\ mode' = "put" /\ rx'.st = "hunt"
    BY <1>3, ReplyFacts DEF GetGood
  <2>2. Acknowledge(q) \in Seq(Char)
    <3>1. q.buffer \in [0 .. BUFMAX - 1 -> Letter] /\ 0 \in 0 .. BUFMAX - 1 /\ 1 \in 0 .. BUFMAX - 1
      BY <1>1, Letters DEF Receiver
    <3>2. q.buffer[0] \in Char /\ q.buffer[1] \in Char /\ "+" \in Char
      BY <3>1, Letters DEF Char
    <3> QED BY <3>2 DEF Acknowledge
  <2>3. toHost' \in Seq(Char)
    <3>1. toHost' = toHost \o Acknowledge(q) \o Packet(out')
      BY <1>3 DEF GetGood
    <3> QED BY <1>2, <2>1, <2>2, <3>1
  <2> QED BY <1>1, <2>1, <2>3 DEF TypeInv
<1>4. CASE GetBad(q)
  <2>1. toHost' \in Seq(Char)
    BY <1>2, <1>4, AppendMessage DEF GetBad
  <2> QED BY <1>1, <1>4, <2>1 DEF TypeInv, GetBad
<1>5. CASE GetMore(q)
  BY <1>1, <1>5 DEF TypeInv, GetMore
<1> QED BY <1>1, <1>3, <1>4, <1>5

(* and in putpacket. *)
LEMMA TypesInPut == TypeInv /\ PutPacket => TypeInv'
<1> SUFFICES ASSUME TypeInv, PutPacket PROVE TypeInv'
  OBVIOUS
<1>1. /\ toStub # <<>> /\ toStub' = Tail(toStub) /\ rx.st = "hunt"
      /\ UNCHANGED <<rx, out, host, marked, lost, damaged, hasty>>
      /\ (mode' = "get" /\ toHost' = toHost) \/ (toHost' = toHost \o Packet(out) /\ mode' = mode)
  BY DEF PutPacket, faults, TypeInv
<1>2. toStub \in Seq(Char) /\ toHost \in Seq(Char) /\ Packet(out) \in Seq(Char)
  BY PacketFacts DEF TypeInv
<1>3. toStub' \in Seq(Char)
  BY <1>1, <1>2, Shorter
<1>4. toHost \o Packet(out) \in Seq(Char)
  BY <1>2
<1>5. toHost' \in Seq(Char)
  BY <1>1, <1>2, <1>4
<1>6. mode' \in {"get", "put"}
  BY <1>1 DEF TypeInv
<1> QED BY <1>1, <1>3, <1>5, <1>6 DEF TypeInv

(* The host's steps: what it sends, and the types. *)
LEMMA TypesInSend ==
  ASSUME TypeInv, SendCommand
  PROVE  /\ host.st = "idle" /\ host.at + 1 \in 1 .. Len(Script)
         /\ host'.st = "ack" /\ host'.at = host.at + 1 /\ host'.rx = host.rx
         /\ HostSends(Packet(Script[host.at + 1])) /\ toHost' = toHost /\ hasty' = hasty
         /\ TypeInv'
<1>1. /\ host.st = "idle" /\ host.at < Len(Script) /\ host' = [host EXCEPT !.st = "ack", !.at = @ + 1]
      /\ toStub' = toStub \o Packet(Script[host.at + 1])
      /\ UNCHANGED <<toHost, rx, mode, out, executed, marked, answers, lost, damaged, hasty>>
  BY DEF SendCommand, faults
<1>2. host \in HostType /\ host.at \in Nat /\ Len(Script) \in Nat /\ Room(host.rx)
  BY HostFacts DEF TypeInv
<1>3. host.at + 1 \in 1 .. Len(Script) /\ host.at + 1 >= 1 /\ host.at + 1 \in 0 .. Len(Script)
  BY <1>1, <1>2
<1>4. host' = [st |-> "ack", at |-> host.at + 1, rx |-> host.rx]
  BY <1>1, <1>2 DEF HostType
<1>5. host'.st = "ack" /\ host'.at = host.at + 1 /\ host'.rx = host.rx
  BY <1>4
<1>6. host' \in HostType
  BY <1>2, <1>3, <1>4 DEF HostType
<1> DEFINE u == Packet(Script[host.at + 1])
<1>7. Message(Commands, u)
  BY <1>3, CommandFacts, PacketIsMessage
<1> HIDE DEF u
<1>8. toStub' \in Seq(Char)
  <2>1. toStub \in Seq(Char) /\ u \in Seq(Char) /\ toStub' = toStub \o u
    BY <1>1, <1>7 DEF Message, TypeInv, u
  <2> QED BY <2>1
<1>9. HostSends(u)
  BY <1>1, <1>7 DEF HostSends, u
<1>10. TypeInv'
  BY <1>1, <1>2, <1>3, <1>5, <1>6, <1>8 DEF TypeInv
<1> QED BY <1>1, <1>3, <1>5, <1>9, <1>10 DEF u

(* A host that reads: how it goes on, and what it sends. *)
LEMMA TypesInReading ==
  ASSUME TypeInv, NEW u, HostSends(u), toHost # <<>>, toHost' = Tail(toHost), hasty' = hasty,
         host' \in HostType, Room(host'.rx), host'.st # "idle" => host'.at >= 1
  PROVE  TypeInv'
<1>1. toStub \in Seq(Char) /\ toHost \in Seq(Char) /\ u \in Seq(Char) /\ toStub' = toStub \o u
  BY DEF TypeInv, HostSends, Message
<1>2. toStub' \in Seq(Char)
  BY <1>1
<1>3. toHost' \in Seq(Char)
  BY <1>1, Shorter
<1> QED BY <1>2, <1>3 DEF TypeInv, HostSends

(* Waiting for a +. *)
AckYes(u)  == host.rx.st = "hunt" /\ Head(toHost) = "+" /\ HostIs("reply") /\ u = <<>>
AckNo(u)   == host.rx.st = "hunt" /\ Head(toHost) = "-" /\ HostIs("ack") /\ u = Packet(Command)
AckElse(u) == /\ ~(host.rx.st = "hunt" /\ Head(toHost) \in {"+", "-"})
              /\ \/ HostIs("ack") /\ u = <<"+">>
                 \/ u = <<>> /\ Scan(host.rx, Head(toHost)).st \notin Verdicts
                             /\ host' = [host EXCEPT !.rx = Scan(host.rx, Head(toHost))]

(* A host that waits for a + reads in one of these ways, *)
LEMMA AwaitAckCases ==
  ASSUME TypeInv, AwaitAck
  PROVE  /\ host.st = "ack" /\ toHost # <<>> /\ toHost' = Tail(toHost) /\ hasty' = hasty
         /\ \E u : HostSends(u) /\ (AckYes(u) \/ AckNo(u) \/ AckElse(u))
         /\ TypeInv'
<1> DEFINE ch == Head(toHost)
           r  == Scan(host.rx, ch)
<1>1. /\ host.st = "ack" /\ toHost # <<>> /\ toHost' = Tail(toHost)
      /\ UNCHANGED <<rx, mode, out, executed, marked, answers, lost, damaged, hasty>>
  BY DEF AwaitAck, faults
<1>2. toStub \in Seq(Char) /\ toHost \in Seq(Char)
  BY DEF TypeInv
<1>3. /\ host.rx \in Receiver(Reading) /\ Room(host.rx) /\ host.at >= 1 /\ ch \in Char
      /\ Command \in Commands /\ Commands \subseteq Texts
  BY <1>1, <1>2, HostFacts, Shorter, CommandFacts DEF TypeInv
<1>4. ASSUME NEW u, Message(Commands, u), toStub' = toStub \o u PROVE HostSends(u)
  BY <1>1, <1>4 DEF HostSends
<1>5. Message(Commands, <<>>) /\ toStub \o <<>> = toStub /\ Message(Commands, <<"+">>)
      /\ Append(toStub, "+") = toStub \o <<"+">> /\ Message(Commands, Packet(Command))
  BY <1>2, <1>3, NoMessage, AppendMessage, SignIsMessage, PacketIsMessage
<1>6. CASE host.rx.st = "hunt" /\ ch = "+"
  <2>1. HostIs("reply") /\ toStub' = toStub
    BY <1>6 DEF AwaitAck
  <2>2. HostSends(<<>>) /\ AckYes(<<>>)
    BY <1>4, <1>5, <1>6, <2>1 DEF AckYes
  <2>3. host' \in HostType /\ Room(host'.rx) /\ host'.at >= 1
    BY <1>1, <2>1, HostIsFacts
  <2>4. TypeInv'
    BY <1>1, <2>2, <2>3, TypesInReading
  <2> QED BY <1>1, <2>2, <2>4
<1>7. CASE host.rx.st = "hunt" /\ ch = "-"
  <2>1. HostIs("ack") /\ toStub' = toStub \o Packet(Command)
    BY <1>7 DEF AwaitAck, Command
  <2>2. HostSends(Packet(Command)) /\ AckNo(Packet(Command))
    BY <1>4, <1>5, <1>7, <2>1 DEF AckNo
  <2>3. host' \in HostType /\ Room(host'.rx) /\ host'.at >= 1
    BY <1>1, <2>1, HostIsFacts
  <2>4. TypeInv'
    BY <1>1, <2>2, <2>3, TypesInReading
  <2> QED BY <1>1, <2>2, <2>4
<1>8. CASE ~(host.rx.st = "hunt" /\ ch \in {"+", "-"})
  <2>1. CASE r.st \in Verdicts
    <3>1. HostIs("ack") /\ toStub' = Append(toStub, "+")
      BY <1>8, <2>1 DEF AwaitAck, Verdicts
    <3>2. HostSends(<<"+">>) /\ AckElse(<<"+">>)
      BY <1>4, <1>5, <1>8, <3>1 DEF AckElse
    <3>3. host' \in HostType /\ Room(host'.rx) /\ host'.at >= 1
      BY <1>1, <3>1, HostIsFacts
    <3>4. TypeInv'
      BY <1>1, <3>2, <3>3, TypesInReading
    <3> QED BY <1>1, <3>2, <3>4
  <2>2. CASE r.st \notin Verdicts
    <3>1. host' = [host EXCEPT !.rx = r] /\ toStub' = toStub
      BY <1>8, <2>2 DEF AwaitAck, Verdicts
    <3>2. HostSends(<<>>) /\ AckElse(<<>>)
      BY <1>4, <1>5, <1>8, <2>2, <3>1 DEF AckElse
    <3>3. r \in Receiver(Reading) /\ Room(r)
      BY <1>3, <2>2, ScanTypes
    <3>4. host' \in HostType /\ Room(host'.rx) /\ host'.at >= 1
      BY <1>3, <3>1, <3>3, HostReads
    <3>5. TypeInv'
      BY <1>1, <3>2, <3>4, TypesInReading
    <3> QED BY <1>1, <3>2, <3>5
  <2> QED BY <2>1, <2>2
<1> QED BY <1>6, <1>7, <1>8

(* Waiting for a reply. *)
ReplyGood(u) == Scan(host.rx, Head(toHost)).st = "good" /\ HostIs("idle") /\ u = <<"+">>
ReplyBad(u)  == Scan(host.rx, Head(toHost)).st = "bad" /\ HostIs("reply") /\ u = <<"-">>
ReplyMore(u) == /\ Scan(host.rx, Head(toHost)).st \notin Verdicts /\ u = <<>>
                /\ host' = [host EXCEPT !.rx = Scan(host.rx, Head(toHost))]

(* and one that waits for a reply in one of these. *)
LEMMA AwaitReplyCases ==
  ASSUME TypeInv, AwaitReply
  PROVE  /\ host.st = "reply" /\ toHost # <<>> /\ toHost' = Tail(toHost) /\ hasty' = hasty
         /\ \E u : HostSends(u) /\ (ReplyGood(u) \/ ReplyBad(u) \/ ReplyMore(u))
         /\ TypeInv'
<1> DEFINE r == Scan(host.rx, Head(toHost))
<1>1. /\ host.st = "reply" /\ toHost # <<>> /\ toHost' = Tail(toHost)
      /\ UNCHANGED <<rx, mode, out, executed, marked, lost, damaged, hasty>>
  BY DEF AwaitReply, faults
<1>2. toStub \in Seq(Char) /\ toHost \in Seq(Char)
  BY DEF TypeInv
<1>3. host.rx \in Receiver(Reading) /\ Room(host.rx) /\ host.at >= 1 /\ Head(toHost) \in Char
  BY <1>1, <1>2, HostFacts, Shorter DEF TypeInv
<1>4. ASSUME NEW u, Message(Commands, u), toStub' = toStub \o u PROVE HostSends(u)
  BY <1>1, <1>4 DEF HostSends
<1>5. Message(Commands, <<>>) /\ toStub \o <<>> = toStub
      /\ Message(Commands, <<"+">>) /\ Message(Commands, <<"-">>)
      /\ Append(toStub, "+") = toStub \o <<"+">> /\ Append(toStub, "-") = toStub \o <<"-">>
  BY <1>2, NoMessage, AppendMessage, SignIsMessage
<1>6. CASE r.st = "good"
  <2>1. HostIs("idle") /\ toStub' = Append(toStub, "+")
    BY <1>6 DEF AwaitReply
  <2>2. HostSends(<<"+">>) /\ ReplyGood(<<"+">>)
    BY <1>4, <1>5, <1>6, <2>1 DEF ReplyGood
  <2>3. host' \in HostType /\ Room(host'.rx) /\ host'.at >= 1
    BY <1>1, <2>1, HostIsFacts
  <2>4. TypeInv'
    BY <1>1, <2>2, <2>3, TypesInReading
  <2> QED BY <1>1, <2>2, <2>4
<1>7. CASE r.st = "bad"
  <2>1. HostIs("reply") /\ toStub' = Append(toStub, "-")
    BY <1>7 DEF AwaitReply
  <2>2. HostSends(<<"-">>) /\ ReplyBad(<<"-">>)
    BY <1>4, <1>5, <1>7, <2>1 DEF ReplyBad
  <2>3. host' \in HostType /\ Room(host'.rx) /\ host'.at >= 1
    BY <1>1, <2>1, HostIsFacts
  <2>4. TypeInv'
    BY <1>1, <2>2, <2>3, TypesInReading
  <2> QED BY <1>1, <2>2, <2>4
<1>8. CASE r.st \notin Verdicts
  <2>1. host' = [host EXCEPT !.rx = r] /\ toStub' = toStub
    BY <1>8 DEF AwaitReply, Verdicts
  <2>2. HostSends(<<>>) /\ ReplyMore(<<>>)
    BY <1>4, <1>5, <1>8, <2>1 DEF ReplyMore
  <2>3. r \in Receiver(Reading) /\ Room(r)
    BY <1>3, <1>8, ScanTypes
  <2>4. host' \in HostType /\ Room(host'.rx) /\ host'.at >= 1
    BY <1>3, <2>1, <2>3, HostReads
  <2>5. TypeInv'
    BY <1>1, <2>2, <2>4, TypesInReading
  <2> QED BY <1>1, <2>2, <2>5
<1> QED BY <1>6, <1>7, <1>8 DEF Verdicts

(* Waiting in vain. *)
LEMMA RepeatCases ==
  ASSUME TypeInv, Repeat, hasty' \in Nat
  PROVE  /\ host.st # "idle" /\ HostIs(host.st) /\ toHost' = toHost
         /\ HostSends(IF host.st = "ack" THEN Packet(Command) ELSE <<"-">>)
         /\ TypeInv'
<1> DEFINE u == IF host.st = "ack" THEN Packet(Command) ELSE <<"-">>
<1>1. /\ host.st \in {"ack", "reply"} /\ HostIs(host.st) /\ toStub' = toStub \o u
      /\ UNCHANGED <<toHost, rx, mode, out, executed, marked, lost, damaged>>
  BY DEF Repeat, Command
<1>2. host.st # "idle" /\ host.st \in {"idle", "ack", "reply"}
  BY <1>1
<1>3. Command \in Commands /\ Commands \subseteq Texts
  BY <1>2, HostFacts, CommandFacts
<1>4. Message(Commands, Packet(Command)) /\ Message(Commands, <<"-">>)
  BY <1>3, PacketIsMessage, SignIsMessage
<1>5. Message(Commands, u)
  BY <1>4
<1> HIDE DEF u
<1>6. HostSends(u)
  BY <1>1, <1>5 DEF HostSends
<1>7. host' \in HostType /\ Room(host'.rx) /\ host'.at >= 1
  BY <1>1, <1>2, HostIsFacts
<1>8. toStub \in Seq(Char) /\ u \in Seq(Char)
  BY <1>5 DEF TypeInv, Message
<1>9. toStub' \in Seq(Char)
  BY <1>1, <1>8
<1>10. TypeInv'
  BY <1>1, <1>7, <1>9 DEF TypeInv
<1> QED BY <1>1, <1>2, <1>6, <1>10 DEF u

-----------------------------------------------------------------------------
(* The phases follow each other *)

(* While the stub reads, what may be under way. *)
LEMMA PhaseInGet ==
  ASSUME TypeInv, NEW s, s # <<>>, Phase(s), mode = "get"
  PROVE  /\ host.st = "ack" /\ (rx.buffer[2] = ":" => Len(Command) >= 2)
         /\ Listening(s) \/ Rejected(s)
BY DEF Phase, Listening, Rejected, Sending, Accepted, Replying, Idle

(* The stub reads in getpacket: accepts, rejects or reads on. *)
LEMMA PhaseGets ==
  ASSUME TypeInv, GetPacket, Phase(toStub), NEW q, q = Scan(rx, Head(toStub))
  PROVE  /\ Phase(toStub)'
         /\ q.st = "good" => Text(q) \in Commands
         /\ Neat(toStub) => Neat(toStub)'
<1>1. /\ mode = "get" /\ toStub # <<>> /\ toStub' = Tail(toStub) /\ host' = host
      /\ GetGood(q) \/ GetBad(q) \/ GetMore(q)
      /\ rx' \in Receiver(Reading) /\ Room(rx') /\ rx'.buffer = q.buffer
      /\ Tail(toStub) \in Seq(Char)
  BY GetPacketCases
<1>2. /\ host.st = "ack" /\ (rx.buffer[2] = ":" => Len(Command) >= 2)
      /\ Listening(toStub) \/ Rejected(toStub)
  BY <1>1, PhaseInGet
<1>3. /\ Command' = Command /\ Command \in Texts /\ Command \in Commands /\ {Command} \subseteq Texts
      /\ toStub \in Seq(Char) /\ rx \in Receiver(Reading) /\ Room(rx) /\ 1 \in 1 .. Len(toStub)
  BY <1>1, <1>2, HostFacts, Shorter DEF Command, TypeInv
<1> DEFINE c == Command
           s == toStub
<1>4. CASE Rejected(s)
  <2>1. rx.st = "hunt" /\ None(s) /\ Line({c}, s) /\ toHost = <<"-">> /\ host.rx.st = "hunt"
    BY <1>4 DEF Rejected
  <2>2. Head(s) # "$"
    BY <1>1, <1>3, <2>1, Shorter DEF None
  <2>3. q = rx
    BY <2>1, <2>2, ScanHunt
  <2>4. GetMore(q)
    BY <1>1, <2>1, <2>3 DEF GetGood, GetBad, Verdicts
  <2>5. rx' = rx /\ mode' = "get" /\ toHost' = <<"-">>
    BY <1>1, <2>1, <2>3, <2>4 DEF GetMore
  <2>6. None(Tail(s)) /\ Line({c}, Tail(s))
    BY <1>1, <1>3, <2>1, FewerStarts, LineTail
  <2>7. Rejected(toStub)'
    BY <1>1, <1>2, <1>3, <2>1, <2>5, <2>6 DEF Rejected
  <2>8. Phase(toStub)'
    BY <1>2, <1>3, <2>5, <2>7 DEF Phase
  <2>9. ~Neat(toStub)
    BY <1>1, <2>1 DEF Neat
  <2> QED BY <2>1, <2>3, <2>8, <2>9
<1>5. CASE Listening(s) /\ Sole(rx, s, c)
  <2>1. toHost = <<>> /\ host.rx.st = "hunt"
    BY <1>5 DEF Listening
  <2>2. /\ q.st \in Verdicts => HasText(rx, c) /\ Tail(s) = <<>>
        /\ q.st \notin Verdicts => Sole(q, Tail(s), c)
        /\ q.buffer[2] = ":" => rx.buffer[2] = ":"
    BY <1>1, <1>3, <1>5, SoleReads
  <2>3. CASE GetGood(q)
    <3>1. Stored(q.buffer, c) /\ Tail(s) = <<>> /\ q.st = "good"
      BY <2>2, <2>3 DEF GetGood, HasText, Verdicts
    <3>2. q.buffer[2] # ":"
      BY <1>2, <1>3, <2>2, <3>1, StoredMark
    <3>3. Text(q) = c /\ Acknowledge(q) = <<"+">>
      BY <1>3, <3>1, <3>2, StoredText
    <3>4. toHost' = <<"+">> \o Packet(out') /\ mode' = "put" /\ rx'.st = "hunt"
      <4>1. toHost' = <<>> \o <<"+">> \o Packet(out')
        BY <2>1, <2>3, <3>3 DEF GetGood
      <4>2. <<>> \o <<"+">> = <<"+">>
        OBVIOUS
      <4> QED BY <2>3, <4>1, <4>2 DEF GetGood
    <3>5. Accepted(toStub)'
      BY <1>1, <1>2, <2>1, <3>1, <3>4 DEF Accepted
    <3>6. Phase(toStub)'
      BY <1>1, <3>2, <3>5 DEF Phase
    <3>7. Neat(toStub)'
      BY <3>4 DEF Neat
    <3> QED BY <1>3, <3>3, <3>6, <3>7
  <2>4. CASE GetBad(q)
    <3>1. Tail(s) = <<>>
      BY <2>2, <2>4 DEF GetBad, Verdicts
    <3>2. toHost' = <<"-">> /\ mode' = "get" /\ rx'.st = "hunt" /\ q.st # "good"
      BY <1>1, <2>1, <2>4 DEF GetBad
    <3>3. None(<<>>) /\ Line({c}, <<>>) /\ First(<<>>)
      BY LineEmpty DEF None, First
    <3>4. Rejected(toStub)'
      BY <1>1, <1>2, <1>3, <2>1, <3>1, <3>2, <3>3 DEF Rejected
    <3>5. Phase(toStub)'
      BY <1>1, <1>2, <1>3, <2>2, <3>4 DEF Phase
    <3>6. Neat(toStub)'
      BY <1>1, <3>1, <3>2, <3>3 DEF Neat
    <3> QED BY <3>2, <3>5, <3>6
  <2>5. CASE GetMore(q)
    <3>1. rx' = q /\ Sole(q, Tail(s), c) /\ toHost' = <<>> /\ mode' = "get" /\ q.st # "good"
      BY <1>1, <2>1, <2>2, <2>5 DEF GetMore, Verdicts
    <3>2. Listening(toStub)'
      BY <1>1, <1>2, <1>3, <2>1, <3>1 DEF Listening
    <3>3. Phase(toStub)'
      BY <1>1, <1>2, <1>3, <2>2, <3>2 DEF Phase
    <3>4. Neat(toStub) => First(Tail(s))
      <4>1. Neat(toStub) => First(s)
        BY <1>1 DEF Neat
      <4>2. First(s) => None(Tail(s))
        BY <1>1, <1>3, FewerStarts
      <4> QED BY <4>1, <4>2 DEF None, First
    <3>5. Neat(toStub) => Neat(toStub)'
      BY <1>1, <1>3, <3>1, <3>4 DEF Neat
    <3> QED BY <3>1, <3>3, <3>5
  <2> QED BY <1>1, <2>3, <2>4, <2>5
<1>6. CASE Listening(s) /\ Astray(rx, s, c) /\ ~Sole(rx, s, c)
  <2>1. toHost = <<>> /\ host.rx.st = "hunt"
    BY <1>6 DEF Listening
  <2>2. /\ q.st # "good"
        /\ q.st = "bad" => None(Tail(s)) /\ Line({c}, Tail(s))
        /\ q.st \notin Verdicts => Sole(q, Tail(s), c) \/ Astray(q, Tail(s), c)
        /\ q.buffer[2] = ":" => rx.buffer[2] = ":" \/ Len(c) >= 2
    BY <1>1, <1>3, <1>6, AstrayReads
  <2>3. ~Neat(toStub)
    BY <1>1, <1>2, <1>6, <2>1 DEF Neat
  <2>4. CASE GetBad(q)
    <3>1. toHost' = <<"-">> /\ mode' = "get" /\ rx'.st = "hunt" /\ q.st = "bad"
      BY <1>1, <2>1, <2>4 DEF GetBad
    <3>2. Rejected(toStub)'
      BY <1>1, <1>2, <1>3, <2>1, <2>2, <3>1 DEF Rejected
    <3> QED BY <1>1, <1>2, <1>3, <2>2, <2>3, <3>2 DEF Phase
  <2>5. CASE GetMore(q)
    <3>1. rx' = q /\ toHost' = <<>> /\ mode' = "get" /\ q.st \notin Verdicts
      BY <1>1, <2>1, <2>5 DEF GetMore
    <3>2. Listening(toStub)'
      BY <1>1, <1>2, <1>3, <2>1, <2>2, <3>1 DEF Listening
    <3> QED BY <1>1, <1>2, <1>3, <2>2, <2>3, <3>2 DEF Phase
  <2> QED BY <1>1, <2>2, <2>4, <2>5 DEF GetGood
<1> QED BY <1>2, <1>4, <1>5, <1>6 DEF Listening

(* The stub reads in putpacket. *)
LEMMA PhasePuts ==
  ASSUME TypeInv, PutPacket, Phase(toStub)
  PROVE  Phase(toStub)' /\ (Neat(toStub)' \/ mode' = "put")
<1>1. /\ mode = "put" /\ toStub # <<>> /\ toStub' = Tail(toStub) /\ rx' = rx /\ host' = host /\ out' = out
      /\ IF Head(toStub) = "+" THEN mode' = "get" /\ toHost' = toHost
                               ELSE toHost' = toHost \o Packet(out) /\ mode' = mode
  BY DEF PutPacket, Acknowledged, faults
<1>2. toStub \in Seq(Char) /\ out \in Texts /\ Packet(out) \in Seq(Char)
  BY PacketFacts DEF TypeInv
<1>3. rx.buffer[2] # ":" /\ (Sending(toStub) \/ Replying(toStub) \/ Idle(toStub))
  BY <1>1 DEF Phase, Listening, Rejected, Accepted
<1>4. Command' = Command
  BY <1>1 DEF Command
<1>5. CASE Sending(toStub)
  <2>1. /\ host.st = "ack" /\ host.rx.st = "hunt" /\ toHost = <<>> /\ rx.st = "hunt"
        /\ toStub = <<"+">> \o Packet(Command)
    BY <1>5 DEF Sending
  <2>2. Command \in Texts /\ Packet(Command) \in Seq(Char)
    BY <2>1, HostFacts, PacketFacts
  <2>3. Head(toStub) = "+" /\ Tail(toStub) = Packet(Command)
    BY <2>1, <2>2
  <2>4. Sole(rx, Packet(Command), Command) /\ First(Packet(Command))
    BY <2>1, <2>2, SolePacket
  <2>5. mode' = "get" /\ toHost' = <<>> /\ toStub' = Packet(Command)
    BY <1>1, <2>1, <2>3
  <2>6. Listening(toStub)'
    BY <1>1, <1>4, <2>1, <2>4, <2>5 DEF Listening
  <2>7. Phase(toStub)'
    BY <1>1, <1>3, <2>6 DEF Phase
  <2>8. Neat(toStub)'
    BY <1>1, <1>4, <2>4, <2>5 DEF Neat
  <2> QED BY <2>7, <2>8
<1>6. CASE Replying(toStub)
  <2>1. /\ host.st = "reply" /\ rx.st = "hunt" /\ toStub = <<"-">> /\ toHost = <<>> /\ host.rx.st = "hunt"
    BY <1>1, <1>6 DEF Replying
  <2>2. Head(toStub) = "-" /\ Tail(toStub) = <<>> /\ <<>> \o Packet(out) = Packet(out)
    BY <1>2, <2>1
  <2>3. toHost' = Packet(out) /\ mode' = "put" /\ toStub' = <<>>
    BY <1>1, <2>1, <2>2
  <2>4. Sole(host.rx, Packet(out), out)
    BY <1>2, <2>1, SolePacket
  <2>5. Replying(toStub)'
    BY <1>1, <2>1, <2>3, <2>4 DEF Replying
  <2> QED BY <1>1, <1>3, <2>3, <2>5 DEF Phase
<1>7. CASE Idle(toStub)
  <2>1. /\ host.st = "idle" /\ rx.st = "hunt" /\ toStub = <<"+">> /\ toHost = <<>> /\ host.rx.st = "hunt"
    BY <1>1, <1>7 DEF Idle
  <2>2. Head(toStub) = "+" /\ Tail(toStub) = <<>>
    BY <2>1
  <2>3. toHost' = <<>> /\ mode' = "get" /\ toStub' = <<>>
    BY <1>1, <2>1, <2>2
  <2>4. Idle(toStub)'
    BY <1>1, <2>1, <2>3 DEF Idle
  <2>5. First(<<>>)
    BY DEF First
  <2>6. Neat(toStub)'
    BY <1>1, <2>1, <2>3, <2>5 DEF Neat
  <2> QED BY <1>1, <1>3, <2>4, <2>6 DEF Phase
<1> QED BY <1>3, <1>5, <1>6, <1>7

(* The host goes on, s being under way to the stub. *)
Follows(s, u) ==
  /\ Phase(s) => Phase(s \o u)'
  /\ Phase(s) /\ Neat(s) => Neat(s \o u)'

(* The host sends the next command, *)
LEMMA PhaseSends ==
  ASSUME TypeInv, SendCommand, NEW u, u = Packet(Script[host.at + 1]), NEW s \in Seq(Char)
  PROVE  Follows(s, u)
<1> DEFINE w == s \o u
<1>0. PICK c : c = Script[host.at + 1]
  OBVIOUS
<1>1. /\ host.st = "idle" /\ host.at + 1 \in 1 .. Len(Script)
      /\ host'.st = "ack" /\ host'.at = host.at + 1 /\ host'.rx = host.rx
      /\ toHost' = toHost /\ rx' = rx /\ mode' = mode /\ out' = out
  BY TypesInSend DEF HostSends
<1>2. SUFFICES ASSUME Phase(s) PROVE Phase(w)' /\ Neat(w)'
  BY DEF Follows
<1>3. Idle(s) /\ rx.buffer[2] # ":"
  BY <1>1, <1>2 DEF Phase, Listening, Rejected, Sending, Accepted, Replying
<1>4. Command' = c /\ c \in Texts /\ Packet(c) \in Seq(Char) /\ u = Packet(c)
  BY <1>0, <1>1, CommandFacts, PacketFacts DEF Command
<1>5. host.rx.st = "hunt" /\ toHost = <<>> /\ rx.st = "hunt"
  BY <1>3 DEF Idle
<1>6. CASE mode = "put" /\ s = <<"+">>
  <2>1. Sending(w)'
    BY <1>1, <1>4, <1>5, <1>6 DEF Sending
  <2>2. Neat(w)'
    BY <1>1, <1>6 DEF Neat
  <2> QED BY <1>1, <1>3, <1>6, <2>1, <2>2 DEF Phase
<1>7. CASE mode = "get" /\ s = <<>>
  <2>1. w = Packet(c)
    BY <1>4, <1>7
  <2>2. Sole(rx, w, c) /\ First(w)
    BY <1>4, <1>5, <2>1, SolePacket
  <2> HIDE DEF w
  <2>3. Listening(w)'
    BY <1>1, <1>4, <1>5, <1>7, <2>2 DEF Listening
  <2>4. Neat(w)'
    BY <1>1, <1>4, <1>5, <2>2 DEF Neat
  <2> QED BY <1>1, <1>3, <2>3, <2>4 DEF Phase
<1> QED BY <1>3, <1>6, <1>7 DEF Idle

(* reads while it waits for a +, *)
LEMMA PhaseAcks ==
  ASSUME TypeInv, AwaitAck, NEW u, HostSends(u), AckYes(u) \/ AckNo(u) \/ AckElse(u), NEW s \in Seq(Char)
  PROVE  Follows(s, u)
<1> DEFINE w == s \o u
<1>1. /\ host.st = "ack" /\ toHost # <<>> /\ toHost' = Tail(toHost)
      /\ rx' = rx /\ mode' = mode /\ out' = out
  BY AwaitAckCases DEF HostSends
<1>2. SUFFICES ASSUME Phase(s) PROVE Phase(w)' /\ (Neat(s) => Neat(w)')
  BY DEF Follows
<1>3. (Rejected(s) /\ (rx.buffer[2] = ":" => Len(Command) >= 2)) \/ (Accepted(s) /\ rx.buffer[2] # ":")
  BY <1>1, <1>2 DEF Phase, Listening, Sending, Replying, Idle
<1>4. Command \in Texts /\ out \in Texts /\ Packet(out) \in Seq(Char)
  BY <1>1, HostFacts, PacketFacts DEF TypeInv
<1>5. CASE Rejected(s)
  <2>1. host.rx.st = "hunt" /\ toHost = <<"-">> /\ mode = "get" /\ rx.st = "hunt" /\ None(s) /\ Line({Command}, s)
    BY <1>5 DEF Rejected
  <2>2. Head(toHost) = "-" /\ Tail(toHost) = <<>>
    BY <2>1
  <2>3. HostIs("ack") /\ u = Packet(Command)
    BY <2>1, <2>2 DEF AckYes, AckNo, AckElse
  <2>4. host'.st = "ack" /\ host'.at = host.at /\ host'.rx.st = "hunt" /\ Command' = Command
    BY <1>1, <2>3, HostIsFacts DEF Command
  <2>5. Sole(rx, w, Command) /\ (s = <<>> => First(w))
    BY <1>4, <2>1, <2>3, SoleSent
  <2> HIDE DEF w
  <2>6. toHost' = <<>>
    BY <1>1, <2>2
  <2>7. Listening(w)'
    BY <1>1, <2>1, <2>4, <2>5, <2>6 DEF Listening
  <2>8. Neat(s) => s = <<>>
    BY <1>1, <2>1 DEF Neat
  <2>9. Neat(s) => Neat(w)'
    BY <1>1, <2>4, <2>5, <2>6, <2>8 DEF Neat
  <2>10. rx.buffer[2] = ":" => Len(Command) >= 2
    BY <1>3
  <2> QED BY <1>1, <2>4, <2>7, <2>9, <2>10 DEF Phase
<1>6. CASE Accepted(s)
  <2>1. host.rx.st = "hunt" /\ toHost = <<"+">> \o Packet(out) /\ mode = "put" /\ rx.st = "hunt" /\ s = <<>>
    BY <1>6 DEF Accepted
  <2>2. Head(toHost) = "+" /\ Tail(toHost) = Packet(out)
    BY <1>4, <2>1
  <2>3. HostIs("reply") /\ u = <<>>
    BY <2>1, <2>2 DEF AckYes, AckNo, AckElse
  <2>4. host'.st = "reply" /\ host'.rx.st = "hunt"
    BY <1>1, <2>3, HostIsFacts
  <2>5. w = <<>>
    BY <2>1, <2>3
  <2>6. Sole(host'.rx, Packet(out), out)
    BY <1>4, <2>4, SolePacket
  <2>7. Replying(<<>>)'
    BY <1>1, <2>1, <2>2, <2>4, <2>6 DEF Replying
  <2>8. Neat(w)'
    BY <1>1, <2>1 DEF Neat
  <2>9. rx.buffer[2] # ":"
    BY <1>3, <1>6, <2>1 DEF Rejected
  <2>10. Phase(<<>>)'
    BY <1>1, <2>7, <2>9 DEF Phase
  <2> QED BY <2>5, <2>8, <2>10
<1> QED BY <1>3, <1>5, <1>6

(* reads a reply, *)
LEMMA PhaseReplies ==
  ASSUME TypeInv, AwaitReply, NEW u, HostSends(u), ReplyGood(u) \/ ReplyBad(u) \/ ReplyMore(u),
         NEW s \in Seq(Char)
  PROVE  Follows(s, u)
<1> DEFINE w == s \o u
           r == Scan(host.rx, Head(toHost))
<1>1. /\ host.st = "reply" /\ toHost # <<>> /\ toHost' = Tail(toHost)
      /\ rx' = rx /\ mode' = mode /\ out' = out
  BY AwaitReplyCases DEF HostSends
<1>2. SUFFICES ASSUME Phase(s) PROVE Phase(w)' /\ Neat(w)'
  BY DEF Follows
<1>3. Replying(s) /\ rx.buffer[2] # ":"
  BY <1>1, <1>2 DEF Phase, Listening, Rejected, Sending, Accepted, Idle
<1>4. mode = "put" /\ rx.st = "hunt" /\ s = <<>> /\ Sole(host.rx, toHost, out)
  BY <1>1, <1>3 DEF Replying
<1>5. out \in Texts /\ toHost \in Seq(Char) /\ host.rx \in Receiver(Reading) /\ Room(host.rx)
      /\ Head(toHost) \in Char
  BY <1>1, HostFacts, Shorter DEF TypeInv
<1>6. /\ r.st \in Verdicts => Tail(toHost) = <<>>
      /\ r.st \notin Verdicts => Sole(r, Tail(toHost), out)
  BY <1>1, <1>4, <1>5, SoleReads
<1>7. Neat(w)'
  BY <1>1, <1>4 DEF Neat
<1>8. u \in Seq(Char) /\ w = u
  BY <1>4 DEF HostSends, Message
<1>9. CASE ReplyGood(u)
  <2>1. r.st = "good" /\ HostIs("idle") /\ u = <<"+">>
    BY <1>9 DEF ReplyGood
  <2>2. host'.st = "idle" /\ host'.rx.st = "hunt" /\ toHost' = <<>>
    BY <1>1, <1>6, <2>1, HostIsFacts DEF Verdicts
  <2>3. Idle(u)'
    BY <1>1, <1>4, <2>1, <2>2 DEF Idle
  <2>4. Phase(u)'
    BY <1>1, <1>3, <2>3 DEF Phase
  <2> QED BY <1>7, <1>8, <2>4
<1>10. CASE ReplyBad(u)
  <2>1. r.st = "bad" /\ HostIs("reply") /\ u = <<"-">>
    BY <1>10 DEF ReplyBad
  <2>2. host'.st = "reply" /\ host'.rx.st = "hunt" /\ toHost' = <<>>
    BY <1>1, <1>6, <2>1, HostIsFacts DEF Verdicts
  <2>3. Replying(u)'
    BY <1>1, <1>4, <2>1, <2>2 DEF Replying
  <2>4. Phase(u)'
    BY <1>1, <1>3, <2>3 DEF Phase
  <2> QED BY <1>7, <1>8, <2>4
<1>11. CASE ReplyMore(u)
  <2>1. r.st \notin Verdicts /\ host' = [host EXCEPT !.rx = r] /\ u = <<>>
    BY <1>11 DEF ReplyMore
  <2>2. r \in Receiver(Reading) /\ Room(r)
    BY <1>5, <2>1, ScanTypes
  <2>3. host'.st = "reply" /\ host'.rx = r
    BY <1>1, <2>1, <2>2, HostReads
  <2>4. Replying(u)'
    BY <1>1, <1>4, <1>6, <2>1, <2>3 DEF Replying
  <2>5. Phase(u)'
    BY <1>1, <1>3, <2>4 DEF Phase
  <2> QED BY <1>7, <1>8, <2>5
<1> QED BY <1>9, <1>10, <1>11

(* or gives up waiting when nothing is under way. *)
LEMMA PhaseRepeats ==
  ASSUME TypeInv, TimeOut, NEW u, u = IF host.st = "ack" THEN Packet(Command) ELSE <<"-">>
  PROVE  Follows(<<>>, u)
<1>1. Repeat /\ toStub = <<>> /\ toHost = <<>> /\ hasty' \in Nat
  BY DEF TimeOut, Quiet, TypeInv
<1>2. /\ host.st # "idle" /\ HostIs(host.st) /\ toHost' = <<>>
      /\ rx' = rx /\ mode' = mode /\ out' = out
  BY <1>1, RepeatCases DEF HostSends
<1>3. host.st \in {"idle", "ack", "reply"} /\ Command \in Texts /\ Packet(Command) \in Seq(Char)
      /\ rx \in Receiver(Reading) /\ Room(rx)
  BY <1>2, HostFacts, PacketFacts DEF TypeInv
<1>4. host'.st = host.st /\ host'.rx.st = "hunt" /\ host'.at = host.at /\ Command' = Command
  BY <1>2, <1>3, HostIsFacts DEF Command
<1>5. <<>> \o u = u
  BY <1>3
<1>6. SUFFICES ASSUME Phase(<<>>) PROVE Phase(u)' /\ (Neat(<<>>) => Neat(u)')
  BY <1>5 DEF Follows
<1>7. CASE host.st = "ack"
  <2>1. u = Packet(Command)
    BY <1>7
  <2>2. <<"+">> \o Packet(Command) # <<>>
    BY <1>3
  <2>3. <<"+">> \o Packet(out) # <<>>
    BY PacketFacts DEF TypeInv
  <2>4. Listening(<<>>) /\ (rx.buffer[2] = ":" => Len(Command) >= 2)
    BY <1>1, <1>6, <1>7, <2>2, <2>3 DEF Phase, Rejected, Sending, Accepted, Replying, Idle
  <2>5. mode = "get" /\ (Sole(rx, <<>>, Command) \/ Astray(rx, <<>>, Command))
    BY <2>4 DEF Listening
  <2>6. Sole(rx, u, Command) \/ Astray(rx, u, Command)
    BY <1>3, <2>1, <2>5, SentAgain
  <2>7. Listening(u)'
    BY <1>2, <1>4, <1>7, <2>5, <2>6 DEF Listening
  <2>8. Neat(<<>>) => Sole(rx, <<>>, Command)
    BY <1>1, <1>7, <2>5 DEF Neat
  <2>9. Sole(rx, <<>>, Command) => rx.st = "hunt"
    <3>1. <<>> \in Seq(Char)
      OBVIOUS
    <3>2. ~InText(rx, <<>>, Command)
      BY <1>3, <3>1, MissedText
    <3>3. ~(HasText(rx, Command) /\ Exact(rx, <<>>, Command))
      BY DEF HasText, Exact
    <3> QED BY <3>2, <3>3, SoleCases DEF Sole
  <2>10. rx.st = "hunt" => Sole(rx, u, Command) /\ First(u)
    BY <1>3, <2>1, SolePacket
  <2>11. Neat(<<>>) => Neat(u)'
    BY <1>2, <1>4, <2>8, <2>9, <2>10 DEF Neat
  <2> QED BY <1>2, <1>4, <2>4, <2>7, <2>11 DEF Phase
<1>8. CASE host.st = "reply"
  <2>1. Replying(<<>>) /\ rx.buffer[2] # ":" /\ u = <<"-">>
    BY <1>1, <1>6, <1>8 DEF Phase, Listening, Rejected, Sending, Accepted, Idle
  <2>2. mode = "put" /\ rx.st = "hunt"
    BY <2>1 DEF Replying
  <2>3. Replying(u)'
    BY <1>2, <1>4, <1>8, <2>1, <2>2 DEF Replying
  <2> QED BY <1>2, <2>1, <2>2, <2>3 DEF Phase, Neat
<1> QED BY <1>2, <1>3, <1>7, <1>8

(* A damaged character is the first one; what is behind it is as it was. *)
LEMMA StruckTail ==
  ASSUME NEW s \in Seq(Char), NEW s0 \in Seq(Char), Struck(s, s0)
  PROVE  /\ s # <<>> /\ s0 # <<>> /\ Tail(s) = Tail(s0)
         /\ Head(s) \in Noise /\ Head(s) # Head(s0)
<1>1. s0 # <<>> /\ Len(s) = Len(s0) /\ s[1] \in Noise /\ s[1] # s0[1] /\ \A i \in 2 .. Len(s) : s[i] = s0[i]
  BY DEF Struck
<1>2. /\ Head(s0) = s0[1] /\ Len(s0) \in Nat /\ Len(s0) > 0 /\ Tail(s0) \in Seq(Char)
      /\ Len(Tail(s0)) = Len(s0) - 1 /\ \A i \in 1 .. Len(s0) - 1 : Tail(s0)[i] = s0[i + 1]
  BY <1>1, Shorter
<1>3. s # <<>>
  BY <1>1, <1>2
<1>4. /\ Head(s) = s[1] /\ Tail(s) \in Seq(Char)
      /\ Len(Tail(s)) = Len(s) - 1 /\ \A i \in 1 .. Len(s) - 1 : Tail(s)[i] = s[i + 1]
  BY <1>3, Shorter
<1>5. \A i \in 1 .. Len(s) - 1 : Tail(s)[i] = Tail(s0)[i]
  BY <1>1, <1>2, <1>4
<1>6. Tail(s) = Tail(s0)
  <2> DEFINE a == Tail(s)
             b == Tail(s0)
  <2>1. a \in Seq(Char) /\ b \in Seq(Char) /\ Len(a) = Len(b) /\ \A i \in 1 .. Len(a) : a[i] = b[i]
    BY <1>1, <1>2, <1>4, <1>5
  <2> HIDE DEF a, b
  <2>2. a = b
    BY <2>1, SeqEqual
  <2> QED BY <2>2 DEF a, b
<1> QED BY <1>1, <1>2, <1>3, <1>4, <1>6

(* What is sent behind it does not matter. *)
LEMMA StruckJoin ==
  ASSUME NEW s \in Seq(Char), NEW s0 \in Seq(Char), NEW u \in Seq(Char), Struck(s, s0)
  PROVE  Struck(s \o u, s0 \o u)
<1> DEFINE w  == s \o u
           w0 == s0 \o u
<1>1. IsJoin(w, s, u) /\ IsJoin(w0, s0, u)
  BY Joined
<1>2. s0 # <<>> /\ Len(s) = Len(s0) /\ s[1] \in Noise /\ s[1] # s0[1] /\ \A i \in 2 .. Len(s) : s[i] = s0[i]
  BY DEF Struck
<1>3. Len(s0) \in Nat /\ Len(s0) > 0
  BY <1>2, Shorter
<1> HIDE DEF w, w0
<1>4. w0 \in Seq(Char) /\ Len(w) = Len(w0) /\ Len(w0) > 0 /\ Len(u) \in Nat
  BY <1>1, <1>2, <1>3 DEF IsJoin
<1>5. w[1] = s[1] /\ w0[1] = s0[1]
  BY <1>1, <1>2, <1>3 DEF IsJoin
<1>6. \A i \in 2 .. Len(w) : w[i] = w0[i]
  <2> SUFFICES ASSUME NEW i \in 2 .. Len(w) PROVE w[i] = w0[i]
    OBVIOUS
  <2>1. i \in 2 .. Len(s) \/ i \in Len(s) + 1 .. Len(s) + Len(u)
    BY <1>1, <1>2, <1>3 DEF IsJoin
  <2>2. CASE i \in 2 .. Len(s)
    <3>1. i \in 1 .. Len(s) /\ i \in 1 .. Len(s0)
      BY <1>2, <1>3, <2>2
    <3> QED BY <1>1, <1>2, <2>2, <3>1 DEF IsJoin
  <2>3. CASE i \in Len(s) + 1 .. Len(s) + Len(u)
    <3>1. w[i] = u[i - Len(s)]
      BY <1>1, <2>3 DEF IsJoin
    <3>2. w0[i] = u[i - Len(s)]
      BY <1>1, <1>2, <2>3 DEF IsJoin
    <3> QED BY <3>1, <3>2
  <2> QED BY <2>1, <2>2, <2>3
<1>7. w0 # <<>>
  BY <1>4
<1>8. Struck(w, w0)
  BY <1>2, <1>4, <1>5, <1>6, <1>7 DEF Struck
<1> QED BY <1>8 DEF w, w0

(* A damaged character is read in a text, or as the start of one. *)
LEMMA PhaseStruck ==
  ASSUME TypeInv, GetPacket, NEW s0 \in Seq(Char), Struck(toStub, s0), Phase(s0), Neat(s0),
         rx.buffer[2] # ":", rx.st = "body" \/ (rx.st = "hunt" /\ Head(toStub) = "$")
  PROVE  Phase(toStub)'
<1>0. PICK q : q = Scan(rx, Head(toStub))
  OBVIOUS
<1>1. PICK c : c = Command
  OBVIOUS
<1>2. /\ s0 # <<>> /\ Tail(toStub) = Tail(s0) /\ Head(toStub) \in Noise /\ Head(toStub) # Head(s0)
  BY StruckTail DEF TypeInv
<1>3. /\ mode = "get" /\ toStub' = Tail(s0) /\ host' = host
      /\ GetGood(q) \/ GetBad(q) \/ GetMore(q)
  BY <1>0, <1>2, GetPacketCases
<1>4. host.st = "ack" /\ (Listening(s0) \/ Rejected(s0))
  BY <1>2, <1>3, PhaseInGet
<1>5. toHost = <<>> /\ First(s0) /\ Sole(rx, s0, c)
  <2>1. toHost # <<>> => s0 = <<>>
    BY <1>3 DEF Neat
  <2>2. toHost = <<>>
    BY <1>2, <2>1
  <2> QED BY <1>1, <1>3, <1>4, <2>2 DEF Neat
<1>6. host.rx.st = "hunt"
  BY <1>4 DEF Listening, Rejected
<1>7. c \in Texts /\ TellsMarks(c) /\ rx \in Receiver(Reading) /\ Room(rx)
  BY <1>1, <1>4, HostFacts DEF TypeInv
<1>8. /\ q.st \notin Verdicts /\ (Sole(q, Tail(s0), c) \/ Astray(q, Tail(s0), c))
      /\ q.buffer[2] = ":" => Len(c) >= 2
  <2>1. CASE rx.st = "body"
    <3>1. InText(rx, s0, c)
      BY <1>5, <2>1, SoleCases DEF HasText
    <3> QED BY <1>0, <1>2, <1>5, <1>7, <3>1, SoleStruck
  <2>2. CASE rx.st = "hunt" /\ Head(toStub) = "$"
    <3>1. Line({c}, s0)
      BY <1>5 DEF Sole
    <3>2. Astray(q, Tail(s0), c) /\ q.st \notin Verdicts
      BY <1>0, <1>2, <1>5, <1>7, <2>2, <3>1, SoleStarted
    <3>3. q.buffer = rx.buffer
      BY <1>0, <1>7, <2>2, ScanStart
    <3> QED BY <3>2, <3>3
  <2> QED BY <2>1, <2>2
<1>9. rx' = q /\ toHost' = <<>> /\ mode' = "get" /\ host'.st = "ack" /\ host'.rx.st = "hunt" /\ Command' = c
  BY <1>1, <1>3, <1>4, <1>5, <1>6, <1>8 DEF GetGood, GetBad, GetMore, Verdicts, Command
<1>10. Listening(toStub)'
  BY <1>3, <1>8, <1>9 DEF Listening
<1> QED BY <1>8, <1>9, <1>10 DEF Phase

-----------------------------------------------------------------------------
(* The invariant is preserved *)

(* More is sent behind what is under way. *)
LEMMA StreamGrows ==
  ASSUME NEW s \in Seq(Char), NEW u, Message(Commands, u), Line(Commands, s), NEW r
  PROVE  /\ s \o u \in Seq(Char) /\ Line(Commands, s \o u)
         /\ InStep(Commands, r, s) => InStep(Commands, r, s \o u)
         /\ Off(Commands, r, s) => Off(Commands, r, s \o u)
<1>0. PICK w : w = s \o u
  OBVIOUS
<1>1. u \in Seq(Char) /\ Clean(u, 1)
  BY DEF Message
<1>2. Commands \subseteq Texts
  BY CommandFacts
<1>3. Line(Commands, w) /\ w \in Seq(Char) /\ IsJoin(w, s, u)
  BY <1>0, <1>2, LineGrows
<1>4. \A t \in Commands : /\ InText(r, s, t) => InText(r, w, t)
                          /\ Adrift(r, s) => Adrift(r, w)
                          /\ OffIn(r, s, t) => OffIn(r, w, t)
  BY <1>1, <1>2, <1>3, StillSo
<1>5. InStep(Commands, r, s) => InStep(Commands, r, w)
  BY <1>4 DEF InStep
<1>6. Adrift(r, s) => Adrift(r, w)
  <2>1. SUFFICES ASSUME r.st = "body", Clean(s, 1) PROVE Clean(w, 1)
    BY DEF Adrift
  <2>2. 1 \in 1 .. Len(s) + 1
    BY <1>3 DEF IsJoin
  <2> QED BY <1>1, <1>3, <2>1, <2>2, CleanJoin
<1>7. Off(Commands, r, s) => Off(Commands, r, w)
  BY <1>4, <1>6 DEF Off
<1> QED BY <1>0, <1>3, <1>5, <1>7

(* Stub and host understand each other when the host goes on. *)
LEMMA ClearGrows ==
  ASSUME TypeInv, NEW u, HostSends(u), hasty' \in Nat, hasty' >= hasty,
         NEW s \in Seq(Char), Clear(s), hasty' = 0 => Follows(s, u)
  PROVE  Clear(s \o u)'
<1>0. PICK w : w = s \o u
  OBVIOUS
<1>1. /\ Line(Commands, s) /\ InStep(Commands, rx, s) /\ ~marked
      /\ hasty = 0 => Phase(s) /\ Neat(s)
  BY DEF Clear
<1>2. Message(Commands, u) /\ rx' = rx /\ marked' = marked
  BY DEF HostSends
<1>3. Line(Commands, w) /\ InStep(Commands, rx, w)
  BY <1>0, <1>1, <1>2, StreamGrows
<1>4. hasty' = 0 => hasty = 0
  BY DEF TypeInv
<1>5. hasty' = 0 => Phase(w)' /\ Neat(w)'
  BY <1>0, <1>1, <1>4 DEF Follows
<1>6. Clear(w)'
  BY <1>1, <1>2, <1>3, <1>5 DEF Clear
<1> QED BY <1>0, <1>6

(* The host sends something. *)
LEMMA ForgeryInSends ==
  ASSUME TypeInv, ForgeryInv, NEW u, HostSends(u), hasty' \in Nat, hasty' >= hasty,
         hasty' = 0 => \A s \in Seq(Char) : Len(s) = Len(toStub) => Follows(s, u)
  PROVE  ForgeryInv'
<1>0. PICK s : s = toStub
  OBVIOUS
<1>1. s \in Seq(Char) /\ toStub' = s \o u
  BY <1>0 DEF TypeInv, HostSends
<1>2. Message(Commands, u) /\ u \in Seq(Char)
      /\ rx' = rx /\ marked' = marked /\ mode' = mode /\ executed' = executed /\ Errors' = Errors
  BY DEF HostSends, Message, Errors
<1>3. hasty' = 0 => hasty = 0 /\ Follows(s, u)
  BY <1>0, <1>1 DEF TypeInv
<1>4. Errors = 0 => Clear(toStub)'
  <2>1. SUFFICES ASSUME Clear(s) PROVE Clear(s \o u)'
    BY <1>0, <1>1 DEF ForgeryInv, Clear
  <2> QED BY <1>1, <1>3, <2>1, ClearGrows
<1>5. ASSUME Hit PROVE Hit'
  <2>1. PICK s0 \in Seq(Char) : Struck(s, s0) /\ Clear(s0)
    BY <1>0, <1>5 DEF Hit
  <2>2. Len(s0) = Len(s)
    BY <2>1 DEF Struck
  <2>3. Clear(s0 \o u)'
    BY <1>0, <2>1, <2>2, ClearGrows
  <2>4. Struck(s \o u, s0 \o u) /\ s0 \o u \in Seq(Char)
    BY <1>1, <1>2, <2>1, StruckJoin
  <2>5. PICK w : w = s0 \o u
    OBVIOUS
  <2>6. w \in Seq(Char) /\ Struck(toStub', w) /\ Clear(w)'
    BY <1>1, <2>3, <2>4, <2>5
  <2> QED BY <2>6 DEF Hit, Struck
<1>6. ASSUME Misled PROVE Misled'
  <2>1. Line(Commands, s) /\ Off(Commands, rx, s) /\ mode = "get" /\ (hasty = 0 => Phase(s))
    BY <1>0, <1>6 DEF Misled
  <2>2. Line(Commands, toStub') /\ Off(Commands, rx, toStub')
    BY <1>1, <1>2, <2>1, StreamGrows
  <2>3. hasty' = 0 => Phase(s \o u)'
    BY <1>3, <2>1 DEF Follows
  <2>4. hasty' = 0 => Phase(toStub)'
    BY <1>1, <2>3 DEF Phase, Listening, Rejected, Sending, Accepted, Replying, Idle
  <2> QED BY <1>2, <2>1, <2>2, <2>4 DEF Misled
<1>7. ASSUME Recovered PROVE Recovered'
  <2>1. Line(Commands, s) /\ InStep(Commands, rx, s) /\ (marked /\ hasty = 0 => Phase(s))
    BY <1>0, <1>7 DEF Recovered
  <2>2. Line(Commands, toStub') /\ InStep(Commands, rx, toStub')
    BY <1>1, <1>2, <2>1, StreamGrows
  <2>3. marked /\ hasty' = 0 => Phase(s \o u)'
    BY <1>3, <2>1 DEF Follows
  <2>4. marked /\ hasty' = 0 => Phase(toStub)'
    BY <1>1, <2>3 DEF Phase, Listening, Rejected, Sending, Accepted, Replying, Idle
  <2> QED BY <1>2, <2>2, <2>4 DEF Recovered
<1>8. ~(marked' /\ hasty' > 0) => ~(marked /\ hasty > 0)
  BY <1>2 DEF TypeInv
<1>9. (Errors = 1 => Hit \/ Misled \/ Recovered)'
  BY <1>2, <1>5, <1>6, <1>7 DEF ForgeryInv
<1>10. (Errors <= 1 /\ ~marked => rx.buffer[2] # ":")'
  BY <1>2 DEF ForgeryInv
<1>11. (Errors <= 1 /\ ~(marked /\ hasty > 0) => executed \in Seq(Commands))'
  BY <1>2, <1>8 DEF ForgeryInv
<1>12. (Errors = 0 => Clear(toStub))'
  BY <1>2, <1>4
<1> QED BY <1>9, <1>10, <1>11, <1>12 DEF ForgeryInv

(* Every step of the host is one of these. *)
LEMMA ForgeryInHost ==
  ASSUME TypeInv, ForgeryInv, SendCommand \/ AwaitAck \/ AwaitReply \/ TimeOut \/ TimeOutEarly
  PROVE  TypeInv' /\ ForgeryInv'
<1>1. CASE SendCommand
  <2>1. PICK u : u = Packet(Script[host.at + 1])
    OBVIOUS
  <2>2. HostSends(u) /\ hasty' = hasty /\ TypeInv'
    BY <1>1, <2>1, TypesInSend
  <2>3. \A s \in Seq(Char) : Follows(s, u)
    BY <1>1, <2>1, PhaseSends
  <2>4. hasty' \in Nat /\ hasty' >= hasty
    BY <2>2 DEF TypeInv
  <2> QED BY <2>2, <2>3, <2>4, ForgeryInSends
<1>2. CASE AwaitAck
  <2>1. PICK u : HostSends(u) /\ (AckYes(u) \/ AckNo(u) \/ AckElse(u))
    BY <1>2, AwaitAckCases
  <2>2. hasty' = hasty /\ TypeInv'
    BY <1>2, AwaitAckCases
  <2>3. \A s \in Seq(Char) : Follows(s, u)
    BY <1>2, <2>1, PhaseAcks
  <2>4. hasty' \in Nat /\ hasty' >= hasty
    BY <2>2 DEF TypeInv
  <2> QED BY <2>1, <2>2, <2>3, <2>4, ForgeryInSends
<1>3. CASE AwaitReply
  <2>1. PICK u : HostSends(u) /\ (ReplyGood(u) \/ ReplyBad(u) \/ ReplyMore(u))
    BY <1>3, AwaitReplyCases
  <2>2. hasty' = hasty /\ TypeInv'
    BY <1>3, AwaitReplyCases
  <2>3. \A s \in Seq(Char) : Follows(s, u)
    BY <1>3, <2>1, PhaseReplies
  <2>4. hasty' \in Nat /\ hasty' >= hasty
    BY <2>2 DEF TypeInv
  <2> QED BY <2>1, <2>2, <2>3, <2>4, ForgeryInSends
<1>4. CASE TimeOut
  <2>1. PICK u : u = IF host.st = "ack" THEN Packet(Command) ELSE <<"-">>
    OBVIOUS
  <2>2. hasty' = hasty /\ hasty' \in Nat /\ hasty' >= hasty /\ toStub = <<>> /\ Repeat
    BY <1>4 DEF TimeOut, Quiet, TypeInv
  <2>3. HostSends(u) /\ TypeInv'
    BY <2>1, <2>2, RepeatCases
  <2>4. Follows(<<>>, u)
    BY <1>4, <2>1, PhaseRepeats
  <2>5. \A s \in Seq(Char) : Len(s) = Len(toStub) => s = <<>>
    BY <2>2
  <2>6. \A s \in Seq(Char) : Len(s) = Len(toStub) => Follows(s, u)
    BY <2>4, <2>5
  <2> QED BY <2>2, <2>3, <2>6, ForgeryInSends
<1>5. CASE TimeOutEarly
  <2>1. PICK u : u = IF host.st = "ack" THEN Packet(Command) ELSE <<"-">>
    OBVIOUS
  <2>2. hasty' = hasty + 1 /\ Repeat
    BY <1>5 DEF TimeOutEarly
  <2>3. hasty' \in Nat /\ hasty' >= hasty /\ hasty' # 0
    BY <2>2 DEF TypeInv
  <2>4. HostSends(u) /\ TypeInv'
    BY <2>1, <2>2, <2>3, RepeatCases
  <2> QED BY <2>3, <2>4, ForgeryInSends
<1> QED BY <1>1, <1>2, <1>3, <1>4, <1>5

(* A character is lost or damaged. *)
LEMMA TypesInFaults ==
  ASSUME TypeInv, Lose \/ Corrupt
  PROVE  /\ TypeInv' /\ Errors' = Errors + 1 /\ Errors \in Nat
         /\ UNCHANGED <<rx, mode, out, host, executed, marked, hasty>>
         /\ \/ toStub' = toStub
            \/ /\ toHost' = toHost /\ toStub # <<>>
               /\ \/ toStub' = Tail(toStub)
                  \/ \E ch \in Noise : ch # Head(toStub) /\ toStub' = <<ch>> \o Tail(toStub)
<1>1. toStub \in Seq(Char) /\ toHost \in Seq(Char) /\ lost \in Nat /\ damaged \in Nat /\ Noise \subseteq Char
  BY Letters DEF TypeInv
<1>2. \A s \in Seq(Char) : s # <<>> => Tail(s) \in Seq(Char)
  BY Shorter
<1>3. \A s \in Seq(Char), ch \in Char : s # <<>> => <<ch>> \o Tail(s) \in Seq(Char)
  BY <1>2
<1>4. CASE Lose
  <2>1. /\ lost' = lost + 1 /\ UNCHANGED <<rx, mode, out, host, executed, marked, damaged, hasty>>
        /\ \/ toStub # <<>> /\ toStub' = Tail(toStub) /\ toHost' = toHost
           \/ toHost # <<>> /\ toHost' = Tail(toHost) /\ toStub' = toStub
    BY <1>4 DEF Lose
  <2>2. toStub' \in Seq(Char) /\ toHost' \in Seq(Char)
    BY <1>1, <1>2, <2>1
  <2>3. Errors' = Errors + 1 /\ Errors \in Nat /\ lost' \in Nat
    BY <1>1, <2>1 DEF Errors
  <2>4. TypeInv'
    BY <2>1, <2>2, <2>3 DEF TypeInv
  <2> QED BY <2>1, <2>3, <2>4
<1>5. CASE Corrupt
  <2>1. /\ damaged' = damaged + 1 /\ UNCHANGED <<rx, mode, out, host, executed, marked, lost, hasty>>
        /\ \E ch \in Noise :
             \/ toStub # <<>> /\ ch # Head(toStub) /\ toStub' = <<ch>> \o Tail(toStub) /\ toHost' = toHost
             \/ toHost # <<>> /\ toHost' = <<ch>> \o Tail(toHost) /\ toStub' = toStub
    BY <1>5 DEF Corrupt, Damage
  <2>2. toStub' \in Seq(Char) /\ toHost' \in Seq(Char)
    BY <1>1, <1>3, <2>1
  <2>3. Errors' = Errors + 1 /\ Errors \in Nat /\ damaged' \in Nat
    BY <1>1, <2>1 DEF Errors
  <2>4. TypeInv'
    BY <2>1, <2>2, <2>3 DEF TypeInv
  <2> QED BY <2>1, <2>3, <2>4
<1> QED BY <1>4, <1>5

(* It was one on its way to the host, or between packets, or a digit; or    *)
(* one of a text is lost.                                                   *)
LEMMA ForgeryInFaults ==
  ASSUME TypeInv, ForgeryInv, Lose \/ Corrupt
  PROVE  ForgeryInv'
<1>1. /\ TypeInv' /\ Errors' = Errors + 1 /\ Errors \in Nat
      /\ UNCHANGED <<rx, mode, out, host, executed, marked, hasty>>
      /\ \/ toStub' = toStub
         \/ /\ toHost' = toHost /\ toStub # <<>>
            /\ \/ toStub' = Tail(toStub)
               \/ \E ch \in Noise : ch # Head(toStub) /\ toStub' = <<ch>> \o Tail(toStub)
  BY TypesInFaults
<1>2. SUFFICES ASSUME Errors = 0 PROVE (Hit \/ Misled \/ Recovered)'
  BY <1>1 DEF ForgeryInv
<1>3. PICK s : s = toStub
  OBVIOUS
<1>4. /\ Clear(s) /\ s \in Seq(Char) /\ rx \in Receiver(Reading)
  BY <1>2, <1>3 DEF ForgeryInv, TypeInv
<1>5. Line(Commands, s) /\ InStep(Commands, rx, s) /\ ~marked /\ (hasty = 0 => Phase(s) /\ Neat(s))
  BY <1>4 DEF Clear
<1>6. CASE toStub' = toStub
  BY <1>1, <1>3, <1>5, <1>6 DEF Recovered
<1>7. CASE toHost' = toHost /\ s # <<>> /\ toStub' = Tail(s)
  <2>1. Line(Commands, Tail(s)) /\ Tail(s) \in Seq(Char)
    BY <1>4, <1>5, <1>7, LineTail, CommandFacts, Shorter
  <2>2. CASE rx.st = "hunt" \/ \E t \in Commands : HasText(rx, t)
    <3>1. InStep(Commands, rx, Tail(s))
      BY <2>2 DEF InStep
    <3> QED BY <1>1, <1>5, <1>7, <2>1, <3>1 DEF Recovered
  <2>3. CASE \E t \in Commands : InText(rx, s, t)
    <3>1. PICK t \in Commands : InText(rx, s, t)
      BY <2>3
    <3>2. Adrift(rx, Tail(s)) \/ OffIn(rx, Tail(s), t)
      BY <1>4, <3>1, MissedText, CommandFacts
    <3>3. Off(Commands, rx, Tail(s))
      BY <3>1, <3>2 DEF Off
    <3>4. rx.st = "body" /\ mode = "get"
      BY <3>1 DEF InText, TypeInv
    <3>5. ASSUME hasty = 0 PROVE Phase(toStub)'
      <4>0. PICK c : c = Command
        OBVIOUS
      <4>1. host.st = "ack" /\ (rx.buffer[2] = ":" => Len(c) >= 2) /\ (Listening(s) \/ Rejected(s))
        BY <1>5, <1>7, <3>4, <3>5, <4>0, PhaseInGet
      <4>2. Listening(s)
        BY <3>4, <4>1 DEF Rejected
      <4>3. host.rx.st = "hunt" /\ toHost = <<>>
        BY <4>2 DEF Listening
      <4>4. Sole(rx, s, c)
        BY <1>5, <3>4, <3>5, <4>0, <4>1, <4>3 DEF Neat
      <4>5. InText(rx, s, c)
        BY <3>4, <4>4, SoleCases DEF HasText
      <4>6. Astray(rx, Tail(s), c)
        BY <1>4, <4>0, <4>1, <4>4, <4>5, SoleMisses, HostFacts
      <4>7. Command' = c
        BY <1>1, <4>0 DEF Command
      <4>8. Listening(toStub)'
        BY <1>1, <1>7, <3>4, <4>1, <4>3, <4>6, <4>7 DEF Listening
      <4> QED BY <1>1, <4>1, <4>7, <4>8 DEF Phase
    <3> QED BY <1>1, <1>7, <2>1, <3>3, <3>4, <3>5 DEF Misled
  <2> QED BY <1>5, <2>2, <2>3 DEF InStep
<1>8. CASE toHost' = toHost /\ s # <<>> /\ \E ch \in Noise : ch # Head(s) /\ toStub' = <<ch>> \o Tail(s)
  <2>1. PICK ch \in Noise : ch # Head(s) /\ toStub' = <<ch>> \o Tail(s)
    BY <1>8
  <2>2. Struck(toStub', s)
    <3>1. /\ Head(s) = s[1] /\ Len(s) \in Nat /\ Len(s) > 0 /\ Tail(s) \in Seq(Char)
          /\ Len(Tail(s)) = Len(s) - 1 /\ \A i \in 1 .. Len(s) - 1 : Tail(s)[i] = s[i + 1]
      BY <1>4, <1>8, Shorter
    <3>2. ch \in Char /\ <<ch>> \in Seq(Char)
      BY <2>1, Letters
    <3>3. IsJoin(toStub', <<ch>>, Tail(s))
      BY <2>1, <3>1, <3>2, Joined
    <3>4. Len(<<ch>>) = 1 /\ <<ch>>[1] = ch
      OBVIOUS
    <3>5. Len(toStub') = Len(s) /\ toStub'[1] = ch
      BY <3>1, <3>3, <3>4 DEF IsJoin
    <3>6. \A i \in 2 .. Len(s) : toStub'[i] = s[i]
      <4> SUFFICES ASSUME NEW i \in 2 .. Len(s) PROVE toStub'[i] = s[i]
        OBVIOUS
      <4>1. i - 1 \in 1 .. Len(s) - 1 /\ (i - 1) + 1 = i /\ i \in 1 + 1 .. 1 + Len(Tail(s))
        BY <3>1
      <4>2. toStub'[i] = Tail(s)[i - 1]
        BY <3>3, <3>4, <4>1 DEF IsJoin
      <4>3. Tail(s)[i - 1] = s[(i - 1) + 1]
        BY <3>1, <4>1
      <4> QED BY <4>1, <4>2, <4>3
    <3> QED BY <1>4, <1>8, <2>1, <3>1, <3>5, <3>6 DEF Struck
  <2>3. Clear(s)'
    BY <1>1, <1>5, <1>8 DEF Clear, Phase, Neat, Listening, Rejected, Sending, Accepted, Replying, Idle, Command
  <2> QED BY <1>4, <2>2, <2>3 DEF Hit, Struck
<1> QED BY <1>1, <1>3, <1>6, <1>7, <1>8

(* The stub reads a character in putpacket. *)
LEMMA ForgeryInPut ==
  ASSUME TypeInv, ForgeryInv, PutPacket
  PROVE  ForgeryInv'
<1>0. PICK s : s = toStub
  OBVIOUS
<1>1. /\ mode = "put" /\ s # <<>> /\ toStub' = Tail(s) /\ rx.st = "hunt" /\ s \in Seq(Char)
      /\ UNCHANGED <<rx, executed, marked, hasty>> /\ Errors' = Errors
  BY <1>0 DEF PutPacket, faults, Errors, TypeInv
<1>2. Phase(s) => Phase(toStub)' /\ Neat(toStub)'
  BY <1>0, PhasePuts DEF Neat
<1>3. Line(Commands, s) => Line(Commands, Tail(s))
  BY <1>1, LineTail, CommandFacts
<1>4. InStep(Commands, rx, Tail(s))
  BY <1>1 DEF InStep
<1>5. Errors = 0 => Clear(toStub)'
  <2>1. SUFFICES ASSUME Clear(s) PROVE Clear(toStub)'
    BY <1>0 DEF ForgeryInv
  <2> QED BY <1>1, <1>2, <1>3, <1>4, <2>1 DEF Clear
<1>6. ASSUME Hit PROVE Recovered'
  <2>1. PICK s0 \in Seq(Char) : Struck(s, s0) /\ Clear(s0)
    BY <1>0, <1>6 DEF Hit
  <2>2. s0 # <<>> /\ Tail(s) = Tail(s0)
    BY <1>1, <2>1, StruckTail
  <2>3. Line(Commands, Tail(s0))
    BY <2>1, <2>2, LineTail, CommandFacts DEF Clear
  <2> QED BY <1>1, <1>4, <2>1, <2>2, <2>3 DEF Recovered, Clear
<1>7. ~Misled
  BY <1>1 DEF Misled
<1>8. Recovered => Recovered'
  BY <1>0, <1>1, <1>2, <1>3, <1>4 DEF Recovered
<1> QED BY <1>1, <1>5, <1>6, <1>7, <1>8 DEF ForgeryInv

(* The stub reads a character in getpacket, in step, *)
LEMMA GetInStep ==
  ASSUME TypeInv, GetPacket, NEW q, q = Scan(rx, Head(toStub)),
         Line(Commands, toStub), InStep(Commands, rx, toStub)
  PROVE  /\ Line(Commands, toStub') /\ InStep(Commands, rx', toStub')
         /\ q.buffer[2] = ":" => rx.buffer[2] = ":"
         /\ q.st = "good" /\ rx.buffer[2] # ":" => Text(q) \in Commands
<1>1. /\ toStub # <<>> /\ toStub' = Tail(toStub)
      /\ GetGood(q) \/ GetBad(q) \/ GetMore(q)
  BY GetPacketCases
<1>2. Commands \subseteq Texts /\ toStub \in Seq(Char) /\ rx \in Receiver(Reading) /\ Room(rx)
  BY CommandFacts DEF TypeInv
<1>3. Line(Commands, toStub')
  BY <1>1, <1>2, LineTail
<1>4. /\ q.st \in Verdicts => \E t \in Commands : HasText(rx, t)
      /\ q.st \notin Verdicts => InStep(Commands, q, Tail(toStub))
      /\ q.buffer[2] = ":" => rx.buffer[2] = ":"
  BY <1>1, <1>2, InStepReads
<1>5. InStep(Commands, rx', toStub')
  <2>1. CASE GetGood(q) \/ GetBad(q)
    BY <2>1 DEF GetGood, GetBad, InStep
  <2>2. CASE GetMore(q)
    BY <1>1, <1>4, <2>2 DEF GetMore
  <2> QED BY <1>1, <2>1, <2>2
<1>6. ASSUME q.st = "good", rx.buffer[2] # ":" PROVE Text(q) \in Commands
  <2>1. PICK t \in Commands : HasText(rx, t)
    BY <1>4, <1>6 DEF Verdicts
  <2>2. q.buffer = rx.buffer
    BY <1>1, <1>6 DEF GetGood, GetBad, GetMore, Verdicts
  <2>3. Stored(q.buffer, t) /\ q.buffer[2] # ":"
    BY <1>6, <2>1, <2>2 DEF HasText
  <2>4. Text(q) = t
    BY <1>2, <2>1, <2>3, StoredText
  <2> QED BY <2>1, <2>4
<1> QED BY <1>3, <1>4, <1>5, <1>6

(* off, *)
LEMMA GetOff ==
  ASSUME TypeInv, GetPacket, NEW q, q = Scan(rx, Head(toStub)),
         Line(Commands, toStub), Off(Commands, rx, toStub)
  PROVE  /\ Line(Commands, toStub') /\ q.st # "good" /\ mode' = "get"
         /\ InStep(Commands, rx', toStub') \/ Off(Commands, rx', toStub')
<1>1. /\ toStub # <<>> /\ toStub' = Tail(toStub) /\ mode = "get"
      /\ GetGood(q) \/ GetBad(q) \/ GetMore(q)
  BY GetPacketCases
<1>2. Commands \subseteq Texts /\ toStub \in Seq(Char) /\ rx \in Receiver(Reading) /\ Room(rx)
  BY CommandFacts DEF TypeInv
<1>3. Line(Commands, toStub')
  BY <1>1, <1>2, LineTail
<1>4. \/ q.st = "bad" \/ q.st = "hunt"
      \/ q.st \notin Verdicts /\ (InStep(Commands, q, Tail(toStub)) \/ Off(Commands, q, Tail(toStub)))
  <2>1. CASE Adrift(rx, toStub) /\ Head(toStub) # "$"
    BY <1>1, <1>2, <2>1, AdriftReads DEF Off
  <2>2. CASE Adrift(rx, toStub) /\ Head(toStub) = "$"
    <3>1. rx.st = "body"
      BY <2>2 DEF Adrift
    <3>2. q.st = "body" /\ \E t \in Commands : InText(q, Tail(toStub), t)
      BY <1>1, <1>2, <2>2, <3>1, StartReads
    <3> QED BY <3>2 DEF InStep, Verdicts
  <2>3. CASE \E t \in Commands : OffIn(rx, toStub, t)
    <3>1. PICK t \in Commands : OffIn(rx, toStub, t)
      BY <2>3
    <3>2. q.st = "bad" \/ q.st = "hunt" \/ (q.st \notin Verdicts /\ OffIn(q, Tail(toStub), t))
      BY <1>2, <3>1, OffInReads
    <3> QED BY <3>1, <3>2 DEF Off
  <2> QED BY <2>1, <2>2, <2>3 DEF Off
<1>5. q.st # "good" /\ ~GetGood(q)
  BY <1>4 DEF Verdicts, GetGood
<1>6. CASE GetBad(q)
  BY <1>1, <1>3, <1>5, <1>6 DEF GetBad, InStep
<1>7. CASE GetMore(q)
  BY <1>1, <1>3, <1>4, <1>5, <1>7 DEF GetMore, InStep, Verdicts
<1> QED BY <1>1, <1>5, <1>6, <1>7

(* or one that is damaged. *)
LEMMA GetStruck ==
  ASSUME TypeInv, GetPacket, NEW q, q = Scan(rx, Head(toStub)), NEW s0 \in Seq(Char),
         Struck(toStub, s0), Clear(s0), rx.buffer[2] # ":"
  PROVE  /\ q.st = "good" => Text(q) \in Commands /\ ~marked'
         /\ Misled' \/ Recovered'
<1>1. /\ toStub # <<>> /\ toStub' = Tail(toStub) /\ mode = "get"
      /\ marked' = (marked \/ q.buffer[2] = ":") /\ hasty' = hasty
      /\ GetGood(q) \/ GetBad(q) \/ GetMore(q)
  BY GetPacketCases
<1>2. Commands \subseteq Texts /\ toStub \in Seq(Char) /\ rx \in Receiver(Reading) /\ Room(rx)
      /\ Telling(Commands)
  BY CommandFacts DEF TypeInv
<1>3. s0 # <<>> /\ toStub' = Tail(s0) /\ Head(toStub) \in Noise /\ Head(toStub) # Head(s0)
  BY <1>1, <1>2, StruckTail
<1>4. Line(Commands, s0) /\ InStep(Commands, rx, s0) /\ ~marked /\ (hasty = 0 => Phase(s0) /\ Neat(s0))
  BY DEF Clear
<1>5. Line(Commands, toStub')
  BY <1>2, <1>3, <1>4, LineTail
<1>6. ASSUME rx.st = "body" \/ (rx.st = "hunt" /\ Head(toStub) = "$"), hasty' = 0
      PROVE  Phase(toStub)'
  BY <1>1, <1>4, <1>6, PhaseStruck
<1>7. CASE rx.st = "hunt" /\ Head(toStub) # "$"
  <2>1. q = rx
    BY <1>7, ScanHunt
  <2>2. GetMore(q) /\ q.st = "hunt"
    BY <1>1, <1>7, <2>1 DEF GetGood, GetBad
  <2>3. InStep(Commands, rx', toStub') /\ ~marked'
    BY <1>1, <1>4, <2>1, <2>2 DEF GetMore, InStep
  <2> QED BY <1>5, <2>2, <2>3 DEF Recovered
<1>8. CASE rx.st = "hunt" /\ Head(toStub) = "$"
  <2>1. Adrift(q, Tail(s0)) \/ \E t \in Commands : OffIn(q, Tail(s0), t)
    BY <1>2, <1>3, <1>4, <1>8, StruckHunt
  <2>2. Off(Commands, q, Tail(s0)) /\ q.st = "body"
    BY <1>2, <1>8, <2>1, ScanStart DEF Off
  <2>3. rx' = q /\ mode' = "get"
    BY <1>1, <2>2 DEF GetGood, GetBad, GetMore
  <2>4. Off(Commands, rx', toStub')
    BY <1>3, <2>2, <2>3
  <2> QED BY <1>5, <1>6, <1>8, <2>2, <2>3, <2>4 DEF Misled
<1>9. CASE \E t \in Commands : InText(rx, s0, t)
  <2>1. PICK t \in Commands : InText(rx, s0, t)
    BY <1>9
  <2>2. rx.st = "body" /\ TellsMarks(t) /\ t \in Texts
    BY <1>2, <2>1 DEF InText, Telling
  <2>3. (q.st = "hunt" \/ Adrift(q, Tail(s0)) \/ OffIn(q, Tail(s0), t)) /\ q.st \notin Verdicts
    BY <1>2, <1>3, <2>1, <2>2, StruckText
  <2>4. rx' = q /\ mode' = "get" /\ q.st # "good"
    BY <1>1, <2>3 DEF GetGood, GetBad, GetMore, Verdicts
  <2>5. CASE q.st = "hunt"
    <3>1. InStep(Commands, rx', toStub')
      BY <2>4, <2>5 DEF InStep
    <3> QED BY <1>5, <1>6, <2>2, <2>4, <3>1 DEF Recovered
  <2>6. CASE Adrift(q, Tail(s0)) \/ OffIn(q, Tail(s0), t)
    <3>1. Off(Commands, rx', toStub')
      BY <1>3, <2>1, <2>4, <2>6 DEF Off
    <3> QED BY <1>5, <1>6, <2>2, <2>4, <3>1 DEF Misled
  <2> QED BY <2>3, <2>5, <2>6
<1>10. CASE \E t \in Commands : HasText(rx, t)
  <2>1. PICK t \in Commands : HasText(rx, t)
    BY <1>10
  <2>2. q.buffer = rx.buffer /\ ((q.st = "lo" /\ HasText(q, t)) \/ q.st \in Verdicts)
    BY <1>2, <2>1, HasTextReads
  <2>3. ~marked'
    BY <1>1, <1>4, <2>2
  <2>4. Stored(q.buffer, t) /\ Text(q) = t
    BY <1>2, <2>1, <2>2, StoredText DEF HasText
  <2>5. InStep(Commands, rx', toStub')
    <3>1. CASE GetGood(q) \/ GetBad(q)
      BY <3>1 DEF GetGood, GetBad, InStep
    <3>2. CASE GetMore(q)
      BY <2>1, <2>2, <3>2 DEF GetMore, InStep
    <3> QED BY <1>1, <3>1, <3>2
  <2> QED BY <1>5, <2>1, <2>3, <2>4, <2>5 DEF Recovered
<1> QED BY <1>4, <1>7, <1>8, <1>9, <1>10 DEF InStep

(* All cases of a character read in getpacket. *)
LEMMA ForgeryInGet ==
  ASSUME TypeInv, ForgeryInv, GetPacket
  PROVE  ForgeryInv'
<1>0. PICK q : q = Scan(rx, Head(toStub))
  OBVIOUS
<1>1. /\ marked' = (marked \/ q.buffer[2] = ":") /\ rx'.buffer = q.buffer
      /\ hasty' = hasty /\ Errors' = Errors
      /\ GetGood(q) \/ GetBad(q) \/ GetMore(q)
  BY <1>0, GetPacketCases DEF Errors
<1>2. /\ Errors \in Nat /\ hasty \in Nat
  BY DEF TypeInv, Errors
<1>3. (Errors <= 1 /\ ~marked => rx.buffer[2] # ":")'
  BY <1>1
<1>4. ASSUME Errors = 0 \/ Errors = 1, ~marked PROVE rx.buffer[2] # ":"
  <2>1. Errors <= 1
    BY <1>4
  <2> QED BY <1>4, <2>1 DEF ForgeryInv
<1>5. Phase(toStub) => /\ Phase(toStub)' /\ (Neat(toStub) => Neat(toStub)')
                       /\ q.st = "good" => Text(q) \in Commands
  BY <1>0, PhaseGets
<1>6. ASSUME Errors = 0
      PROVE  Clear(toStub)' /\ (q.st = "good" => Text(q) \in Commands)
  <2>1. Line(Commands, toStub) /\ InStep(Commands, rx, toStub) /\ ~marked
        /\ (hasty = 0 => Phase(toStub) /\ Neat(toStub))
    BY <1>6 DEF ForgeryInv, Clear
  <2>2. rx.buffer[2] # ":"
    BY <1>4, <1>6, <2>1
  <2>3. /\ Line(Commands, toStub') /\ InStep(Commands, rx', toStub')
        /\ q.buffer[2] # ":" /\ (q.st = "good" => Text(q) \in Commands)
    BY <1>0, <2>1, <2>2, GetInStep
  <2> QED BY <1>1, <1>5, <2>1, <2>3 DEF Clear
<1>7. ASSUME Errors = 1, Recovered
      PROVE  Recovered' /\ (q.st = "good" /\ ~(marked' /\ hasty' > 0) => Text(q) \in Commands)
  <2>1. Line(Commands, toStub) /\ InStep(Commands, rx, toStub) /\ (marked /\ hasty = 0 => Phase(toStub))
    BY <1>7 DEF Recovered
  <2>2. /\ Line(Commands, toStub') /\ InStep(Commands, rx', toStub')
        /\ q.buffer[2] = ":" => rx.buffer[2] = ":"
        /\ q.st = "good" /\ rx.buffer[2] # ":" => Text(q) \in Commands
    BY <1>0, <2>1, GetInStep
  <2>3. marked' => marked
    BY <1>1, <1>4, <1>7, <2>2
  <2>4. Recovered'
    BY <1>1, <1>5, <2>1, <2>2, <2>3 DEF Recovered
  <2>5. CASE ~marked
    BY <1>4, <1>7, <2>2, <2>4, <2>5
  <2>6. CASE marked
    <3>1. hasty > 0 \/ hasty = 0
      BY <1>2
    <3>2. marked' /\ hasty' = hasty
      BY <1>1, <2>6
    <3> QED BY <1>5, <2>1, <2>4, <2>6, <3>1, <3>2
  <2> QED BY <2>5, <2>6
<1>8. ASSUME Errors = 1, Misled
      PROVE  (Misled' \/ Recovered') /\ q.st # "good"
  <2>1. Line(Commands, toStub) /\ Off(Commands, rx, toStub) /\ (hasty = 0 => Phase(toStub))
    BY <1>8 DEF Misled
  <2>2. /\ Line(Commands, toStub') /\ q.st # "good" /\ mode' = "get"
        /\ InStep(Commands, rx', toStub') \/ Off(Commands, rx', toStub')
    BY <1>0, <2>1, GetOff
  <2> QED BY <1>1, <1>5, <2>1, <2>2 DEF Misled, Recovered
<1>9. ASSUME Errors = 1, Hit
      PROVE  (Misled' \/ Recovered') /\ (q.st = "good" => Text(q) \in Commands)
  <2>1. PICK s0 \in Seq(Char) : Struck(toStub, s0) /\ Clear(s0)
    BY <1>9 DEF Hit
  <2>2. rx.buffer[2] # ":"
    BY <1>4, <1>9, <2>1 DEF Clear
  <2> QED BY <1>0, <2>1, <2>2, GetStruck
<1>10. Errors <= 1 => Errors = 0 \/ Errors = 1
  BY <1>2
<1>11. Errors = 1 => Hit \/ Misled \/ Recovered
  BY DEF ForgeryInv
<1>12. ASSUME Errors <= 1, ~(marked' /\ hasty' > 0) PROVE executed' \in Seq(Commands)
  <2>1. executed \in Seq(Commands)
    BY <1>1, <1>12 DEF ForgeryInv
  <2>2. q.st = "good" => Text(q) \in Commands
    BY <1>6, <1>7, <1>8, <1>9, <1>10, <1>11, <1>12
  <2>3. CASE GetGood(q)
    <3>1. q.st = "good" /\ executed' = Append(executed, Text(q))
      BY <2>3 DEF GetGood
    <3> QED BY <2>1, <2>2, <3>1
  <2>4. CASE GetBad(q) \/ GetMore(q)
    BY <2>1, <2>4 DEF GetBad, GetMore
  <2> QED BY <1>1, <2>3, <2>4
<1>13. (Errors = 0 => Clear(toStub))'
  BY <1>1, <1>6
<1>14. (Errors = 1 => Hit \/ Misled \/ Recovered)'
  BY <1>1, <1>7, <1>8, <1>9, <1>11
<1>15. (Errors <= 1 /\ ~(marked /\ hasty > 0) => executed \in Seq(Commands))'
  BY <1>1, <1>12
<1> QED BY <1>3, <1>13, <1>14, <1>15 DEF ForgeryInv

-----------------------------------------------------------------------------
(* The theorems *)

(* The invariant holds at the start, *)
LEMMA ForgeryAtStart == Init => ForgeryInv
<1> SUFFICES ASSUME Init PROVE ForgeryInv
  OBVIOUS
<1>1. /\ toStub = <<>> /\ toHost = <<>> /\ rx = Empty /\ mode = "get" /\ executed = <<>> /\ marked = FALSE
      /\ lost = 0 /\ damaged = 0 /\ host = [st |-> "idle", at |-> 0, rx |-> Empty]
  BY DEF Init
<1>2. Errors = 0
  BY <1>1 DEF Errors
<1>3. rx.st = "hunt" /\ rx.buffer[2] # ":" /\ host.rx.st = "hunt" /\ host.st = "idle"
  BY <1>1, EmptyReceiver
<1>4. Line(Commands, <<>>)
  BY LineEmpty
<1>5. Idle(<<>>)
  BY <1>1, <1>3 DEF Idle
<1>6. Phase(<<>>) /\ Neat(<<>>)
  BY <1>1, <1>3, <1>5 DEF Phase, Neat, First
<1>7. Clear(<<>>)
  BY <1>1, <1>3, <1>4, <1>6 DEF Clear, InStep
<1>8. executed \in Seq(Commands)
  BY <1>1
<1> QED BY <1>1, <1>2, <1>3, <1>7, <1>8 DEF ForgeryInv

(* when nothing happens, *)
LEMMA NothingChanges ==
  ASSUME TypeInv, ForgeryInv, UNCHANGED vars
  PROVE  TypeInv' /\ ForgeryInv'
<1>1. /\ toStub' = toStub /\ toHost' = toHost /\ rx' = rx /\ mode' = mode /\ out' = out /\ host' = host
      /\ executed' = executed /\ marked' = marked /\ lost' = lost /\ damaged' = damaged /\ hasty' = hasty
  BY DEF vars, faults
<1>2. TypeInv'
  BY <1>1 DEF TypeInv
<1>3. ForgeryInv'
  BY <1>1 DEF ForgeryInv, Errors, Clear, Hit, Misled, Recovered, Phase, Neat, Listening, Rejected,
              Sending, Accepted, Replying, Idle, Command
<1> QED BY <1>2, <1>3

(* Every variable keeps its type; in particular getpacket never writes      *)
(* behind remcomInBuffer, whatever the line does to the characters.         *)
THEOREM LinkTypes == Spec => []TypeInv
<1>1. TypeInv /\ [Next]_vars => TypeInv'
  <2> SUFFICES ASSUME TypeInv, [Next]_vars PROVE TypeInv'
    OBVIOUS
  <2>1. CASE GetPacket
    BY <2>1, TypesInGet
  <2>2. CASE PutPacket
    BY <2>2, TypesInPut
  <2>3. CASE SendCommand
    BY <2>3, TypesInSend
  <2>4. CASE AwaitAck
    BY <2>4, AwaitAckCases
  <2>5. CASE AwaitReply
    BY <2>5, AwaitReplyCases
  <2>6. CASE TimeOut \/ TimeOutEarly
    <3>1. Repeat /\ hasty' \in Nat
      BY <2>6 DEF TimeOut, TimeOutEarly, TypeInv
    <3> QED BY <3>1, RepeatCases
  <2>7. CASE Lose \/ Corrupt
    BY <2>7, TypesInFaults
  <2>8. CASE UNCHANGED vars
    BY <2>8 DEF TypeInv, vars, faults
  <2> QED BY <2>1, <2>2, <2>3, <2>4, <2>5, <2>6, <2>7, <2>8 DEF Next, Finished
<1> QED BY <1>1, TypesAtStart, PTL DEF Spec

(* and always. *)
LEMMA ForgeryInvariant == Spec => [](TypeInv /\ ForgeryInv)
<1>1. TypeInv /\ ForgeryInv /\ [Next]_vars => (TypeInv /\ ForgeryInv)'
  <2> SUFFICES ASSUME TypeInv, ForgeryInv, [Next]_vars PROVE TypeInv' /\ ForgeryInv'
    OBVIOUS
  <2>1. CASE GetPacket
    BY <2>1, TypesInGet, ForgeryInGet
  <2>2. CASE PutPacket
    BY <2>2, TypesInPut, ForgeryInPut
  <2>3. CASE SendCommand \/ AwaitAck \/ AwaitReply \/ TimeOut \/ TimeOutEarly
    BY <2>3, ForgeryInHost
  <2>4. CASE Lose \/ Corrupt
    BY <2>4, TypesInFaults, ForgeryInFaults
  <2>5. CASE UNCHANGED vars
    BY <2>5, NothingChanges
  <2> QED BY <2>1, <2>2, <2>3, <2>4, <2>5 DEF Next, Finished
<1> QED BY <1>1, TypesAtStart, ForgeryAtStart, PTL DEF Spec

(* As long as at most one character of the session is lost or damaged, the  *)
(* stub carries out nothing the host did not send, however often the host   *)
(* repeats, but for the `:' a damaged packet left in third place: with that *)
(* one the host must not have repeated too early.                           *)
THEOREM NothingIsForged == Spec => []NothingForged
<1>1. TypeInv /\ ForgeryInv => NothingForged
  <2> SUFFICES ASSUME ForgeryInv, Errors <= 1, ~(marked /\ hasty > 0), NEW i \in DOMAIN executed
               PROVE  executed[i] \in Commands
    BY DEF NothingForged
  <2>1. executed \in Seq(Commands)
    BY DEF ForgeryInv
  <2> QED BY <2>1
<1> QED BY <1>1, ForgeryInvariant, PTL
=============================================================================
