--------------------------- MODULE PathNormProofs ---------------------------
(***************************************************************************)
(* The properties of PathNorm for paths of any length over any characters  *)
(* and for buffers of any size.                                            *)
(*                                                                         *)
(* Three facts about the loops carry the proofs.  What the parts of a path *)
(* take up in the output (Weight) never exceeds what its tokens took up in *)
(* the input, so nothing overflows.  The parts of an absolute path are the *)
(* place where the walk along it ends.  And writing the parts with slashes *)
(* between them loses nothing: splitting the result gives them back.       *)
(***************************************************************************)
EXTENDS PathNorm, SequenceTheorems, WellFoundedInduction, TLAPS

Str  == Seq(Chars)
Strs == Seq(Str)

-----------------------------------------------------------------------------
(* Induction over numbers and over sequences, with a set in the place of   *)
(* the predicate.                                                          *)

(* A set that has 0 and with n also n + 1 has every natural number.        *)
LEMMA NatSetInduction ==
  ASSUME NEW A, 0 \in A, \A n \in Nat : n \in A => n + 1 \in A
  PROVE  Nat \subseteq A
<1> DEFINE T == Nat \ A
           R == {ss \in Nat \X Nat : ss[1] < ss[2]}
<1>1. SUFFICES ASSUME T # {} PROVE FALSE
  OBVIOUS
<1>2. IsWellFoundedOn(R, Nat)
  BY NatLessThanWellFounded DEF OpToRel
<1>3. PICK x \in T : \A y \in T : ~ (<<y, x>> \in R)
  <2> HIDE DEF R
  <2> QED BY <1>1, <1>2, WFMin
<1>4. x \in Nat /\ x - 1 \in Nat
  BY <1>3
<1>5. <<x - 1, x>> \in R
  BY <1>4
<1>6. x - 1 \in A
  BY <1>3, <1>4, <1>5
<1> QED BY <1>3, <1>4, <1>6

(* The same up to a bound.                                                 *)
LEMMA IndexInduction ==
  ASSUME NEW n \in Nat, NEW A, 0 \in A, \A k \in 1 .. n : k - 1 \in A => k \in A
  PROVE  \A k \in 0 .. n : k \in A
<1> DEFINE B == {k \in Nat : k <= n => k \in A}
<1>1. 0 \in B
  OBVIOUS
<1>2. \A k \in Nat : k \in B => k + 1 \in B
  <2> TAKE k \in Nat
  <2> HAVE k \in B
  <2>1. CASE k + 1 <= n
    <3>1. k \in A /\ k + 1 \in 1 .. n /\ (k + 1) - 1 = k
      BY <2>1
    <3> QED BY <3>1
  <2>2. CASE ~(k + 1 <= n)
    BY <2>2
  <2> QED BY <2>1, <2>2
<1>3. Nat \subseteq B
  <2> HIDE DEF B
  <2> QED BY <1>1, <1>2, NatSetInduction
<1> QED BY <1>3

(* A nonempty sequence is its front and its last element.                  *)
LEMMA FrontLast ==
  ASSUME NEW S, NEW s \in Seq(S), s # <<>>
  PROVE  /\ Front(s) \in Seq(S) /\ Last(s) \in S
         /\ Len(Front(s)) = Len(s) - 1 /\ Len(s) \in Nat \ {0}
         /\ s = Append(Front(s), Last(s))
<1>1. Len(s) \in Nat \ {0}
  BY EmptySeq
<1>2. \A i \in 1 .. Len(s) - 1 : s[i] \in S
  BY <1>1
<1>3. /\ SubSeq(s, 1, Len(s) - 1) \in Seq(S)
      /\ Len(SubSeq(s, 1, Len(s) - 1)) = Len(s) - 1
      /\ \A i \in 1 .. Len(s) - 1 : SubSeq(s, 1, Len(s) - 1)[i] = s[i]
  <2> DEFINE n == Len(s) - 1
  <2>1. n \in Int /\ \A i \in 1 .. n : s[i] \in S
    BY <1>1, <1>2
  <2> HIDE DEF n
  <2>2. /\ SubSeq(s, 1, n) \in Seq(S)
        /\ Len(SubSeq(s, 1, n)) = IF 1 <= n THEN n - 1 + 1 ELSE 0
        /\ \A i \in 1 .. n - 1 + 1 : SubSeq(s, 1, n)[i] = s[1 + i - 1]
    BY <2>1, SubSeqProperties
  <2>3. n >= 0
    BY <1>1 DEF n
  <2>4. SubSeq(s, 1, n) \in Seq(S) /\ Len(SubSeq(s, 1, n)) = n
        /\ \A i \in 1 .. n : SubSeq(s, 1, n)[i] = s[i]
    BY <2>1, <2>2, <2>3
  <2> QED BY <2>4 DEF n
<1>4. s[Len(s)] \in S
  BY <1>1
<1>5. s = Append(SubSeq(s, 1, Len(s) - 1), s[Len(s)])
  BY <1>1, <1>3, <1>4
<1> QED BY <1>1, <1>3, <1>4, <1>5 DEF Front, Last

(* A set that has the empty sequence and with a sequence all its           *)
(* extensions by one element has every sequence.                           *)
LEMMA SeqSetInduction ==
  ASSUME NEW S, NEW A, <<>> \in A,
         \A s \in Seq(S), c \in S : s \in A => Append(s, c) \in A
  PROVE  Seq(S) \subseteq A
<1> DEFINE B == {n \in Nat : \A s \in Seq(S) : Len(s) = n => s \in A}
<1>1. 0 \in B
  BY EmptySeq
<1>2. \A n \in Nat : n \in B => n + 1 \in B
  <2> TAKE n \in Nat
  <2> HAVE n \in B
  <2>1. ASSUME NEW s \in Seq(S), Len(s) = n + 1 PROVE s \in A
    <3>1. s # <<>>
      BY <2>1, EmptySeq
    <3>2. Front(s) \in Seq(S) /\ Last(s) \in S /\ Len(Front(s)) = n
          /\ s = Append(Front(s), Last(s))
      BY <2>1, <3>1, FrontLast
    <3>3. Front(s) \in A
      BY <3>2
    <3> QED BY <3>2, <3>3
  <2> QED BY <2>1
<1>3. Nat \subseteq B
  <2> HIDE DEF B
  <2> QED BY <1>1, <1>2, NatSetInduction
<1> QED BY <1>3

-----------------------------------------------------------------------------
(* Loops.  The step is a function here, so that one lemma serves them all. *)

IsLoop(at, F, init, s, S) ==
  /\ at \in [0 .. Len(s) -> S]
  /\ at[0] = init
  /\ \A k \in 1 .. Len(s) : at[k] = F[<<at[k - 1], s[k]>>]

(* A loop whose step maps what it holds and an element to what it holds    *)
(* next has a value after every element.                                   *)
LEMMA LoopExists ==
  ASSUME NEW S, NEW E, NEW F \in [S \X E -> S], NEW s \in Seq(E), NEW init \in S
  PROVE  \E at : IsLoop(at, F, init, s, S)
<1> DEFINE Good(n, at) == /\ at \in [0 .. n -> S]
                          /\ at[0] = init
                          /\ \A k \in 1 .. n : at[k] = F[<<at[k - 1], s[k]>>]
           A == {n \in 0 .. Len(s) : \E at : Good(n, at)}
<1>0. Len(s) \in Nat
  OBVIOUS
<1>1. 0 \in A
  <2>1. Good(0, [k \in 0 .. 0 |-> init])
    OBVIOUS
  <2> HIDE DEF Good
  <2> QED BY <1>0, <2>1
<1>2. ASSUME NEW n \in 1 .. Len(s), n - 1 \in A PROVE n \in A
  <2>1. PICK at : Good(n - 1, at)
    BY <1>2
  <2> DEFINE bt == [k \in 0 .. n |-> IF k = n THEN F[<<at[n - 1], s[n]>>] ELSE at[k]]
  <2>2. at \in [0 .. (n - 1) -> S] /\ at[0] = init
        /\ \A k \in 1 .. (n - 1) : at[k] = F[<<at[k - 1], s[k]>>]
    BY <2>1
  <2>3. s[n] \in E /\ at[n - 1] \in S
    BY <2>2, <1>0
  <2>4. F[<<at[n - 1], s[n]>>] \in S
    BY <2>3
  <2>5. bt \in [0 .. n -> S] /\ bt[0] = init
    BY <2>2, <2>4
  <2>6. ASSUME NEW k \in 1 .. n PROVE bt[k] = F[<<bt[k - 1], s[k]>>]
    <3>1. bt[k - 1] = at[k - 1]
      OBVIOUS
    <3>2. CASE k = n
      <4>1. bt[n] = F[<<at[n - 1], s[n]>>]
        OBVIOUS
      <4> QED BY <3>1, <3>2, <4>1
    <3>3. CASE k # n
      <4>1. bt[k] = at[k] /\ k \in 1 .. (n - 1)
        BY <3>3
      <4>2. at[k] = F[<<at[k - 1], s[k]>>]
        BY <2>2, <4>1
      <4> QED BY <3>1, <4>1, <4>2
    <3> QED BY <3>2, <3>3
  <2>7. Good(n, bt)
    BY <2>5, <2>6
  <2> HIDE DEF Good, bt
  <2> QED BY <2>7
<1>3. \A n \in 0 .. Len(s) : n \in A
  <2> HIDE DEF A
  <2> QED BY <1>0, <1>1, <1>2, IndexInduction
<1>4. PICK at : Good(Len(s), at)
  BY <1>0, <1>3
<1>5. IsLoop(at, F, init, s, S)
  BY <1>4 DEF IsLoop
<1> QED BY <1>5

(* Two loops that agree on the first elements hold the same after them.    *)
LEMMA LoopsAgree ==
  ASSUME NEW n \in Nat, NEW f, NEW g, f[0] = g[0],
         \A k \in 1 .. n : f[k - 1] = g[k - 1] => f[k] = g[k]
  PROVE  \A k \in 0 .. n : f[k] = g[k]
<1> DEFINE A == {k \in 0 .. n : f[k] = g[k]}
<1>1. 0 \in A /\ \A k \in 1 .. n : k - 1 \in A => k \in A
  OBVIOUS
<1>2. \A k \in 0 .. n : k \in A
  <2> HIDE DEF A
  <2> QED BY <1>1, IndexInduction
<1> QED BY <1>2

(* Elements of an extended sequence.                                       *)
LEMMA AppendFacts ==
  ASSUME NEW E, NEW s \in Seq(E), NEW c \in E
  PROVE  /\ Append(s, c) \in Seq(E) /\ Append(s, c) # <<>>
         /\ Len(s) \in Nat /\ Len(Append(s, c)) = Len(s) + 1
         /\ \A k \in 1 .. Len(s) : Append(s, c)[k] = s[k] /\ s[k] \in E
         /\ Append(s, c)[Len(s) + 1] = c
<1>1. Len(s) \in Nat /\ Len(Append(s, c)) = Len(s) + 1 /\ Append(s, c) \in Seq(E)
  OBVIOUS
<1>2. Append(s, c) # <<>>
  BY <1>1, EmptySeq
<1> QED BY <1>1, <1>2

(* f is a function on the steps of a loop over s.                          *)
OnSteps(f, s) == f = [k \in 0 .. Len(s) |-> f[k]]

(* A function that meets a loop's equation as long as it stays in S is     *)
(* that loop.                                                              *)
LEMMA LoopTyped ==
  ASSUME NEW S, NEW E, NEW F, NEW s \in Seq(E), NEW init, NEW at, NEW f,
         IsLoop(at, F, init, s, S), OnSteps(f, s), f[0] = init,
         \A k \in 1 .. Len(s) : f[k - 1] \in S => f[k] = F[<<f[k - 1], s[k]>>]
  PROVE  IsLoop(f, F, init, s, S)
<1>1. Len(s) \in Nat
  OBVIOUS
<1>2. /\ at \in [0 .. Len(s) -> S] /\ at[0] = f[0]
      /\ \A k \in 1 .. Len(s) : at[k] = F[<<at[k - 1], s[k]>>]
  BY DEF IsLoop
<1>3. ASSUME NEW k \in 1 .. Len(s), f[k - 1] = at[k - 1] PROVE f[k] = at[k]
  <2>1. at[k - 1] \in S
    BY <1>1, <1>2
  <2> QED BY <1>2, <1>3, <2>1
<1>4. \A k \in 0 .. Len(s) : f[k] = at[k]
  <2>1. f[0] = at[0] /\ \A k \in 1 .. Len(s) : f[k - 1] = at[k - 1] => f[k] = at[k]
    BY <1>2, <1>3
  <2> QED BY <1>1, <2>1, LoopsAgree
<1>5. \A k \in 0 .. Len(s) : at[k] \in S
  BY <1>2
<1>6. f \in [0 .. Len(s) -> S]
  BY <1>4, <1>5 DEF OnSteps
<1>7. \A k \in 1 .. Len(s) : f[k - 1] \in S
  BY <1>1, <1>6
<1> QED BY <1>6, <1>7 DEF IsLoop

(* t is s and c after it.                                                  *)
Extends(t, s, c) ==
  /\ Len(s) \in Nat /\ Len(t) = Len(s) + 1
  /\ \A k \in 1 .. Len(s) : t[k] = s[k]
  /\ t[Len(s) + 1] = c

(* Two loops hold the same after each element of s.                        *)
SameSteps(f, g, s) == \A k \in 0 .. Len(s) : g[k] = f[k]

(* A loop over one more element does what it did before, and one step.     *)
LEMMA LoopAppend ==
  ASSUME NEW S, NEW F, NEW s, NEW t, NEW c, NEW init, NEW f, NEW g, Extends(t, s, c),
         IsLoop(f, F, init, s, S), IsLoop(g, F, init, t, S)
  PROVE  /\ SameSteps(f, g, s)
         /\ f[Len(s)] \in S
         /\ g[Len(t)] = F[<<f[Len(s)], c>>]
<1>1. /\ Len(s) \in Nat /\ Len(t) = Len(s) + 1
      /\ \A k \in 1 .. Len(s) : t[k] = s[k]
      /\ t[Len(s) + 1] = c
  BY DEF Extends
<1>2. /\ f \in [0 .. Len(s) -> S] /\ f[0] = init
      /\ \A k \in 1 .. Len(s) : f[k] = F[<<f[k - 1], s[k]>>]
  BY DEF IsLoop
<1>3. /\ g[0] = init
      /\ \A k \in 1 .. (Len(s) + 1) : g[k] = F[<<g[k - 1], t[k]>>]
  BY <1>1 DEF IsLoop
<1>4. \A k \in 1 .. Len(s) : g[k] = F[<<g[k - 1], s[k]>>]
  BY <1>1, <1>3
<1>5. \A k \in 0 .. Len(s) : g[k] = f[k]
  <2>1. \A k \in 1 .. Len(s) : g[k - 1] = f[k - 1] => g[k] = f[k]
    BY <1>2, <1>4
  <2>2. g[0] = f[0] /\ Len(s) \in Nat
    BY <1>1, <1>2, <1>3
  <2> QED BY <2>1, <2>2, LoopsAgree
<1>6. g[Len(s) + 1] = F[<<g[Len(s)], c>>]
  <2>1. Len(s) + 1 \in 1 .. (Len(s) + 1) /\ (Len(s) + 1) - 1 = Len(s)
    BY <1>1
  <2> QED BY <1>1, <1>3, <2>1
<1>7. g[Len(s)] = f[Len(s)] /\ f[Len(s)] \in S
  BY <1>1, <1>2, <1>5
<1> QED BY <1>1, <1>5, <1>6, <1>7 DEF SameSteps

-----------------------------------------------------------------------------
(* The tokens of a string, by the last character of the string.            *)

TokenLists == Strs \ {<<>>}

(* strsep keeps the list of tokens one that has a last token to extend.    *)
LEMMA SplitType ==
  ASSUME NEW tokens \in TokenLists, NEW c \in Chars
  PROVE  split(tokens, c) \in TokenLists
<1>1. tokens \in Seq(Str) /\ Len(tokens) \in Nat \ {0}
  BY EmptySeq DEF TokenLists, Strs
<1>2. <<>> \in Str
  BY EmptySeq DEF Str
<1>3. Append(tokens[Len(tokens)], c) \in Str
  <2>1. tokens[Len(tokens)] \in Seq(Chars)
    BY <1>1 DEF Str
  <2> QED BY <2>1 DEF Str
<1>4. CASE c = "/"
  BY <1>1, <1>2, <1>4, AppendFacts DEF split, TokenLists, Strs
<1>5. CASE c # "/"
  <2>1. split(tokens, c) = [tokens EXCEPT ![Len(tokens)] = Append(tokens[Len(tokens)], c)]
    BY <1>5 DEF split
  <2>2. /\ [tokens EXCEPT ![Len(tokens)] = Append(tokens[Len(tokens)], c)] \in Seq(Str)
        /\ Len([tokens EXCEPT ![Len(tokens)] = Append(tokens[Len(tokens)], c)]) = Len(tokens)
    BY <1>1, <1>3, ExceptSeq
  <2> QED BY <1>1, <2>1, <2>2, EmptySeq DEF TokenLists, Strs
<1> QED BY <1>4, <1>5

SplitF == [x \in TokenLists \X Chars |-> split(x[1], x[2])]

(* The loop over the characters of a string.                               *)
LEMMA TokensLoop ==
  ASSUME NEW s \in Seq(Chars)
  PROVE  IsLoop(Loop(split, << <<>> >>, s), SplitF, << <<>> >>, s, TokenLists)
<1> DEFINE init == << <<>> >>
           f == Loop(split, init, s)
           Eq(at) == at = [k \in 0 .. Len(s) |->
                             IF k = 0 THEN init ELSE split(at[k - 1], s[k])]
<1>1. init \in TokenLists
  BY EmptySeq, AppendFacts DEF TokenLists, Strs, Str
<1> HIDE DEF init
<1>2. SplitF \in [TokenLists \X Chars -> TokenLists]
  BY SplitType DEF SplitF
<1>3. PICK at : IsLoop(at, SplitF, init, s, TokenLists)
  BY <1>1, <1>2, LoopExists
<1>4. ASSUME NEW x \in TokenLists, NEW k \in 1 .. Len(s)
      PROVE  SplitF[<<x, s[k]>>] = split(x, s[k])
  <2>1. s[k] \in Chars
    OBVIOUS
  <2> QED BY <2>1 DEF SplitF
<1>5. Eq(at)
  <2>1. /\ at \in [0 .. Len(s) -> TokenLists] /\ at[0] = init
        /\ \A k \in 1 .. Len(s) : at[k] = SplitF[<<at[k - 1], s[k]>>]
    BY <1>3 DEF IsLoop
  <2>2. \A k \in 1 .. Len(s) : at[k - 1] \in TokenLists
    BY <2>1
  <2>3. \A k \in 1 .. Len(s) : at[k] = split(at[k - 1], s[k])
    BY <1>4, <2>1, <2>2
  <2> QED BY <2>1, <2>3
<1>6. Eq(f)
  BY <1>5, Zenon DEF Loop
<1> HIDE DEF f
<1>7. f[0] = init /\ \A k \in 1 .. Len(s) : f[k] = split(f[k - 1], s[k])
  BY <1>6
<1>8. \A k \in 1 .. Len(s) : f[k - 1] \in TokenLists => f[k] = SplitF[<<f[k - 1], s[k]>>]
  BY <1>4, <1>7
<1>9. OnSteps(f, s)
  BY <1>6 DEF OnSteps
<1>10. IsLoop(f, SplitF, init, s, TokenLists)
  BY <1>3, <1>7, <1>8, <1>9, LoopTyped
<1> QED BY <1>10 DEF f, init

(* The tokens of a string by the last character of the string.             *)
LEMMA TokensAppend ==
  ASSUME NEW s \in Seq(Chars), NEW c \in Chars
  PROVE  /\ Tokens(<<>>) = << <<>> >>
         /\ Tokens(s) \in TokenLists
         /\ Tokens(Append(s, c)) = split(Tokens(s), c)
<1> DEFINE init == << <<>> >>
           t == Append(s, c)
           f == Loop(split, init, s)
           g == Loop(split, init, t)
           h == Loop(split, init, <<>>)
<1>1. <<>> \in Seq(Chars) /\ Len(<<>>) = 0 /\ Append(s, c) \in Seq(Chars)
  BY EmptySeq, AppendFacts
<1>2. IsLoop(f, SplitF, init, s, TokenLists) /\ IsLoop(h, SplitF, init, <<>>, TokenLists)
      /\ IsLoop(g, SplitF, init, t, TokenLists)
  BY <1>1, TokensLoop
<1>3. /\ f[Len(s)] = Tokens(s) /\ h[Len(<<>>)] = Tokens(<<>>)
      /\ g[Len(t)] = Tokens(Append(s, c))
  BY DEF Tokens
<1>4. Extends(t, s, c)
  BY AppendFacts DEF Extends
<1> HIDE DEF f, g, h, init, t
<1>5. g[Len(t)] = SplitF[<<f[Len(s)], c>>] /\ f[Len(s)] \in TokenLists
  BY <1>2, <1>4, LoopAppend
<1>6. SplitF[<<f[Len(s)], c>>] = split(f[Len(s)], c)
  BY <1>5 DEF SplitF
<1>7. h[Len(<<>>)] = init
  BY <1>1, <1>2 DEF IsLoop
<1> QED BY <1>3, <1>5, <1>6, <1>7 DEF init, t

-----------------------------------------------------------------------------
(* The other loops.                                                        *)

(* A result of path_normalize_lexical: a string, or false.                 *)
Outs == Str \cup {Fail}

(* false is no string.                                                     *)
LEMMA FailNotStr == Fail \notin Str /\ Len(Fail) = 1
<1>1. Len(Fail) = 1 /\ Fail[1] = "false"
  BY DEF Fail
<1>2. ASSUME Fail \in Str PROVE FALSE
  <2>1. Fail \in Seq(Chars) /\ 1 \in 1 .. Len(Fail)
    BY <1>1, <1>2 DEF Str
  <2>2. Fail[1] \in Chars
    <3> HIDE DEF Fail
    <3> QED BY <2>1, ElementOfSeq
  <2> QED BY <1>1, <2>2, PathNormAssumption
<1> QED BY <1>1, <1>2

(* The constant strings.                                                   *)
LEMMA ConstStr ==
  /\ <<>> \in Str /\ Slash \in Str /\ Dot \in Str /\ DotDot \in Str
  /\ Len(<<>>) = 0 /\ Len(Slash) = 1 /\ Len(Dot) = 1
  /\ Slash = Append(<<>>, "/") /\ "/" \in Chars /\ "." \in Chars
<1>1. "/" \in Chars /\ "." \in Chars
  BY PathNormAssumption
<1> QED BY <1>1, EmptySeq DEF Str, Slash, Dot, DotDot

(* The body of the loop over the tokens keeps parts a list of strings.     *)
LEMMA PushType ==
  ASSUME NEW parts \in Strs, NEW token \in Str, NEW absolute
  PROVE  push(parts, token, absolute) \in Strs
<1>1. Append(parts, token) \in Strs
  BY DEF Strs
<1>2. parts # <<>> => Front(parts) \in Strs
  BY FrontLast DEF Strs
<1> QED BY <1>1, <1>2 DEF push

(* So does a step of the walk.                                             *)
LEMMA VisitType ==
  ASSUME NEW dir \in Strs, NEW token \in Str
  PROVE  visit(dir, token) \in Strs
<1>1. Append(dir, token) \in Strs
  BY DEF Strs
<1>2. dir # <<>> => Front(dir) \in Strs
  BY FrontLast DEF Strs
<1> QED BY <1>1, <1>2 DEF visit

(* append_str fails, or what it leaves in out is a string that fits.       *)
LEMMA AppendStrType ==
  ASSUME NEW out \in Outs, NEW s \in Str
  PROVE  /\ append_str(out, s) \in Outs
         /\ append_str(out, s) # Fail => /\ out # Fail /\ append_str(out, s) = out \o s
                                         /\ Len(append_str(out, s)) = Len(out) + Len(s)
                                         /\ Len(append_str(out, s)) < PATH_MAX
         /\ out # Fail /\ Len(out) + Len(s) < PATH_MAX => append_str(out, s) # Fail
<1>1. CASE out = Fail
  BY <1>1 DEF append_str, Outs
<1>2. CASE out # Fail
  <2>1. out \in Seq(Chars) /\ s \in Seq(Chars)
    BY <1>2 DEF Outs, Str
  <2>2. out \o s \in Str /\ Len(out \o s) = Len(out) + Len(s) /\ Len(out) \in Nat /\ Len(s) \in Nat
    BY <2>1 DEF Str
  <2>3. out \o s # Fail
    BY <2>2, FailNotStr
  <2>4. PATH_MAX \in Nat
    BY PathNormAssumption
  <2>5. CASE Len(s) >= PATH_MAX - Len(out)
    BY <1>2, <2>2, <2>4, <2>5 DEF append_str, Outs
  <2>6. CASE ~(Len(s) >= PATH_MAX - Len(out))
    <3>1. append_str(out, s) = out \o s
      BY <1>2, <2>6 DEF append_str
    <3>2. Len(out) + Len(s) < PATH_MAX
      BY <2>2, <2>4, <2>6
    <3> QED BY <1>2, <2>2, <2>3, <3>1, <3>2 DEF Outs
  <2> QED BY <2>5, <2>6
<1> QED BY <1>1, <1>2

(* The body of the loop that rebuilds the path.                            *)
LEMMA RebuildType ==
  ASSUME NEW out \in Outs, NEW part \in Str
  PROVE  rebuild(out, part) \in Outs
<1>1. append_str(out, Slash) \in Outs
  BY ConstStr, AppendStrType
<1>2. (IF Len(out) > 1 THEN append_str(out, Slash) ELSE out) \in Outs
  BY <1>1
<1> QED BY <1>2, AppendStrType DEF rebuild

(* The space the parts take, a slash after each.                           *)
weigh(n, part) == n + Len(part) + 1

Weight(parts) == Loop(weigh, 0, parts)[Len(parts)]

PushF(absolute) == [x \in Strs \X Str |-> push(x[1], x[2], absolute)]

RebuildF == [x \in Outs \X Str |-> rebuild(x[1], x[2])]

VisitF == [x \in Strs \X Str |-> visit(x[1], x[2])]

WeighF == [x \in Nat \X Str |-> weigh(x[1], x[2])]

(* The loop over the tokens.                                               *)
LEMMA PartsLoop ==
  ASSUME NEW absolute, NEW s \in Seq(Str)
  PROVE  IsLoop(PartsAfter(s, absolute), PushF(absolute), <<>>, s, Strs)
<1> DEFINE init == <<>>
           f == PartsAfter(s, absolute)
           Eq(at) == at = [k \in 0 .. Len(s) |->
                             IF k = 0 THEN init ELSE push(at[k - 1], s[k], absolute)]
<1>1. init \in Strs
  BY EmptySeq DEF Strs
<1> HIDE DEF init
<1>2. PushF(absolute) \in [Strs \X Str -> Strs]
  BY PushType DEF PushF
<1>3. PICK at : IsLoop(at, PushF(absolute), init, s, Strs)
  BY <1>1, <1>2, LoopExists
<1>4. ASSUME NEW x \in Strs, NEW k \in 1 .. Len(s)
      PROVE  PushF(absolute)[<<x, s[k]>>] = push(x, s[k], absolute)
  <2>1. s[k] \in Str
    OBVIOUS
  <2> QED BY <2>1 DEF PushF
<1>5. Eq(at)
  <2>1. /\ at \in [0 .. Len(s) -> Strs] /\ at[0] = init
        /\ \A k \in 1 .. Len(s) : at[k] = PushF(absolute)[<<at[k - 1], s[k]>>]
    BY <1>3 DEF IsLoop
  <2>2. \A k \in 1 .. Len(s) : at[k - 1] \in Strs
    BY <2>1
  <2>3. \A k \in 1 .. Len(s) : at[k] = push(at[k - 1], s[k], absolute)
    BY <1>4, <2>1, <2>2
  <2> QED BY <2>1, <2>3
<1>6. Eq(f)
  BY <1>5, Zenon DEF Loop, PartsAfter, init
<1> HIDE DEF f
<1>7. f[0] = init /\ \A k \in 1 .. Len(s) : f[k] = push(f[k - 1], s[k], absolute)
  BY <1>6
<1>8. \A k \in 1 .. Len(s) : f[k - 1] \in Strs => f[k] = PushF(absolute)[<<f[k - 1], s[k]>>]
  BY <1>4, <1>7
<1>9. OnSteps(f, s)
  BY <1>6 DEF OnSteps
<1>10. IsLoop(f, PushF(absolute), init, s, Strs)
  BY <1>3, <1>7, <1>8, <1>9, LoopTyped
<1> QED BY <1>10 DEF f, init

(* The parts by the last token.                                            *)
LEMMA PartsAppend ==
  ASSUME NEW absolute, NEW s \in Seq(Str), NEW c \in Str
  PROVE  /\ Parts(<<>>, absolute) = <<>>
         /\ Parts(s, absolute) \in Strs
         /\ Parts(Append(s, c), absolute) = push(Parts(s, absolute), c, absolute)
<1> DEFINE init == <<>>
           t == Append(s, c)
           f == PartsAfter(s, absolute)
           g == PartsAfter(t, absolute)
           h == PartsAfter(<<>>, absolute)
<1>1. <<>> \in Seq(Str) /\ Len(<<>>) = 0 /\ Append(s, c) \in Seq(Str)
  BY EmptySeq, AppendFacts
<1>2. IsLoop(f, PushF(absolute), init, s, Strs) /\ IsLoop(h, PushF(absolute), init, <<>>, Strs)
      /\ IsLoop(g, PushF(absolute), init, t, Strs)
  BY <1>1, PartsLoop
<1>3. /\ f[Len(s)] = Parts(s, absolute) /\ h[Len(<<>>)] = Parts(<<>>, absolute)
      /\ g[Len(t)] = Parts(Append(s, c), absolute)
  BY DEF Parts
<1>4. Extends(t, s, c)
  BY AppendFacts DEF Extends
<1> HIDE DEF f, g, h, init, t
<1>5. g[Len(t)] = PushF(absolute)[<<f[Len(s)], c>>] /\ f[Len(s)] \in Strs
  BY <1>2, <1>4, LoopAppend
<1>6. PushF(absolute)[<<f[Len(s)], c>>] = push(f[Len(s)], c, absolute)
  BY <1>5 DEF PushF
<1>7. h[Len(<<>>)] = init
  BY <1>1, <1>2 DEF IsLoop
<1> QED BY <1>3, <1>5, <1>6, <1>7 DEF init, t

(* The loop over the parts.                                                *)
LEMMA RebuildLoop ==
  ASSUME NEW out \in Outs, NEW s \in Seq(Str)
  PROVE  IsLoop(Loop(rebuild, out, s), RebuildF, out, s, Outs)
<1> DEFINE init == out
           f == Loop(rebuild, init, s)
           Eq(at) == at = [k \in 0 .. Len(s) |->
                             IF k = 0 THEN init ELSE rebuild(at[k - 1], s[k])]
<1>1. init \in Outs
  OBVIOUS
<1> HIDE DEF init
<1>2. RebuildF \in [Outs \X Str -> Outs]
  BY RebuildType DEF RebuildF
<1>3. PICK at : IsLoop(at, RebuildF, init, s, Outs)
  BY <1>1, <1>2, LoopExists
<1>4. ASSUME NEW x \in Outs, NEW k \in 1 .. Len(s)
      PROVE  RebuildF[<<x, s[k]>>] = rebuild(x, s[k])
  <2>1. s[k] \in Str
    OBVIOUS
  <2> QED BY <2>1 DEF RebuildF
<1>5. Eq(at)
  <2>1. /\ at \in [0 .. Len(s) -> Outs] /\ at[0] = init
        /\ \A k \in 1 .. Len(s) : at[k] = RebuildF[<<at[k - 1], s[k]>>]
    BY <1>3 DEF IsLoop
  <2>2. \A k \in 1 .. Len(s) : at[k - 1] \in Outs
    BY <2>1
  <2>3. \A k \in 1 .. Len(s) : at[k] = rebuild(at[k - 1], s[k])
    BY <1>4, <2>1, <2>2
  <2> QED BY <2>1, <2>3
<1>6. Eq(f)
  BY <1>5, Zenon DEF Loop
<1> HIDE DEF f
<1>7. f[0] = init /\ \A k \in 1 .. Len(s) : f[k] = rebuild(f[k - 1], s[k])
  BY <1>6
<1>8. \A k \in 1 .. Len(s) : f[k - 1] \in Outs => f[k] = RebuildF[<<f[k - 1], s[k]>>]
  BY <1>4, <1>7
<1>9. OnSteps(f, s)
  BY <1>6 DEF OnSteps
<1>10. IsLoop(f, RebuildF, init, s, Outs)
  BY <1>3, <1>7, <1>8, <1>9, LoopTyped
<1> QED BY <1>10 DEF f, init

(* The rebuilt path by the last part.                                      *)
LEMMA RebuiltAppend ==
  ASSUME NEW out \in Outs, NEW s \in Seq(Str), NEW c \in Str
  PROVE  /\ Rebuilt(out, <<>>) = out
         /\ Rebuilt(out, s) \in Outs
         /\ Rebuilt(out, Append(s, c)) = rebuild(Rebuilt(out, s), c)
<1> DEFINE init == out
           t == Append(s, c)
           f == Loop(rebuild, init, s)
           g == Loop(rebuild, init, t)
           h == Loop(rebuild, init, <<>>)
<1>1. <<>> \in Seq(Str) /\ Len(<<>>) = 0 /\ Append(s, c) \in Seq(Str)
  BY EmptySeq, AppendFacts
<1>2. IsLoop(f, RebuildF, init, s, Outs) /\ IsLoop(h, RebuildF, init, <<>>, Outs)
      /\ IsLoop(g, RebuildF, init, t, Outs)
  BY <1>1, RebuildLoop
<1>3. /\ f[Len(s)] = Rebuilt(out, s) /\ h[Len(<<>>)] = Rebuilt(out, <<>>)
      /\ g[Len(t)] = Rebuilt(out, Append(s, c))
  BY DEF Rebuilt
<1>4. Extends(t, s, c)
  BY AppendFacts DEF Extends
<1> HIDE DEF f, g, h, init, t
<1>5. g[Len(t)] = RebuildF[<<f[Len(s)], c>>] /\ f[Len(s)] \in Outs
  BY <1>2, <1>4, LoopAppend
<1>6. RebuildF[<<f[Len(s)], c>>] = rebuild(f[Len(s)], c)
  BY <1>5 DEF RebuildF
<1>7. h[Len(<<>>)] = init
  BY <1>1, <1>2 DEF IsLoop
<1> QED BY <1>3, <1>5, <1>6, <1>7 DEF init, t

(* The walk.                                                               *)
LEMMA VisitLoop ==
  ASSUME NEW dir \in Strs, NEW s \in Seq(Str)
  PROVE  IsLoop(Loop(visit, dir, s), VisitF, dir, s, Strs)
<1> DEFINE init == dir
           f == Loop(visit, init, s)
           Eq(at) == at = [k \in 0 .. Len(s) |->
                             IF k = 0 THEN init ELSE visit(at[k - 1], s[k])]
<1>1. init \in Strs
  OBVIOUS
<1> HIDE DEF init
<1>2. VisitF \in [Strs \X Str -> Strs]
  BY VisitType DEF VisitF
<1>3. PICK at : IsLoop(at, VisitF, init, s, Strs)
  BY <1>1, <1>2, LoopExists
<1>4. ASSUME NEW x \in Strs, NEW k \in 1 .. Len(s)
      PROVE  VisitF[<<x, s[k]>>] = visit(x, s[k])
  <2>1. s[k] \in Str
    OBVIOUS
  <2> QED BY <2>1 DEF VisitF
<1>5. Eq(at)
  <2>1. /\ at \in [0 .. Len(s) -> Strs] /\ at[0] = init
        /\ \A k \in 1 .. Len(s) : at[k] = VisitF[<<at[k - 1], s[k]>>]
    BY <1>3 DEF IsLoop
  <2>2. \A k \in 1 .. Len(s) : at[k - 1] \in Strs
    BY <2>1
  <2>3. \A k \in 1 .. Len(s) : at[k] = visit(at[k - 1], s[k])
    BY <1>4, <2>1, <2>2
  <2> QED BY <2>1, <2>3
<1>6. Eq(f)
  BY <1>5, Zenon DEF Loop
<1> HIDE DEF f
<1>7. f[0] = init /\ \A k \in 1 .. Len(s) : f[k] = visit(f[k - 1], s[k])
  BY <1>6
<1>8. \A k \in 1 .. Len(s) : f[k - 1] \in Strs => f[k] = VisitF[<<f[k - 1], s[k]>>]
  BY <1>4, <1>7
<1>9. OnSteps(f, s)
  BY <1>6 DEF OnSteps
<1>10. IsLoop(f, VisitF, init, s, Strs)
  BY <1>3, <1>7, <1>8, <1>9, LoopTyped
<1> QED BY <1>10 DEF f, init

(* The walk by the last token.                                             *)
LEMMA VisitAppend ==
  ASSUME NEW dir \in Strs, NEW s \in Seq(Str), NEW c \in Str
  PROVE  /\ Visit(dir, <<>>) = dir
         /\ Visit(dir, s) \in Strs
         /\ Visit(dir, Append(s, c)) = visit(Visit(dir, s), c)
<1> DEFINE init == dir
           t == Append(s, c)
           f == Loop(visit, init, s)
           g == Loop(visit, init, t)
           h == Loop(visit, init, <<>>)
<1>1. <<>> \in Seq(Str) /\ Len(<<>>) = 0 /\ Append(s, c) \in Seq(Str)
  BY EmptySeq, AppendFacts
<1>2. IsLoop(f, VisitF, init, s, Strs) /\ IsLoop(h, VisitF, init, <<>>, Strs)
      /\ IsLoop(g, VisitF, init, t, Strs)
  BY <1>1, VisitLoop
<1>3. /\ f[Len(s)] = Visit(dir, s) /\ h[Len(<<>>)] = Visit(dir, <<>>)
      /\ g[Len(t)] = Visit(dir, Append(s, c))
  BY DEF Visit
<1>4. Extends(t, s, c)
  BY AppendFacts DEF Extends
<1> HIDE DEF f, g, h, init, t
<1>5. g[Len(t)] = VisitF[<<f[Len(s)], c>>] /\ f[Len(s)] \in Strs
  BY <1>2, <1>4, LoopAppend
<1>6. VisitF[<<f[Len(s)], c>>] = visit(f[Len(s)], c)
  BY <1>5 DEF VisitF
<1>7. h[Len(<<>>)] = init
  BY <1>1, <1>2 DEF IsLoop
<1> QED BY <1>3, <1>5, <1>6, <1>7 DEF init, t

(* The sum.                                                                *)
LEMMA WeightLoop ==
  ASSUME NEW s \in Seq(Str)
  PROVE  IsLoop(Loop(weigh, 0, s), WeighF, 0, s, Nat)
<1> DEFINE init == 0
           f == Loop(weigh, init, s)
           Eq(at) == at = [k \in 0 .. Len(s) |->
                             IF k = 0 THEN init ELSE weigh(at[k - 1], s[k])]
<1>1. init \in Nat
  OBVIOUS
<1> HIDE DEF init
<1>2. WeighF \in [Nat \X Str -> Nat]
  BY DEF WeighF, weigh, Str
<1>3. PICK at : IsLoop(at, WeighF, init, s, Nat)
  BY <1>1, <1>2, LoopExists
<1>4. ASSUME NEW x \in Nat, NEW k \in 1 .. Len(s)
      PROVE  WeighF[<<x, s[k]>>] = weigh(x, s[k])
  <2>1. s[k] \in Str
    OBVIOUS
  <2> QED BY <2>1 DEF WeighF
<1>5. Eq(at)
  <2>1. /\ at \in [0 .. Len(s) -> Nat] /\ at[0] = init
        /\ \A k \in 1 .. Len(s) : at[k] = WeighF[<<at[k - 1], s[k]>>]
    BY <1>3 DEF IsLoop
  <2>2. \A k \in 1 .. Len(s) : at[k - 1] \in Nat
    BY <2>1
  <2>3. \A k \in 1 .. Len(s) : at[k] = weigh(at[k - 1], s[k])
    BY <1>4, <2>1, <2>2
  <2> QED BY <2>1, <2>3
<1>6. Eq(f)
  BY <1>5, Zenon DEF Loop
<1> HIDE DEF f
<1>7. f[0] = init /\ \A k \in 1 .. Len(s) : f[k] = weigh(f[k - 1], s[k])
  BY <1>6
<1>8. \A k \in 1 .. Len(s) : f[k - 1] \in Nat => f[k] = WeighF[<<f[k - 1], s[k]>>]
  BY <1>4, <1>7
<1>9. OnSteps(f, s)
  BY <1>6 DEF OnSteps
<1>10. IsLoop(f, WeighF, init, s, Nat)
  BY <1>3, <1>7, <1>8, <1>9, LoopTyped
<1> QED BY <1>10 DEF f, init

(* The sum by the last part.                                               *)
LEMMA WeightAppend ==
  ASSUME NEW s \in Seq(Str), NEW c \in Str
  PROVE  /\ Weight(<<>>) = 0
         /\ Weight(s) \in Nat
         /\ Weight(Append(s, c)) = weigh(Weight(s), c)
<1> DEFINE init == 0
           t == Append(s, c)
           f == Loop(weigh, init, s)
           g == Loop(weigh, init, t)
           h == Loop(weigh, init, <<>>)
<1>1. <<>> \in Seq(Str) /\ Len(<<>>) = 0 /\ Append(s, c) \in Seq(Str)
  BY EmptySeq, AppendFacts
<1>2. IsLoop(f, WeighF, init, s, Nat) /\ IsLoop(h, WeighF, init, <<>>, Nat)
      /\ IsLoop(g, WeighF, init, t, Nat)
  BY <1>1, WeightLoop
<1>3. /\ f[Len(s)] = Weight(s) /\ h[Len(<<>>)] = Weight(<<>>)
      /\ g[Len(t)] = Weight(Append(s, c))
  BY DEF Weight
<1>4. Extends(t, s, c)
  BY AppendFacts DEF Extends
<1> HIDE DEF f, g, h, init, t
<1>5. g[Len(t)] = WeighF[<<f[Len(s)], c>>] /\ f[Len(s)] \in Nat
  BY <1>2, <1>4, LoopAppend
<1>6. WeighF[<<f[Len(s)], c>>] = weigh(f[Len(s)], c)
  BY <1>5 DEF WeighF
<1>7. h[Len(<<>>)] = init
  BY <1>1, <1>2 DEF IsLoop
<1> QED BY <1>3, <1>5, <1>6, <1>7 DEF init, t

-----------------------------------------------------------------------------
(* The tokens.                                                             *)

(* A string without slashes, and one that can be a part.                   *)
Plain == {u \in Str : \A i \in 1 .. Len(u) : u[i] # "/"}

Part == Plain \ {<<>>}

(* Lists of these are lists of strings.                                    *)
LEMMA PlainStrs ==
  /\ Seq(Plain) \subseteq Strs /\ Seq(Part) \subseteq Seq(Plain)
  /\ Plain \subseteq Str /\ Part \subseteq Plain /\ <<>> \in Plain
  /\ \A u \in Part : u # <<>> /\ Len(u) \in Nat \ {0}
<1>1. Plain \subseteq Str /\ Part \subseteq Plain
  BY DEF Plain, Part
<1>2. <<>> \in Plain
  BY EmptySeq DEF Plain, Str
<1>3. ASSUME NEW u \in Part PROVE u # <<>> /\ Len(u) \in Nat \ {0}
  BY EmptySeq DEF Part, Plain, Str
<1>4. Seq(Plain) \subseteq Seq(Str) /\ Seq(Part) \subseteq Seq(Plain)
  BY <1>1, SeqMonotonic
<1> QED BY <1>1, <1>2, <1>3, <1>4 DEF Strs

(* The lists and strings that are extended.                                *)
LEMMA StrAppend ==
  ASSUME NEW u \in Str, NEW c \in Chars
  PROVE  /\ Append(u, c) \in Str /\ Append(u, c) # <<>>
         /\ Len(u) \in Nat /\ Len(Append(u, c)) = Len(u) + 1
         /\ \A k \in 1 .. Len(u) : Append(u, c)[k] = u[k]
         /\ Append(u, c)[Len(u) + 1] = c
BY AppendFacts DEF Str

(* split either opens a token or extends the last one.                     *)
LEMMA SplitLast ==
  ASSUME NEW fs \in Strs, NEW l \in Str, NEW c \in Chars
  PROVE  split(Append(fs, l), c) = IF c = "/" THEN Append(Append(fs, l), <<>>)
                                   ELSE Append(fs, Append(l, c))
<1> DEFINE ts == Append(fs, l)
           us == Append(fs, Append(l, c))
<1>1. /\ ts \in Seq(Str) /\ Len(fs) \in Nat /\ Len(ts) = Len(fs) + 1
      /\ (\A k \in 1 .. Len(fs) : ts[k] = fs[k]) /\ ts[Len(fs) + 1] = l
  BY AppendFacts DEF Strs
<1>2. Append(l, c) \in Str
  BY StrAppend
<1>3. /\ us \in Seq(Str) /\ Len(us) = Len(fs) + 1
      /\ (\A k \in 1 .. Len(fs) : us[k] = fs[k]) /\ us[Len(fs) + 1] = Append(l, c)
  BY <1>2, AppendFacts DEF Strs
<1> HIDE DEF ts, us
<1>4. CASE c = "/"
  BY <1>4 DEF split, ts
<1>5. CASE c # "/"
  <2> DEFINE vs == [ts EXCEPT ![Len(ts)] = Append(l, c)]
  <2>1. Len(ts) \in 1 .. Len(ts) /\ ts[Len(ts)] = l
    BY <1>1
  <2>2. split(ts, c) = vs
    BY <1>5, <2>1 DEF split
  <2>3. /\ vs \in Seq(Str) /\ Len(vs) = Len(ts)
        /\ \A j \in 1 .. Len(ts) : vs[j] = IF j = Len(ts) THEN Append(l, c) ELSE ts[j]
    BY <1>1, <1>2, <2>1, ExceptSeq
  <2> HIDE DEF vs
  <2>4. ASSUME NEW j \in 1 .. Len(vs) PROVE vs[j] = us[j]
    <3>1. CASE j = Len(fs) + 1
      BY <1>1, <1>3, <2>3, <3>1
    <3>2. CASE j # Len(fs) + 1
      <4>1. j \in 1 .. Len(fs) /\ j # Len(ts) /\ j \in 1 .. Len(ts)
        BY <1>1, <2>3, <3>2
      <4> QED BY <1>1, <1>3, <2>3, <4>1
    <3> QED BY <3>1, <3>2
  <2>5. vs = us
    BY <1>1, <1>3, <2>3, <2>4, SeqEqual
  <2> QED BY <1>5, <2>2, <2>5 DEF ts, us
<1> QED BY <1>4, <1>5

(* What split does to a list of tokens, when the last one is named.        *)
LEMMA SplitCases ==
  ASSUME NEW s \in Str, NEW c \in Chars
  PROVE  \E fs \in Strs, l \in Str :
           /\ Tokens(s) = Append(fs, l)
           /\ Tokens(Append(s, c)) = IF c = "/" THEN Append(Append(fs, l), <<>>)
                                     ELSE Append(fs, Append(l, c))
<1>1. Tokens(s) \in Strs /\ Tokens(s) # <<>> /\ Tokens(Append(s, c)) = split(Tokens(s), c)
  BY TokensAppend DEF Str, TokenLists
<1>2. PICK fs \in Strs, l \in Str : Tokens(s) = Append(fs, l)
  BY <1>1, FrontLast DEF Strs
<1>3. split(Append(fs, l), c) = IF c = "/" THEN Append(Append(fs, l), <<>>)
                                ELSE Append(fs, Append(l, c))
  BY SplitLast
<1> QED BY <1>1, <1>2, <1>3

(* Tokens of the empty string.                                             *)
LEMMA TokensEmpty == Tokens(<<>>) = << <<>> >> /\ << <<>> >> = Append(<<>>, <<>>)
<1>1. <<>> \in Seq(Chars) /\ "/" \in Chars
  BY EmptySeq, PathNormAssumption
<1>2. Tokens(<<>>) = << <<>> >>
  BY <1>1, TokensAppend, Zenon
<1>3. << <<>> >> = Append(<<>>, <<>>)
  OBVIOUS
<1> QED BY <1>2, <1>3

(* The tokens take one character more than the string.                     *)
LEMMA TokensWeight ==
  ASSUME NEW s \in Str
  PROVE  Weight(Tokens(s)) = Len(s) + 1
<1> DEFINE A == {u \in Str : Weight(Tokens(u)) = Len(u) + 1}
<1>0. <<>> \in Strs /\ <<>> \in Str /\ Len(<<>>) = 0
  BY EmptySeq DEF Strs, Str
<1>w. ASSUME NEW ps \in Strs, NEW q \in Str
      PROVE  /\ Weight(ps) \in Nat /\ Len(q) \in Nat /\ Weight(<<>>) = 0
             /\ Weight(Append(ps, q)) = Weight(ps) + Len(q) + 1
  BY WeightAppend DEF Strs, weigh, Str
<1>1. <<>> \in A
  <2>1. Tokens(<<>>) = Append(<<>>, <<>>)
    BY TokensEmpty
  <2>2. Weight(Append(<<>>, <<>>)) = Weight(<<>>) + Len(<<>>) + 1 /\ Weight(<<>>) = 0
    BY <1>0, <1>w
  <2> QED BY <1>0, <2>1, <2>2
<1>2. ASSUME NEW u \in Str, NEW c \in Chars, u \in A PROVE Append(u, c) \in A
  <2>1. PICK fs \in Strs, l \in Str :
           /\ Tokens(u) = Append(fs, l)
           /\ Tokens(Append(u, c)) = IF c = "/" THEN Append(Append(fs, l), <<>>)
                                     ELSE Append(fs, Append(l, c))
    BY SplitCases
  <2>2. Weight(fs) + Len(l) + 1 = Len(u) + 1 /\ Weight(fs) \in Nat /\ Len(l) \in Nat
    BY <1>2, <1>w, <2>1
  <2>3. Append(u, c) \in Str /\ Len(u) \in Nat /\ Len(Append(u, c)) = Len(u) + 1
    BY StrAppend
  <2>4. Append(l, c) \in Str /\ Len(Append(l, c)) = Len(l) + 1
    BY StrAppend
  <2>5. Append(fs, l) \in Strs
    BY DEF Strs
  <2>6. CASE c = "/"
    <3>1. Weight(Tokens(Append(u, c))) = Weight(Append(fs, l)) + 0 + 1
      BY <1>0, <1>w, <2>1, <2>5, <2>6
    <3> QED BY <1>w, <2>2, <2>3, <3>1
  <2>7. CASE c # "/"
    <3>1. Weight(Tokens(Append(u, c))) = Weight(fs) + Len(Append(l, c)) + 1
      BY <1>w, <2>1, <2>4, <2>7
    <3> QED BY <2>2, <2>3, <2>4, <3>1
  <2> QED BY <2>6, <2>7
<1>3. Seq(Chars) \subseteq A
  <2> HIDE DEF A
  <2> QED BY <1>1, <1>2, SeqSetInduction DEF Str
<1> QED BY <1>3 DEF Str

(* No token has a slash.                                                   *)
LEMMA TokensPlain ==
  ASSUME NEW s \in Str
  PROVE  Tokens(s) \in Seq(Plain) /\ Tokens(s) # <<>>
<1> DEFINE A == {u \in Str : Tokens(u) \in Seq(Plain)}
<1>1. <<>> \in A
  BY PlainStrs, TokensEmpty, EmptySeq, AppendFacts DEF Str
<1>2. ASSUME NEW u \in Str, NEW c \in Chars, u \in A PROVE Append(u, c) \in A
  <2>1. PICK fs \in Strs, l \in Str :
           /\ Tokens(u) = Append(fs, l)
           /\ Tokens(Append(u, c)) = IF c = "/" THEN Append(Append(fs, l), <<>>)
                                     ELSE Append(fs, Append(l, c))
    BY SplitCases
  <2>2. Append(fs, l) \in Seq(Plain) /\ Append(u, c) \in Str
    BY <1>2, <2>1, StrAppend
  <2>3. fs \in Seq(Plain) /\ l \in Plain
    <3>1. fs \in Seq(Str) /\ Len(fs) \in Nat /\ Len(Append(fs, l)) = Len(fs) + 1
          /\ (\A k \in 1 .. Len(fs) : Append(fs, l)[k] = fs[k]) /\ Append(fs, l)[Len(fs) + 1] = l
      BY AppendFacts DEF Strs
    <3>2. \A k \in 1 .. Len(fs) + 1 : Append(fs, l)[k] \in Plain
      BY <2>2, <3>1, ElementOfSeq
    <3>3. \A k \in 1 .. Len(fs) : fs[k] \in Plain
      BY <3>1, <3>2
    <3>4. l \in Plain
      BY <3>1, <3>2
    <3> QED BY <3>1, <3>3, <3>4
  <2>4. CASE c = "/"
    BY <2>1, <2>2, <2>4, PlainStrs, AppendFacts
  <2>5. CASE c # "/"
    <3>1. Append(l, c) \in Plain
      <4>1. /\ Append(l, c) \in Str /\ Len(l) \in Nat /\ Len(Append(l, c)) = Len(l) + 1
            /\ \A k \in 1 .. Len(l) : Append(l, c)[k] = l[k]
            /\ Append(l, c)[Len(l) + 1] = c
        BY StrAppend
      <4>2. \A k \in 1 .. Len(l) : l[k] # "/"
        BY <2>3 DEF Plain
      <4>3. ASSUME NEW k \in 1 .. Len(Append(l, c)) PROVE Append(l, c)[k] # "/"
        <5> DEFINE v == Append(l, c)
        <5> HIDE DEF v
        <5>1. CASE k = Len(l) + 1
          BY <2>5, <4>1, <5>1
        <5>2. CASE k # Len(l) + 1
          <6>1. k \in 1 .. Len(l)
            BY <4>1, <5>2
          <6> QED BY <4>1, <4>2, <6>1
        <5> QED BY <5>1, <5>2
      <4> QED BY <4>1, <4>3 DEF Plain
    <3>2. Tokens(Append(u, c)) = Append(fs, Append(l, c))
      BY <2>1, <2>5
    <3>3. Append(fs, Append(l, c)) \in Seq(Plain)
      BY <2>3, <3>1, AppendFacts
    <3> QED BY <2>2, <3>2, <3>3
  <2> QED BY <2>4, <2>5
<1>3. Seq(Chars) \subseteq A
  <2> HIDE DEF A
  <2> QED BY <1>1, <1>2, SeqSetInduction DEF Str
<1>4. "/" \in Chars
  BY PathNormAssumption
<1> QED BY <1>3, <1>4, TokensAppend DEF Str, TokenLists

(* The first token of an absolute path is empty, and it is not the only    *)
(* one; the first token of another path is empty only if the path is.      *)
LEMMA TokensFirst ==
  ASSUME NEW s \in Str, s # <<>>
  PROVE  Absolute(s) <=> Tokens(s)[1] = <<>>
<1> DEFINE P(u) == /\ (u[1] = "/") <=> (Tokens(u)[1] = <<>>)
                   /\ u[1] = "/" => Len(Tokens(u)) > 1
           A == {u \in Str : u # <<>> => P(u)}
<1>1. <<>> \in A
  BY EmptySeq DEF Str
<1>2. ASSUME NEW u \in Str, NEW c \in Chars, u \in A PROVE Append(u, c) \in A
  <2>1. PICK fs \in Strs, l \in Str :
           /\ Tokens(u) = Append(fs, l)
           /\ Tokens(Append(u, c)) = IF c = "/" THEN Append(Append(fs, l), <<>>)
                                     ELSE Append(fs, Append(l, c))
    BY SplitCases
  <2> DEFINE v == Append(u, c)
  <2>2. /\ v \in Str /\ v # <<>> /\ Len(u) \in Nat
        /\ v[Len(u) + 1] = c /\ \A k \in 1 .. Len(u) : v[k] = u[k]
    BY StrAppend
  <2>0. SUFFICES P(v)
    BY <2>2
  <2> HIDE DEF v
  <2>3. <<>> \in Str /\ Append(l, c) \in Str /\ Append(l, c) # <<>> /\ Append(fs, l) \in Strs
    <3>1. Append(l, c) \in Str /\ Append(l, c) # <<>>
      BY StrAppend
    <3> QED BY <3>1, ConstStr DEF Strs
  <2>4. CASE u = <<>>
    <3>1. Len(u) = 0 /\ v[1] = c
      BY <2>2, <2>4
    <3>2. Append(fs, l) = Append(<<>>, <<>>)
      BY <2>1, <2>4, TokensEmpty
    <3>3. fs = <<>> /\ l = <<>>
      <4>1. /\ fs \in Seq(Str) /\ Len(fs) \in Nat /\ Len(Append(fs, l)) = Len(fs) + 1
            /\ Append(fs, l)[Len(fs) + 1] = l
        BY AppendFacts DEF Strs
      <4>2. Len(Append(<<>>, <<>>)) = 1 /\ Append(<<>>, <<>>)[1] = <<>>
        OBVIOUS
      <4>3. Len(fs) = 0 /\ l = <<>>
        BY <3>2, <4>1, <4>2
      <4> QED BY <4>1, <4>3, EmptySeq
    <3>4. CASE c = "/"
      <4>1. Tokens(v) = Append(Append(<<>>, <<>>), <<>>)
        BY <2>1, <3>3, <3>4 DEF v
      <4>2. Len(Tokens(v)) = 2 /\ Tokens(v)[1] = <<>>
        BY <4>1
      <4> QED BY <2>2, <3>1, <3>4, <4>2
    <3>5. CASE c # "/"
      <4>1. Tokens(v)[1] = Append(l, c)
        BY <2>1, <3>3, <3>5, <2>3 DEF v
      <4> QED BY <2>2, <2>3, <3>1, <3>5, <4>1
    <3> QED BY <3>4, <3>5
  <2>5. CASE u # <<>>
    <3>1. v[1] = u[1] /\ (u[1] = "/" <=> Append(fs, l)[1] = <<>>)
          /\ (u[1] = "/" => Len(Append(fs, l)) > 1)
      <4>1. Len(u) \in Nat \ {0}
        BY <2>5, EmptySeq DEF Str
      <4>2. v[1] = u[1]
        BY <2>2, <4>1
      <4>3. /\ (u[1] = "/") <=> (Tokens(u)[1] = <<>>)
            /\ u[1] = "/" => Len(Tokens(u)) > 1
        BY <1>2, <2>5
      <4> QED BY <2>1, <4>2, <4>3
    <3>2. Len(fs) \in Nat /\ fs \in Seq(Str) /\ Len(Append(fs, l)) = Len(fs) + 1
      BY DEF Strs
    <3>3. CASE c = "/"
      <4>1. Tokens(v) = Append(Append(fs, l), <<>>)
        BY <2>1, <3>3 DEF v
      <4>2. Len(Tokens(v)) = Len(fs) + 2 /\ Tokens(v)[1] = Append(fs, l)[1]
        BY <2>3, <3>2, <4>1 DEF Strs
      <4> QED BY <2>2, <3>1, <3>2, <4>2
    <3>4. CASE c # "/"
      <4>1. Tokens(v) = Append(fs, Append(l, c))
        BY <2>1, <3>4 DEF v
      <4>2. Len(Tokens(v)) = Len(fs) + 1
        BY <2>3, <3>2, <4>1 DEF Strs
      <4>3. CASE fs = <<>>
        <5>1. Tokens(v)[1] = Append(l, c) /\ Len(Append(fs, l)) = 1
          BY <2>3, <3>2, <4>1, <4>3
        <5> QED BY <2>2, <2>3, <3>1, <5>1
      <4>4. CASE fs # <<>>
        <5>1. Len(fs) \in Nat \ {0}
          BY <3>2, <4>4, EmptySeq
        <5>2. Tokens(v)[1] = fs[1] /\ Append(fs, l)[1] = fs[1]
          BY <2>3, <3>2, <4>1, <5>1 DEF Strs
        <5> QED BY <2>2, <3>1, <3>2, <4>2, <5>1, <5>2
      <4> QED BY <4>3, <4>4
    <3> QED BY <3>3, <3>4
  <2> QED BY <2>4, <2>5
<1>3. Seq(Chars) \subseteq A
  <2> HIDE DEF A
  <2> QED BY <1>1, <1>2, SeqSetInduction DEF Str
<1>4. (s[1] = "/") <=> (Tokens(s)[1] = <<>>)
  BY <1>3 DEF Str
<1> QED BY <1>4 DEF Absolute

-----------------------------------------------------------------------------
(* The parts.                                                              *)

(* What a list weighs with one more string.                                *)
LEMMA WeightFacts ==
  ASSUME NEW ps \in Strs, NEW q \in Str
  PROVE  /\ Append(ps, q) \in Strs /\ Weight(<<>>) = 0
         /\ Weight(ps) \in Nat /\ Len(q) \in Nat
         /\ Weight(Append(ps, q)) = Weight(ps) + Len(q) + 1
BY WeightAppend DEF Strs, weigh, Str

(* What push may do: nothing, drop the last part or add the token.         *)
LEMMA PushCases ==
  ASSUME NEW parts, NEW token, NEW absolute
  PROVE  LET next == push(parts, token, absolute)
         IN \/ next = parts
            \/ parts # <<>> /\ next = Front(parts)
            \/ token # <<>> /\ next = Append(parts, token)
BY DEF push

(* Every part is a nonempty string without slashes.                        *)
LEMMA PartsPart ==
  ASSUME NEW ts \in Seq(Plain), NEW absolute
  PROVE  Parts(ts, absolute) \in Seq(Part)
<1> DEFINE A == {us \in Seq(Plain) : Parts(us, absolute) \in Seq(Part)}
<1>1. <<>> \in A
  <2>1. Parts(<<>>, absolute) = <<>>
    BY ConstStr, PartsAppend, EmptySeq DEF Strs
  <2> QED BY <2>1, EmptySeq
<1>2. ASSUME NEW us \in Seq(Plain), NEW t \in Plain, us \in A PROVE Append(us, t) \in A
  <2> DEFINE ps == Parts(us, absolute)
  <2>1. us \in Seq(Str) /\ t \in Str /\ Append(us, t) \in Seq(Plain)
    BY PlainStrs, AppendFacts DEF Strs
  <2>2. Parts(Append(us, t), absolute) = push(ps, t, absolute)
    BY <2>1, PartsAppend
  <2>3. ps \in Seq(Part)
    BY <1>2
  <2> HIDE DEF ps
  <2>4. ps # <<>> => Front(ps) \in Seq(Part)
    BY <2>3, FrontLast
  <2>5. t # <<>> => Append(ps, t) \in Seq(Part)
    BY <2>3, AppendFacts DEF Part
  <2>6. push(ps, t, absolute) \in Seq(Part)
    <3> DEFINE qs == push(ps, t, absolute)
    <3>1. qs = ps \/ (ps # <<>> /\ qs = Front(ps)) \/ (t # <<>> /\ qs = Append(ps, t))
      BY PushCases
    <3> HIDE DEF qs
    <3>2. qs \in Seq(Part)
      BY <2>3, <2>4, <2>5, <3>1
    <3> QED BY <3>2 DEF qs
  <2> QED BY <2>1, <2>2, <2>6
<1>3. Seq(Plain) \subseteq A
  <2> HIDE DEF A
  <2> QED BY <1>1, <1>2, SeqSetInduction
<1> QED BY <1>3

(* 1 when the path begins with a slash: the empty token before it.         *)
Lead(ts) == IF ts # <<>> /\ ts[1] = <<>> THEN 1 ELSE 0

(* The parts take no more room than the tokens, and less by the slash that *)
(* an absolute path begins with.                                           *)
LEMMA PartsWeight ==
  ASSUME NEW ts \in Strs, NEW absolute
  PROVE  Weight(Parts(ts, absolute)) + Lead(ts) <= Weight(ts)
<1> DEFINE P(us) == Weight(Parts(us, absolute)) + Lead(us) <= Weight(us)
           A == {us \in Seq(Str) : P(us)}
<1>0. <<>> \in Strs /\ <<>> \in Str /\ Weight(<<>>) = 0 /\ Parts(<<>>, absolute) = <<>> /\ Len(<<>>) = 0
  BY ConstStr, WeightFacts, PartsAppend, EmptySeq DEF Strs
<1>1. <<>> \in A
  <2>1. Lead(<<>>) = 0
    BY DEF Lead
  <2> QED BY <1>0, <2>1 DEF Strs
<1>2. ASSUME NEW us \in Seq(Str), NEW t \in Str, us \in A PROVE Append(us, t) \in A
  <2> DEFINE ps == Parts(us, absolute)
             qs == push(ps, t, absolute)
             vs == Append(us, t)
  <2>1. us \in Strs /\ vs \in Seq(Str)
    BY AppendFacts DEF Strs
  <2>2. Parts(vs, absolute) = qs /\ ps \in Strs
    BY PartsAppend
  <2>3. Weight(vs) = Weight(us) + Len(t) + 1 /\ Weight(us) \in Nat /\ Len(t) \in Nat
    BY <2>1, WeightFacts
  <2>4. Weight(ps) + Lead(us) <= Weight(us)
    BY <1>2
  <2>5. Weight(qs) \in Nat /\ Weight(ps) \in Nat
        /\ Weight(qs) <= Weight(ps) + (IF t = <<>> THEN 0 ELSE Len(t) + 1)
    <3> HIDE DEF ps
    <3>1. Weight(ps) \in Nat
      BY <2>2, WeightFacts
    <3>2. CASE qs = ps
      BY <2>3, <3>1, <3>2
    <3>3. CASE ps # <<>> /\ qs = Front(ps)
      <4>1. Front(ps) \in Strs /\ Last(ps) \in Str /\ ps = Append(Front(ps), Last(ps))
        BY <2>2, <3>3, FrontLast DEF Strs
      <4>2. Weight(ps) = Weight(Front(ps)) + Len(Last(ps)) + 1 /\ Weight(Front(ps)) \in Nat
            /\ Len(Last(ps)) \in Nat
        BY <4>1, WeightFacts
      <4> QED BY <2>3, <3>3, <4>2
    <3>4. CASE t # <<>> /\ qs = Append(ps, t)
      BY <2>2, <2>3, <3>4, WeightFacts
    <3> QED BY <3>2, <3>3, <3>4, PushCases
  <2>6. P(vs)
    <3> HIDE DEF ps, qs
    <3>1. CASE us = <<>>
      <4>1. vs[1] = t /\ vs # <<>>
        BY <3>1
      <4>2. Lead(vs) = (IF t = <<>> THEN 1 ELSE 0)
        BY <4>1 DEF Lead
      <4>3. Weight(ps) = 0 /\ Weight(us) = 0
        BY <1>0, <3>1 DEF ps
      <4> QED BY <2>2, <2>3, <2>5, <4>2, <4>3
    <3>2. CASE us # <<>>
      <4>1. Len(us) \in Nat \ {0}
        BY <3>2, EmptySeq
      <4>2. vs[1] = us[1] /\ vs # <<>>
        BY <4>1, AppendFacts
      <4>3. Lead(vs) = Lead(us) /\ Lead(us) \in Nat
        BY <3>2, <4>2 DEF Lead
      <4> HIDE DEF vs
      <4>4. Weight(qs) <= Weight(ps) + Len(t) + 1
        BY <2>3, <2>5
      <4> QED BY <2>2, <2>3, <2>4, <2>5, <4>3, <4>4
    <3> QED BY <3>1, <3>2
  <2> QED BY <2>1, <2>6
<1>3. Seq(Str) \subseteq A
  <2> HIDE DEF A
  <2> QED BY <1>1, <1>2, SeqSetInduction
<1> QED BY <1>3 DEF Strs

(* A part takes at least two characters: one and a slash.                  *)
LEMMA CountWeight ==
  ASSUME NEW ps \in Seq(Part)
  PROVE  2 * Len(ps) <= Weight(ps)
<1> DEFINE A == {us \in Seq(Part) : 2 * Len(us) <= Weight(us)}
<1>1. <<>> \in A
  <2>1. <<>> \in Seq(Part) /\ Len(<<>>) = 0 /\ <<>> \in Strs /\ <<>> \in Str
    BY ConstStr, EmptySeq DEF Strs
  <2>2. Weight(<<>>) = 0
    BY <2>1, WeightFacts
  <2> QED BY <2>1, <2>2
<1>2. ASSUME NEW us \in Seq(Part), NEW t \in Part, us \in A PROVE Append(us, t) \in A
  <2>1. us \in Strs /\ t \in Str /\ Len(t) \in Nat \ {0}
    BY PlainStrs
  <2>2. Append(us, t) \in Seq(Part) /\ Len(us) \in Nat /\ Len(Append(us, t)) = Len(us) + 1
    BY AppendFacts
  <2>3. Weight(Append(us, t)) = Weight(us) + Len(t) + 1 /\ Weight(us) \in Nat
    BY <2>1, WeightFacts
  <2>4. 2 * Len(us) <= Weight(us)
    BY <1>2
  <2>5. 2 * (Len(us) + 1) <= Weight(us) + Len(t) + 1
    BY <2>1, <2>2, <2>3, <2>4
  <2> QED BY <2>2, <2>3, <2>5
<1>3. Seq(Part) \subseteq A
  <2> HIDE DEF A
  <2> QED BY <1>1, <1>2, SeqSetInduction
<1> QED BY <1>3

(* What the loop holds after k tokens are the parts of a shorter path.     *)
LEMMA PartsAfterPrefix ==
  ASSUME NEW ts \in Seq(Plain), NEW absolute, NEW k \in 0 .. Len(ts)
  PROVE  \E us \in Seq(Plain) : /\ PartsAfter(ts, absolute)[k] = Parts(us, absolute)
                                /\ Weight(us) <= Weight(ts)
<1> DEFINE Q(vs, j, us) == /\ PartsAfter(vs, absolute)[j] = Parts(us, absolute)
                           /\ Weight(us) <= Weight(vs)
           P(vs) == \A j \in 0 .. Len(vs) : \E us \in Seq(Plain) : Q(vs, j, us)
           A == {vs \in Seq(Plain) : P(vs)}
<1>0. ASSUME NEW vs \in Seq(Plain) PROVE Q(vs, Len(vs), vs)
  <2>1. Weight(vs) \in Nat
    BY PlainStrs, ConstStr, WeightFacts
  <2> QED BY <2>1 DEF Parts
<1>1. <<>> \in A
  <2>1. <<>> \in Seq(Plain) /\ Len(<<>>) = 0
    BY EmptySeq
  <2>2. Q(<<>>, 0, <<>>)
    BY <1>0, <2>1
  <2>3. ASSUME NEW j \in 0 .. Len(<<>>) PROVE \E us \in Seq(Plain) : Q(<<>>, j, us)
    <3>1. j = 0
      BY <2>1
    <3> HIDE DEF Q
    <3> QED BY <2>1, <2>2, <3>1
  <2> HIDE DEF Q
  <2> QED BY <2>1, <2>3
<1>2. ASSUME NEW vs \in Seq(Plain), NEW t \in Plain, vs \in A PROVE Append(vs, t) \in A
  <2> DEFINE ws == Append(vs, t)
  <2>1. /\ ws \in Seq(Plain) /\ Len(vs) \in Nat /\ Len(ws) = Len(vs) + 1 /\ Extends(ws, vs, t)
        /\ vs \in Seq(Str) /\ ws \in Seq(Str)
    BY AppendFacts, PlainStrs DEF Extends, Strs
  <2>2. Weight(ws) = Weight(vs) + Len(t) + 1 /\ Weight(vs) \in Nat /\ Len(t) \in Nat
    BY PlainStrs, WeightFacts
  <2> HIDE DEF ws
  <2>3. /\ IsLoop(PartsAfter(vs, absolute), PushF(absolute), <<>>, vs, Strs)
        /\ IsLoop(PartsAfter(ws, absolute), PushF(absolute), <<>>, ws, Strs)
    BY <2>1, PartsLoop
  <2>4. \A j \in 0 .. Len(vs) : PartsAfter(ws, absolute)[j] = PartsAfter(vs, absolute)[j]
    <3> DEFINE e == <<>>
               f == PartsAfter(vs, absolute)
               g == PartsAfter(ws, absolute)
    <3> HIDE DEF e, f, g
    <3>1. /\ IsLoop(f, PushF(absolute), e, vs, Strs)
          /\ IsLoop(g, PushF(absolute), e, ws, Strs)
      BY <2>3 DEF e, f, g
    <3>2. SameSteps(f, g, vs)
      BY <2>1, <3>1, LoopAppend
    <3> QED BY <3>2 DEF f, g, SameSteps
  <2>5. ASSUME NEW j \in 0 .. Len(ws) PROVE \E us \in Seq(Plain) : Q(ws, j, us)
    <3>1. CASE j = Len(ws)
      <4>1. Q(ws, j, ws)
        BY <1>0, <2>1, <3>1
      <4> HIDE DEF Q
      <4> QED BY <2>1, <4>1
    <3>2. CASE j # Len(ws)
      <4>1. j \in 0 .. Len(vs)
        BY <2>1, <3>2
      <4>2. PICK us \in Seq(Plain) : Q(vs, j, us)
        BY <1>2, <4>1
      <4>3. Weight(us) \in Nat
        BY PlainStrs, ConstStr, WeightFacts
      <4>4. Q(ws, j, us)
        BY <2>2, <2>4, <4>1, <4>2, <4>3
      <4> HIDE DEF Q
      <4> QED BY <4>4
    <3> QED BY <3>1, <3>2
  <2> HIDE DEF Q
  <2> QED BY <2>1, <2>5 DEF ws
<1>3. Seq(Plain) \subseteq A
  <2> HIDE DEF A
  <2> QED BY <1>1, <1>2, SeqSetInduction
<1> QED BY <1>3

(* The array parts[PATH_MAX / 2] is large enough for every path that fits  *)
(* in tmp, after every token.                                              *)
LEMMA CountFits ==
  ASSUME NEW s \in Str, Len(s) < PATH_MAX, NEW absolute, NEW k \in 0 .. Len(Tokens(s))
  PROVE  Len(PartsAfter(Tokens(s), absolute)[k]) <= PATH_MAX \div 2
<1>1. Tokens(s) \in Seq(Plain) /\ Weight(Tokens(s)) = Len(s) + 1
  BY TokensPlain, TokensWeight
<1>2. PICK us \in Seq(Plain) : /\ PartsAfter(Tokens(s), absolute)[k] = Parts(us, absolute)
                               /\ Weight(us) <= Weight(Tokens(s))
  BY <1>1, PartsAfterPrefix
<1> DEFINE ps == Parts(us, absolute)
<1>3. ps \in Seq(Part)
  BY PartsPart
<1>4. Weight(ps) + Lead(us) <= Weight(us)
  BY PlainStrs, PartsWeight
<1> HIDE DEF ps
<1>5. 2 * Len(ps) <= Weight(ps)
  BY <1>3, CountWeight
<1>6. Weight(ps) \in Nat /\ Weight(us) \in Nat
  BY <1>3, PlainStrs, ConstStr, WeightFacts
<1>7. Len(ps) \in Nat /\ Len(s) \in Nat /\ PATH_MAX \in Nat /\ Lead(us) \in {0, 1}
  BY <1>3, PathNormAssumption DEF Str, Lead
<1>8. 2 * Len(ps) <= PATH_MAX
  BY <1>1, <1>2, <1>4, <1>5, <1>6, <1>7
<1>9. Len(ps) <= PATH_MAX \div 2
  <2> DEFINE c == Len(ps)
  <2> HIDE DEF c
  <2>1. c \in Nat /\ 2 * c <= PATH_MAX /\ PATH_MAX \in Nat
    BY <1>7, <1>8 DEF c
  <2>2. c <= PATH_MAX \div 2
    BY <2>1
  <2> QED BY <2>2 DEF c
<1> QED BY <1>2, <1>9 DEF ps

-----------------------------------------------------------------------------
(* The rebuilt path.                                                       *)

(* The empty list.                                                         *)
LEMMA EmptyList ==
  /\ <<>> \in Strs /\ <<>> \in Seq(Part) /\ <<>> \in Seq(Plain) /\ <<>> \in Str
  /\ Len(<<>>) = 0 /\ Weight(<<>>) = 0
  /\ \A out \in Outs : Rebuilt(out, <<>>) = out
  /\ \A dir \in Strs : Visit(dir, <<>>) = dir
<1>1. <<>> \in Strs /\ <<>> \in Seq(Part) /\ <<>> \in Seq(Plain) /\ <<>> \in Str /\ Len(<<>>) = 0
  BY EmptySeq DEF Strs, Str
<1>2. Weight(<<>>) = 0
  BY <1>1, WeightFacts
<1>3. ASSUME NEW out \in Outs PROVE Rebuilt(out, <<>>) = out
  BY <1>1, RebuiltAppend DEF Strs
<1>4. ASSUME NEW dir \in Strs PROVE Visit(dir, <<>>) = dir
  BY <1>1, VisitAppend DEF Strs
<1> QED BY <1>1, <1>2, <1>3, <1>4

(* Concatenation of strings.                                               *)
LEMMA StrConcat ==
  ASSUME NEW u \in Str, NEW v \in Str
  PROVE  /\ u \o v \in Str /\ Len(u) \in Nat /\ Len(v) \in Nat
         /\ Len(u \o v) = Len(u) + Len(v)
         /\ \A i \in 1 .. Len(u) + Len(v) :
              (u \o v)[i] = IF i <= Len(u) THEN u[i] ELSE v[i - Len(u)]
<1>1. u \in Seq(Chars) /\ v \in Seq(Chars)
  BY DEF Str
<1> QED BY <1>1, ConcatProperties DEF Str

(* The first character of a concatenation.                                 *)
LEMMA ConcatFirst ==
  ASSUME NEW u \in Str, NEW v \in Str, Len(u) > 0
  PROVE  (u \o v)[1] = u[1]
<1>1. /\ Len(u) \in Nat /\ Len(v) \in Nat
      /\ \A i \in 1 .. Len(u) + Len(v) :
           (u \o v)[i] = IF i <= Len(u) THEN u[i] ELSE v[i - Len(u)]
  BY StrConcat
<1>2. 1 \in 1 .. Len(u) + Len(v) /\ 1 <= Len(u)
  BY <1>1
<1> QED BY <1>1, <1>2

(* A component that fits is appended, after a slash if the buffer holds    *)
(* more than one character.                                                *)
LEMMA RebuildFits ==
  ASSUME NEW out \in Str, NEW part \in Str,
         Len(out) + (IF Len(out) > 1 THEN 1 ELSE 0) + Len(part) < PATH_MAX
  PROVE  /\ rebuild(out, part) = IF Len(out) > 1 THEN (out \o Slash) \o part ELSE out \o part
         /\ rebuild(out, part) \in Str
         /\ Len(rebuild(out, part)) = Len(out) + (IF Len(out) > 1 THEN 1 ELSE 0) + Len(part)
<1>1. out \in Outs /\ out # Fail /\ Slash \in Str /\ Len(Slash) = 1
      /\ Len(out) \in Nat /\ Len(part) \in Nat /\ PATH_MAX \in Nat
  BY FailNotStr, ConstStr, PathNormAssumption DEF Outs, Str
<1>2. CASE Len(out) > 1
  <2> DEFINE mid == append_str(out, Slash)
  <2>1. Len(out) + Len(Slash) < PATH_MAX
    BY <1>1, <1>2
  <2>2. mid # Fail /\ mid \in Outs /\ mid = out \o Slash /\ Len(mid) = Len(out) + 1
    BY <1>1, <2>1, AppendStrType
  <2>3. rebuild(out, part) = append_str(mid, part)
    BY <1>2 DEF rebuild
  <2> HIDE DEF mid
  <2>4. Len(mid) + Len(part) < PATH_MAX
    BY <1>1, <1>2, <2>2
  <2>5. append_str(mid, part) # Fail /\ append_str(mid, part) \in Outs
        /\ append_str(mid, part) = mid \o part
        /\ Len(append_str(mid, part)) = Len(mid) + Len(part)
    BY <2>2, <2>4, AppendStrType
  <2>6. append_str(mid, part) \in Str
    BY <2>5 DEF Outs
  <2> QED BY <1>1, <1>2, <2>2, <2>3, <2>5, <2>6
<1>3. CASE ~(Len(out) > 1)
  <2>1. rebuild(out, part) = append_str(out, part) /\ Len(out) + Len(part) < PATH_MAX
    BY <1>1, <1>3 DEF rebuild
  <2>2. append_str(out, part) # Fail /\ append_str(out, part) \in Outs
        /\ append_str(out, part) = out \o part
        /\ Len(append_str(out, part)) = Len(out) + Len(part)
    BY <1>1, <2>1, AppendStrType
  <2>3. append_str(out, part) \in Str
    BY <2>2 DEF Outs
  <2> QED BY <1>1, <1>3, <2>1, <2>2, <2>3
<1> QED BY <1>2, <1>3

(* The normal form of an absolute path with the given parts.               *)
Render(ps) == Rebuilt(Slash, ps)

(* Its length is that of its parts, each after a slash.                    *)
Rendered(ps) ==
  /\ Render(ps) \in Str
  /\ Len(Render(ps)) = IF ps = <<>> THEN 1 ELSE Weight(ps)
  /\ Render(ps)[1] = "/"

(* One more part is appended after a slash.                                *)
LEMMA RenderStep ==
  ASSUME NEW ps \in Seq(Part), NEW p \in Part, Rendered(ps), Weight(Append(ps, p)) < PATH_MAX
  PROVE  /\ Render(Append(ps, p)) = IF ps = <<>> THEN Slash \o p ELSE (Render(ps) \o Slash) \o p
         /\ Rendered(Append(ps, p))
<1> DEFINE out == Render(ps)
<1>1. ps \in Strs /\ p \in Str /\ Len(p) \in Nat \ {0} /\ Append(ps, p) # <<>>
  BY PlainStrs, AppendFacts
<1>2. Slash \in Outs /\ Slash \in Str /\ Len(Slash) = 1
  BY ConstStr DEF Outs
<1>3. Render(Append(ps, p)) = rebuild(out, p)
  BY <1>1, <1>2, RebuiltAppend DEF Strs, Render
<1>4. Weight(Append(ps, p)) = Weight(ps) + Len(p) + 1 /\ Weight(ps) \in Nat
  BY <1>1, WeightFacts
<1>5. out \in Str /\ Len(out) = (IF ps = <<>> THEN 1 ELSE Weight(ps)) /\ out[1] = "/"
  BY DEF Rendered
<1>6. ps = <<>> => out = Slash /\ Weight(ps) = 0
  BY <1>2, EmptyList DEF Render
<1> HIDE DEF out
<1>7. ps # <<>> => Weight(ps) >= 2
  <2>1. Len(ps) \in Nat /\ (ps # <<>> => Len(ps) # 0)
    BY EmptySeq
  <2>2. 2 * Len(ps) <= Weight(ps)
    BY CountWeight
  <2> QED BY <1>4, <2>1, <2>2
<1>8. /\ Len(out) > 1 <=> ps # <<>>
      /\ Len(out) + (IF Len(out) > 1 THEN 1 ELSE 0) + Len(p) = Weight(Append(ps, p))
  <2>1. CASE ps = <<>>
    BY <1>1, <1>4, <1>5, <1>6, <2>1
  <2>2. CASE ps # <<>>
    BY <1>1, <1>4, <1>5, <1>7, <2>2
  <2> QED BY <2>1, <2>2
<1>9. /\ rebuild(out, p) = IF Len(out) > 1 THEN (out \o Slash) \o p ELSE out \o p
      /\ rebuild(out, p) \in Str
      /\ Len(rebuild(out, p)) = Weight(Append(ps, p))
  BY <1>1, <1>5, <1>8, RebuildFits
<1>10. rebuild(out, p) = IF ps = <<>> THEN Slash \o p ELSE (out \o Slash) \o p
  BY <1>6, <1>8, <1>9
<1>11. rebuild(out, p)[1] = "/"
  <2>0. Len(out) \in Nat /\ Len(out) >= 1 /\ Len(p) \in Nat
    BY <1>1, <1>5, <1>7, <1>4
  <2>1. CASE Len(out) > 1
    <3>1. out \o Slash \in Str /\ Len(out \o Slash) = Len(out) + 1 /\ (out \o Slash)[1] = out[1]
      <4>1. out \o Slash \in Str /\ Len(out \o Slash) = Len(out) + Len(Slash)
        BY <1>2, <1>5, StrConcat
      <4>2. (out \o Slash)[1] = out[1]
        BY <1>2, <1>5, <2>1, ConcatFirst
      <4> QED BY <1>2, <4>1, <4>2
    <3>2. ((out \o Slash) \o p)[1] = (out \o Slash)[1]
      <4> DEFINE mid == out \o Slash
      <4> HIDE DEF mid
      <4>1. mid \in Str /\ Len(mid) = Len(out) + 1
        BY <3>1 DEF mid
      <4>2. (mid \o p)[1] = mid[1]
        BY <1>1, <2>0, <4>1, StrConcat
      <4> QED BY <4>2 DEF mid
    <3> QED BY <1>5, <1>9, <2>1, <3>1, <3>2
  <2>2. CASE ~(Len(out) > 1)
    <3>1. (out \o p)[1] = out[1]
      BY <1>1, <1>5, <2>0, ConcatFirst
    <3> QED BY <1>5, <1>9, <2>2, <3>1
  <2> QED BY <2>1, <2>2
<1> QED BY <1>1, <1>3, <1>9, <1>10, <1>11 DEF Rendered, out

(* The root.                                                               *)
LEMMA RenderRoot == Render(<<>>) = Slash /\ Rendered(<<>>)
<1>1. Slash \in Outs /\ Slash \in Str /\ Len(Slash) = 1 /\ Slash[1] = "/"
  BY ConstStr DEF Outs, Slash
<1>2. Render(<<>>) = Slash
  BY <1>1, EmptyList DEF Render
<1> QED BY <1>1, <1>2 DEF Rendered

(* The normal form of an absolute path fits when its parts do.             *)
LEMMA RenderFits ==
  ASSUME NEW ps \in Seq(Part), Weight(ps) < PATH_MAX
  PROVE  Rendered(ps)
<1> DEFINE A == {us \in Seq(Part) : Weight(us) < PATH_MAX => Rendered(us)}
<1>1. <<>> \in A
  BY RenderRoot, EmptyList
<1>2. ASSUME NEW us \in Seq(Part), NEW t \in Part, us \in A PROVE Append(us, t) \in A
  <2>1. Append(us, t) \in Seq(Part) /\ us \in Strs /\ t \in Str
    BY AppendFacts, PlainStrs
  <2>2. Weight(Append(us, t)) = Weight(us) + Len(t) + 1 /\ Weight(us) \in Nat /\ Len(t) \in Nat
    BY <2>1, WeightFacts
  <2>3. ASSUME Weight(Append(us, t)) < PATH_MAX PROVE Rendered(Append(us, t))
    <3>1. Weight(us) < PATH_MAX
      BY <2>2, <2>3, PathNormAssumption
    <3>2. Rendered(us)
      BY <1>2, <3>1
    <3> QED BY <2>3, <3>2, RenderStep
  <2> QED BY <2>1, <2>3
<1>3. Seq(Part) \subseteq A
  <2> HIDE DEF A
  <2> QED BY <1>1, <1>2, SeqSetInduction
<1> QED BY <1>3

(* The normal form of a relative path: it fits, and it does not begin      *)
(* with a slash.                                                           *)
LEMMA RelativeFits ==
  ASSUME NEW ps \in Seq(Part), Weight(ps) <= PATH_MAX
  PROVE  LET out == Rebuilt(<<>>, ps)
         IN /\ out \in Str
            /\ ps = <<>> => out = <<>>
            /\ ps # <<>> => Len(out) > 0 /\ Len(out) < Weight(ps) /\ out[1] # "/"
<1> DEFINE R(us) == Rebuilt(<<>>, us)
           P(us) == /\ R(us) \in Str
                    /\ us = <<>> => R(us) = <<>>
                    /\ us # <<>> => Len(R(us)) > 0 /\ Len(R(us)) < Weight(us) /\ R(us)[1] # "/"
           A == {us \in Seq(Part) : Weight(us) <= PATH_MAX => P(us)}
<1>0. <<>> \in Outs
  BY ConstStr DEF Outs
<1>1. <<>> \in A
  <2>1. R(<<>>) = <<>> /\ <<>> \in Str /\ <<>> \in Seq(Part)
    BY <1>0, EmptyList
  <2> QED BY <2>1
<1>2. ASSUME NEW us \in Seq(Part), NEW t \in Part, us \in A PROVE Append(us, t) \in A
  <2> DEFINE vs == Append(us, t)
             out == R(us)
  <2>1. vs \in Seq(Part) /\ vs # <<>> /\ us \in Strs /\ t \in Str /\ Len(t) \in Nat \ {0}
    BY AppendFacts, PlainStrs
  <2>2. Weight(vs) = Weight(us) + Len(t) + 1 /\ Weight(us) \in Nat /\ PATH_MAX \in Nat
    BY <2>1, WeightFacts, PathNormAssumption
  <2>3. R(vs) = rebuild(out, t)
    BY <1>0, <2>1, RebuiltAppend DEF Strs
  <2> HIDE DEF vs
  <2>4. ASSUME Weight(vs) <= PATH_MAX PROVE P(vs)
    <3>1. P(us)
      BY <1>2, <2>1, <2>2, <2>4
    <3>2. us = <<>> => Weight(us) = 0
      BY EmptyList
    <3>3. out \in Str /\ (us = <<>> => out = <<>>)
          /\ (us # <<>> => Len(out) > 0 /\ Len(out) < Weight(us) /\ out[1] # "/")
      BY <3>1
    <3> HIDE DEF out
    <3>4. Len(out) \in Nat /\ Len(<<>>) = 0
      BY <3>3, EmptyList DEF Str
    <3>5. Len(out) + (IF Len(out) > 1 THEN 1 ELSE 0) + Len(t) < Weight(vs)
      BY <2>1, <2>2, <3>2, <3>3, <3>4
    <3>6. /\ rebuild(out, t) = IF Len(out) > 1 THEN (out \o Slash) \o t ELSE out \o t
          /\ rebuild(out, t) \in Str
          /\ Len(rebuild(out, t)) = Len(out) + (IF Len(out) > 1 THEN 1 ELSE 0) + Len(t)
      <4>1. Len(out) + (IF Len(out) > 1 THEN 1 ELSE 0) + Len(t) < PATH_MAX
        BY <2>1, <2>2, <2>4, <3>4, <3>5
      <4> QED BY <2>1, <3>3, <4>1, RebuildFits
    <3>7. Len(rebuild(out, t)) > 0 /\ Len(rebuild(out, t)) < Weight(vs)
      BY <2>1, <3>4, <3>5, <3>6
    <3>8. t[1] # "/"
      BY <2>1 DEF Part, Plain
    <3>9. rebuild(out, t)[1] # "/"
      <4>1. CASE us = <<>>
        <5>1. rebuild(out, t) = out \o t /\ Len(out) = 0
          BY <3>3, <3>4, <3>6, <4>1
        <5>2. (out \o t)[1] = t[1]
          BY <2>1, <3>3, <5>1, StrConcat
        <5> QED BY <3>8, <5>1, <5>2
      <4>2. CASE us # <<>>
        <5>1. out[1] # "/" /\ Len(out) > 0
          BY <3>3, <4>2
        <5>2. CASE Len(out) > 1
          <6> DEFINE mid == out \o Slash
          <6>1. mid \in Str /\ Len(mid) = Len(out) + 1 /\ mid[1] = out[1]
            BY <3>3, <3>4, <5>1, ConstStr, StrConcat
          <6>2. rebuild(out, t) = mid \o t
            BY <3>6, <5>2
          <6> HIDE DEF mid
          <6>3. (mid \o t)[1] = mid[1]
            BY <2>1, <3>4, <6>1, StrConcat
          <6> QED BY <5>1, <6>1, <6>2, <6>3
        <5>3. CASE ~(Len(out) > 1)
          <6>1. rebuild(out, t) = out \o t
            BY <3>6, <5>3
          <6>2. (out \o t)[1] = out[1]
            BY <2>1, <3>3, <3>4, <5>1, StrConcat
          <6> QED BY <5>1, <6>1, <6>2
        <5> QED BY <5>2, <5>3
      <4> QED BY <4>1, <4>2
    <3> HIDE DEF R
    <3> QED BY <2>1, <2>3, <3>6, <3>7, <3>9 DEF out
  <2> HIDE DEF P
  <2> QED BY <2>1, <2>4 DEF vs
<1>3. Seq(Part) \subseteq A
  <2> HIDE DEF A
  <2> QED BY <1>1, <1>2, SeqSetInduction
<1> QED BY <1>3

-----------------------------------------------------------------------------
(* path_normalize_lexical.                                                 *)

(* A path that fits has a normal form that fits; the one of an absolute    *)
(* path is made of its parts, the other does not begin with a slash.       *)
LEMMA NormalForm ==
  ASSUME NEW s \in Str, Len(s) < PATH_MAX
  PROVE  LET n  == path_normalize_lexical(s)
             ps == Parts(Tokens(s), Absolute(s))
         IN /\ n \in Str /\ n # Fail /\ n # <<>> /\ Len(n) < PATH_MAX
            /\ ps \in Seq(Part)
            /\ Absolute(s) => Weight(ps) < PATH_MAX /\ n = Render(ps)
            /\ ~Absolute(s) => n[1] # "/"
<1> DEFINE ps == Parts(Tokens(s), Absolute(s))
           n == path_normalize_lexical(s)
<1>1. Tokens(s) \in Seq(Plain) /\ Tokens(s) # <<>> /\ Tokens(s) \in Strs /\ Weight(Tokens(s)) = Len(s) + 1
  BY TokensPlain, TokensWeight, PlainStrs
<1>2. ps \in Seq(Part) /\ Weight(ps) + Lead(Tokens(s)) <= Len(s) + 1
  BY <1>1, PartsPart, PartsWeight
<1>3. ps \in Strs /\ Weight(ps) \in Nat /\ Len(s) \in Nat /\ PATH_MAX \in Nat /\ PATH_MAX > 1
  BY <1>2, PlainStrs, ConstStr, WeightFacts, PathNormAssumption DEF Str
<1>4. n = LET out == Rebuilt(IF Absolute(s) THEN append_str(<<>>, Slash) ELSE <<>>, ps)
          IN IF out = <<>> THEN append_str(out, Dot) ELSE out
  BY <1>3 DEF path_normalize_lexical
<1> HIDE DEF ps, n
<1>5. CASE Absolute(s)
  <2>1. s # <<>> /\ Tokens(s)[1] = <<>>
    BY <1>5, TokensFirst DEF Absolute
  <2>2. Lead(Tokens(s)) = 1
    BY <1>1, <2>1 DEF Lead
  <2>3. Weight(ps) < PATH_MAX
    BY <1>2, <1>3, <2>2
  <2>4. Rendered(ps)
    BY <1>2, <2>3, RenderFits
  <2>5. append_str(<<>>, Slash) = Slash
    <3>1. <<>> \in Outs /\ <<>> # Fail /\ Slash \in Str /\ Len(<<>>) + Len(Slash) < PATH_MAX
      BY <1>3, ConstStr, FailNotStr DEF Outs
    <3>2. append_str(<<>>, Slash) = <<>> \o Slash
      BY <3>1, AppendStrType
    <3>3. <<>> \o Slash = Slash
      BY ConstStr, ConcatEmptySeq DEF Str
    <3> QED BY <3>2, <3>3
  <2>6. Render(ps) \in Str /\ Len(Render(ps)) = (IF ps = <<>> THEN 1 ELSE Weight(ps)) /\ Render(ps) # <<>>
    <3>1. Render(ps) \in Str /\ Len(Render(ps)) = (IF ps = <<>> THEN 1 ELSE Weight(ps))
      BY <2>4 DEF Rendered
    <3>2. ps # <<>> => Weight(ps) > 0
      <4>1. 2 * Len(ps) <= Weight(ps) /\ Len(ps) \in Nat /\ (ps # <<>> => Len(ps) # 0)
        BY <1>2, CountWeight, EmptySeq
      <4> QED BY <1>3, <4>1
    <3>3. Len(Render(ps)) # 0
      BY <1>3, <3>1, <3>2
    <3> QED BY <3>1, <3>3, EmptySeq
  <2>7. n = Render(ps)
    BY <1>4, <1>5, <2>5, <2>6 DEF Render
  <2>8. n # Fail /\ Len(n) < PATH_MAX
    BY <1>3, <2>3, <2>6, <2>7, FailNotStr
  <2> QED BY <1>2, <1>5, <2>3, <2>6, <2>7, <2>8 DEF ps, n
<1>6. CASE ~Absolute(s)
  <2> DEFINE out == Rebuilt(<<>>, ps)
  <2>1. Weight(ps) <= PATH_MAX
    <3>1. Lead(Tokens(s)) \in Nat
      BY DEF Lead
    <3> QED BY <1>2, <1>3, <3>1
  <2>2. /\ out \in Str
        /\ ps = <<>> => out = <<>>
        /\ ps # <<>> => Len(out) > 0 /\ Len(out) < Weight(ps) /\ out[1] # "/"
    BY <1>2, <2>1, RelativeFits
  <2>3. n = IF out = <<>> THEN append_str(<<>>, Dot) ELSE out
    BY <1>4, <1>6
  <2> HIDE DEF out
  <2>4. CASE out = <<>>
    <3>1. <<>> \in Outs /\ <<>> # Fail /\ Dot \in Str /\ Len(<<>>) + Len(Dot) < PATH_MAX
      BY <1>3, ConstStr, FailNotStr DEF Outs
    <3>2. append_str(<<>>, Dot) = <<>> \o Dot
      BY <3>1, AppendStrType
    <3>3. <<>> \o Dot = Dot
      BY ConstStr, ConcatEmptySeq DEF Str
    <3>4. n = Dot
      BY <2>3, <2>4, <3>2, <3>3
    <3>5. Dot \in Str /\ Dot # Fail /\ Dot # <<>> /\ Len(Dot) < PATH_MAX /\ Dot[1] # "/"
      BY <1>3, ConstStr, FailNotStr DEF Dot
    <3> QED BY <1>2, <1>6, <3>4, <3>5 DEF ps, n
  <2>5. CASE out # <<>>
    <3>1. n = out /\ ps # <<>>
      BY <2>2, <2>3, <2>5
    <3>2. out \in Str /\ Len(out) \in Nat /\ Len(out) < Weight(ps) /\ out[1] # "/"
      BY <2>2, <3>1 DEF Str
    <3>3. Len(out) < PATH_MAX /\ out # Fail
      BY <1>3, <2>1, <3>2, FailNotStr
    <3> QED BY <1>2, <1>6, <2>5, <3>1, <3>2, <3>3 DEF ps, n
  <2> QED BY <2>4, <2>5
<1> QED BY <1>5, <1>6

(* The last character of a component that was appended is not a slash.     *)
LEMMA RebuildEnd ==
  ASSUME NEW out \in Outs, NEW part \in Part, rebuild(out, part) # Fail
  PROVE  LET r == rebuild(out, part) IN Len(r) \in Nat \ {0} /\ r[Len(r)] # "/"
<1> DEFINE mid == IF Len(out) > 1 THEN append_str(out, Slash) ELSE out
           r == rebuild(out, part)
<1>1. part \in Str /\ Len(part) \in Nat \ {0}
  BY PlainStrs
<1>2. mid \in Outs
  BY ConstStr, AppendStrType
<1>3. r = append_str(mid, part)
  BY DEF rebuild
<1> HIDE DEF mid
<1>4. mid # Fail /\ r = mid \o part
  BY <1>1, <1>2, <1>3, AppendStrType
<1> HIDE DEF r
<1>5. mid \in Str
  BY <1>2, <1>4 DEF Outs
<1>6. /\ Len(mid) \in Nat /\ Len(r) = Len(mid) + Len(part)
      /\ \A i \in 1 .. Len(mid) + Len(part) : r[i] = IF i <= Len(mid) THEN mid[i] ELSE part[i - Len(mid)]
  BY <1>1, <1>4, <1>5, StrConcat
<1>7. /\ Len(r) \in 1 .. Len(mid) + Len(part) /\ ~(Len(r) <= Len(mid))
      /\ Len(r) - Len(mid) = Len(part) /\ Len(r) \in Nat \ {0}
  BY <1>1, <1>6
<1>8. r[Len(r)] = part[Len(part)]
  BY <1>6, <1>7
<1>9. Len(part) \in 1 .. Len(part)
  BY <1>1
<1>10. part[Len(part)] # "/"
  BY <1>9 DEF Part, Plain
<1> QED BY <1>7, <1>8, <1>10 DEF r

(* What is rebuilt of one or more parts ends in the last of them.          *)
LEMMA RebuiltEnd ==
  ASSUME NEW out \in Outs, NEW ps \in Seq(Part), ps # <<>>, Rebuilt(out, ps) # Fail
  PROVE  LET r == Rebuilt(out, ps) IN Len(r) \in Nat \ {0} /\ r[Len(r)] # "/"
<1> DEFINE us == Front(ps)
           t == Last(ps)
<1>1. us \in Seq(Part) /\ t \in Part /\ ps = Append(us, t)
  BY FrontLast
<1> HIDE DEF us, t
<1>2. us \in Seq(Str) /\ t \in Str
  BY <1>1, PlainStrs DEF Strs
<1>3. Rebuilt(out, us) \in Outs /\ Rebuilt(out, ps) = rebuild(Rebuilt(out, us), t)
  BY <1>1, <1>2, RebuiltAppend
<1> QED BY <1>1, <1>3, RebuildEnd

(* The normal form of a path ends in a slash only if it is the root: the   *)
(* loop of path_relative_to_root that strips trailing slashes from         *)
(* norm_root (utils.c, lines 269-271) never has one to strip.              *)
THEOREM NoTrailingSlash ==
  ASSUME NEW s \in Str, Len(s) < PATH_MAX
  PROVE  LET n == path_normalize_lexical(s) IN n = Slash \/ n[Len(n)] # "/"
<1> DEFINE ps == Parts(Tokens(s), Absolute(s))
           init == IF Absolute(s) THEN append_str(<<>>, Slash) ELSE <<>>
           out == Rebuilt(init, ps)
           n == path_normalize_lexical(s)
<1>1. ps \in Seq(Part)
  BY NormalForm
<1>2. n # Fail /\ n # <<>>
  BY NormalForm
<1>3. n = IF out = <<>> THEN append_str(out, Dot) ELSE out
  <2>1. ~(Len(s) >= PATH_MAX)
    BY PathNormAssumption DEF Str
  <2> QED BY <2>1 DEF path_normalize_lexical
<1>4. init \in Outs /\ (init = <<>> \/ init = Slash \/ init = Fail)
  <2>1. <<>> \in Outs /\ Slash \in Str
    BY ConstStr DEF Outs
  <2>2. append_str(<<>>, Slash) \in Outs
    BY <2>1, AppendStrType
  <2>3. append_str(<<>>, Slash) # Fail => append_str(<<>>, Slash) = <<>> \o Slash
    BY <2>1, AppendStrType
  <2>4. <<>> \o Slash = Slash
    BY ConstStr, ConcatEmptySeq DEF Str
  <2> QED BY <2>1, <2>2, <2>3, <2>4
<1> HIDE DEF ps, init, n
<1>5. CASE ps = <<>>
  <2>1. out = init
    BY <1>4, <1>5, EmptyList
  <2>2. append_str(<<>>, Dot) = Fail \/ append_str(<<>>, Dot) = Dot
    <3>1. <<>> \in Outs /\ Dot \in Str /\ <<>> \o Dot = Dot
      BY ConstStr, ConcatEmptySeq DEF Outs, Str
    <3> QED BY <3>1, AppendStrType
  <2>3. n = Slash \/ n = Dot
    BY <1>2, <1>3, <1>4, <2>1, <2>2
  <2>4. Dot[Len(Dot)] # "/"
    BY DEF Dot
  <2> QED BY <2>3, <2>4 DEF n
<1>6. CASE ps # <<>>
  <2> HIDE DEF out
  <2>1. out # Fail
    <3>1. <<>> # Fail
      BY ConstStr, FailNotStr
    <3> QED BY <1>2, <1>3, <3>1
  <2>2. Len(out) \in Nat \ {0} /\ out[Len(out)] # "/"
    BY <1>1, <1>4, <1>6, <2>1, RebuiltEnd DEF out
  <2>3. out # <<>>
    BY <2>2, ConstStr
  <2> QED BY <1>3, <2>2, <2>3 DEF n
<1> QED BY <1>5, <1>6

(* The names in a directory tree.                                          *)
Name == Part \ {Dot, DotDot}

(* Lists of names are lists of parts.                                      *)
LEMMA NameStrs == /\ Seq(Name) \subseteq Seq(Part) /\ Seq(Name) \subseteq Strs
                  /\ Name \subseteq Part /\ Name \subseteq Str
<1>1. Name \subseteq Part
  BY DEF Name
<1>2. Seq(Name) \subseteq Seq(Part)
  BY <1>1, SeqMonotonic
<1> QED BY <1>1, <1>2, PlainStrs

(* For an absolute path the parts are where the walk from the root leads.  *)
LEMMA PartsAreVisited ==
  ASSUME NEW ts \in Seq(Plain), NEW absolute, absolute
  PROVE  Parts(ts, absolute) \in Seq(Name) /\ Visit(<<>>, ts) = Parts(ts, absolute)
<1> DEFINE ps(us) == Parts(us, absolute)
           A == {us \in Seq(Plain) : ps(us) \in Seq(Name) /\ Visit(<<>>, us) = ps(us)}
<1>0. <<>> \in Strs /\ <<>> \in Seq(Name)
  BY EmptySeq DEF Strs
<1>1. <<>> \in A
  <2>1. ps(<<>>) = <<>>
    BY ConstStr, EmptyList, PartsAppend DEF Strs
  <2>2. Visit(<<>>, <<>>) = <<>>
    BY EmptyList
  <2> QED BY <1>0, <2>1, <2>2, EmptyList
<1>2. ASSUME NEW us \in Seq(Plain), NEW t \in Plain, us \in A PROVE Append(us, t) \in A
  <2> DEFINE d == ps(us)
  <2>1. us \in Seq(Str) /\ t \in Str /\ Append(us, t) \in Seq(Plain)
    BY PlainStrs, AppendFacts DEF Strs
  <2>2. ps(Append(us, t)) = push(d, t, absolute)
    BY <2>1, PartsAppend
  <2>3. Visit(<<>>, Append(us, t)) = visit(d, t)
    <3> DEFINE e == <<>>
    <3>1. e \in Strs /\ Visit(e, us) = d
      BY <1>0, <1>2
    <3> HIDE DEF e, d, ps
    <3>2. Visit(e, Append(us, t)) = visit(Visit(e, us), t)
      BY <2>1, <3>1, VisitAppend
    <3> QED BY <3>1, <3>2 DEF e
  <2>4. d \in Seq(Name)
    BY <1>2
  <2> HIDE DEF d, ps
  <2>5. d # <<>> => Front(d) \in Seq(Name) /\ Last(d) # DotDot
    <3>1. d # <<>> => Front(d) \in Seq(Name) /\ Last(d) \in Name
      BY <2>4, FrontLast
    <3> QED BY <3>1 DEF Name
  <2>6. CASE t \in {<<>>, Dot}
    BY <2>1, <2>2, <2>3, <2>4, <2>6 DEF push, visit
  <2>7. CASE t \notin {<<>>, Dot} /\ t # DotDot
    <3>1. Append(d, t) \in Seq(Name)
      <4>1. t \in Name
        BY <2>7 DEF Name, Part
      <4> QED BY <2>4, <4>1, AppendFacts
    <3> QED BY <2>1, <2>2, <2>3, <2>7, <3>1 DEF push, visit
  <2>8. CASE t \notin {<<>>, Dot} /\ t = DotDot /\ d = <<>>
    BY <2>1, <2>2, <2>3, <2>4, <2>8 DEF push, visit
  <2>9. CASE t \notin {<<>>, Dot} /\ t = DotDot /\ d # <<>>
    BY <2>1, <2>2, <2>3, <2>5, <2>9 DEF push, visit
  <2> QED BY <2>6, <2>7, <2>8, <2>9
<1>3. Seq(Plain) \subseteq A
  <2> HIDE DEF A
  <2> QED BY <1>1, <1>2, SeqSetInduction
<1> QED BY <1>3

(* Appending to a concatenation.                                           *)
LEMMA ConcatAppend ==
  ASSUME NEW S, NEW s \in Seq(S), NEW t \in Seq(S), NEW c \in S
  PROVE  s \o Append(t, c) = Append(s \o t, c)
<1>1. <<c>> \in Seq(S) /\ s \o t \in Seq(S)
  BY ConcatProperties
<1>2. Append(t, c) = t \o <<c>> /\ Append(s \o t, c) = (s \o t) \o <<c>>
  BY <1>1, AppendIsConcat
<1>3. (s \o t) \o <<c>> = s \o (t \o <<c>>)
  BY <1>1, ConcatAssociative
<1> QED BY <1>2, <1>3

(* A slash between two strings separates their tokens.                     *)
LEMMA TokensConcat ==
  ASSUME NEW s \in Str, NEW u \in Str
  PROVE  Tokens((s \o Slash) \o u) = Tokens(s) \o Tokens(u)
<1> DEFINE r == s \o Slash
           ts == Tokens(s)
           A == {v \in Seq(Chars) : Tokens(r \o v) = ts \o Tokens(v)}
<1>0. r = Append(s, "/") /\ r \in Str /\ ts \in Strs /\ "/" \in Chars /\ <<>> \in Strs /\ <<>> \in Str
  <2>1. "/" \in Chars /\ s \in Seq(Chars)
    BY PathNormAssumption DEF Str
  <2>2. Append(s, "/") = s \o <<"/">>
    BY <2>1, AppendIsConcat
  <2>3. ts \in TokenLists
    BY <2>1, TokensAppend
  <2> QED BY <2>1, <2>2, <2>3, StrAppend, ConstStr, EmptyList DEF Slash, TokenLists
<1>1. <<>> \in A
  <2>1. r \o <<>> = r
    BY <1>0, ConcatEmptySeq DEF Str
  <2>2. PICK fs \in Strs, l \in Str :
           /\ Tokens(s) = Append(fs, l)
           /\ Tokens(Append(s, "/")) = Append(Append(fs, l), <<>>)
    BY <1>0, SplitCases
  <2>3. Tokens(r) = Append(ts, <<>>)
    BY <1>0, <2>2
  <2> HIDE DEF r, ts
  <2>4. ts \o Append(<<>>, <<>>) = Append(ts \o <<>>, <<>>)
    BY <1>0, ConcatAppend DEF Strs
  <2>5. ts \o <<>> = ts
    BY <1>0, ConcatEmptySeq DEF Strs
  <2>6. Tokens(<<>>) = Append(<<>>, <<>>)
    BY TokensEmpty
  <2> QED BY <1>0, <2>1, <2>3, <2>4, <2>5, <2>6 DEF Str
<1> HIDE DEF r, ts
<1>2. ASSUME NEW v \in Seq(Chars), NEW c \in Chars, v \in A PROVE Append(v, c) \in A
  <2>1. r \o Append(v, c) = Append(r \o v, c) /\ r \o v \in Str /\ v \in Str
    BY <1>0, ConcatAppend, StrConcat DEF Str
  <2>2. Tokens(Append(r \o v, c)) = split(Tokens(r \o v), c)
    BY <2>1, TokensAppend DEF Str
  <2>3. PICK fs \in Strs, l \in Str :
           /\ Tokens(v) = Append(fs, l)
           /\ Tokens(Append(v, c)) = IF c = "/" THEN Append(Append(fs, l), <<>>)
                                     ELSE Append(fs, Append(l, c))
    BY <2>1, SplitCases
  <2> DEFINE gs == ts \o fs
  <2>4. gs \in Strs /\ ts \o Append(fs, l) = Append(gs, l)
    BY <1>0, ConcatAppend, ConcatProperties DEF Strs
  <2>5. Tokens(r \o v) = Append(gs, l)
    BY <1>2, <2>3, <2>4
  <2>6. Append(l, c) \in Str /\ Append(fs, l) \in Strs
    BY StrAppend DEF Strs
  <2>7. ts \o Append(fs, Append(l, c)) = Append(gs, Append(l, c))
    BY <1>0, <2>6, ConcatAppend DEF Strs
  <2>8. ts \o Append(Append(fs, l), <<>>) = Append(Append(gs, l), <<>>)
    BY <1>0, <2>4, <2>6, ConcatAppend DEF Strs
  <2> HIDE DEF gs
  <2>9. split(Append(gs, l), c) = IF c = "/" THEN Append(Append(gs, l), <<>>)
                                  ELSE Append(gs, Append(l, c))
    BY <2>4, SplitLast
  <2>10. Tokens(r \o Append(v, c)) = ts \o Tokens(Append(v, c))
    <3>1. CASE c = "/"
      BY <2>1, <2>2, <2>3, <2>5, <2>8, <2>9, <3>1
    <3>2. CASE c # "/"
      BY <2>1, <2>2, <2>3, <2>5, <2>7, <2>9, <3>2
    <3> QED BY <3>1, <3>2
  <2> QED BY <2>10, AppendFacts
<1>3. Seq(Chars) \subseteq A
  <2> HIDE DEF A
  <2> QED BY <1>1, <1>2, SeqSetInduction
<1> QED BY <1>3 DEF Str, r, ts

(* A string without slashes is its only token.                             *)
LEMMA TokensOne ==
  ASSUME NEW u \in Plain
  PROVE  Tokens(u) = Append(<<>>, u)
<1> DEFINE A == {v \in Seq(Chars) : v \in Plain => Tokens(v) = Append(<<>>, v)}
<1>1. <<>> \in A
  BY TokensEmpty, EmptySeq
<1>2. ASSUME NEW v \in Seq(Chars), NEW c \in Chars, v \in A PROVE Append(v, c) \in A
  <2> DEFINE w == Append(v, c)
  <2>1. /\ v \in Str /\ w \in Seq(Chars) /\ Len(v) \in Nat /\ Len(w) = Len(v) + 1
        /\ \A k \in 1 .. Len(v) : w[k] = v[k]
        /\ w[Len(v) + 1] = c
    BY AppendFacts DEF Str
  <2>2. Tokens(w) = split(Tokens(v), c)
    BY TokensAppend
  <2> HIDE DEF w
  <2>3. ASSUME w \in Plain PROVE Tokens(w) = Append(<<>>, w)
    <3>1. \A k \in 1 .. Len(w) : w[k] # "/"
      BY <2>3 DEF Plain
    <3>2. c # "/"
      BY <2>1, <3>1
    <3>3. v \in Plain
      <4>1. \A k \in 1 .. Len(v) : v[k] # "/"
        BY <2>1, <3>1
      <4> QED BY <2>1, <4>1 DEF Plain
    <3>4. Tokens(v) = Append(<<>>, v)
      BY <1>2, <3>3
    <3>5. split(Append(<<>>, v), c) = Append(<<>>, w)
      BY <2>1, <3>2, EmptyList, SplitLast DEF w
    <3> QED BY <2>2, <3>4, <3>5
  <2> QED BY <2>1, <2>3 DEF w
<1>3. Seq(Chars) \subseteq A
  <2> HIDE DEF A
  <2> QED BY <1>1, <1>2, SeqSetInduction
<1> QED BY <1>3 DEF Plain, Str

(* The list with the empty string, the first token of an absolute path.    *)
RootToken == << <<>> >>

(* The tokens of a normal form are its parts, after the empty one.         *)
LEMMA TokensRender ==
  ASSUME NEW ps \in Seq(Part), Weight(ps) < PATH_MAX, ps # <<>>
  PROVE  Tokens(Render(ps)) = RootToken \o ps
<1> DEFINE P(us) == Tokens(Render(us)) = RootToken \o us
           A == {us \in Seq(Part) : Weight(us) < PATH_MAX /\ us # <<>> => P(us)}
<1>0. RootToken \in Strs /\ Tokens(<<>>) = RootToken
  BY EmptyList, TokensEmpty DEF RootToken, Strs
<1>1. <<>> \in A
  BY EmptyList
<1>2. ASSUME NEW us \in Seq(Part), NEW t \in Part, us \in A PROVE Append(us, t) \in A
  <2> DEFINE vs == Append(us, t)
  <2>1. vs \in Seq(Part) /\ us \in Strs /\ t \in Str /\ t \in Plain
    BY AppendFacts, PlainStrs
  <2>2. Weight(vs) = Weight(us) + Len(t) + 1 /\ Weight(us) \in Nat /\ Len(t) \in Nat
    BY <2>1, WeightFacts
  <2>3. ASSUME Weight(vs) < PATH_MAX PROVE P(vs)
    <3>1. Weight(us) < PATH_MAX
      BY <2>2, <2>3, PathNormAssumption
    <3>2. Rendered(us)
      BY <3>1, RenderFits
    <3>3. Render(vs) = IF us = <<>> THEN Slash \o t ELSE (Render(us) \o Slash) \o t
      BY <2>3, <3>2, RenderStep
    <3>4. Render(us) \in Str /\ <<>> \in Str /\ <<>> \o Slash = Slash
      BY <3>2, ConstStr, ConcatEmptySeq DEF Rendered, Str
    <3>5. Tokens(t) = Append(<<>>, t)
      BY <2>1, TokensOne
    <3>6. ASSUME NEW xs \in Strs PROVE xs \o Append(<<>>, t) = Append(xs, t)
      <4>1. xs \o Append(<<>>, t) = Append(xs \o <<>>, t)
        BY <2>1, EmptyList, ConcatAppend DEF Strs
      <4>2. xs \o <<>> = xs
        BY ConcatEmptySeq DEF Strs
      <4> QED BY <4>1, <4>2
    <3>7. RootToken \o vs = Append(RootToken \o us, t) /\ RootToken \o us \in Strs
      BY <1>0, <2>1, ConcatAppend, ConcatProperties DEF Strs
    <3> HIDE DEF vs
    <3>8. CASE us = <<>>
      <4>1. Tokens((<<>> \o Slash) \o t) = RootToken \o Append(<<>>, t)
        BY <1>0, <2>1, <3>4, <3>5, TokensConcat
      <4>2. RootToken \o <<>> = RootToken
        BY <1>0, ConcatEmptySeq DEF Strs
      <4>3. RootToken \o Append(<<>>, t) = Append(RootToken, t)
        BY <1>0, <3>6
      <4>4. Render(vs) = (<<>> \o Slash) \o t
        BY <3>3, <3>4, <3>8
      <4> QED BY <3>7, <3>8, <4>1, <4>2, <4>3, <4>4
    <3>9. CASE us # <<>>
      <4>1. Tokens(Render(us)) = RootToken \o us
        BY <1>2, <3>1, <3>9
      <4>2. Tokens((Render(us) \o Slash) \o t) = (RootToken \o us) \o Append(<<>>, t)
        BY <2>1, <3>4, <3>5, <4>1, TokensConcat
      <4>3. (RootToken \o us) \o Append(<<>>, t) = Append(RootToken \o us, t)
        BY <3>6, <3>7
      <4> QED BY <3>3, <3>7, <3>9, <4>2, <4>3
    <3> QED BY <3>8, <3>9
  <2> HIDE DEF P
  <2> QED BY <2>1, <2>3
<1>3. Seq(Part) \subseteq A
  <2> HIDE DEF A
  <2> QED BY <1>1, <1>2, SeqSetInduction
<1> QED BY <1>3

-----------------------------------------------------------------------------
(* Below the prefix.                                                       *)

(* What follows a common beginning is the same.                            *)
LEMMA ConcatCancel ==
  ASSUME NEW S, NEW s \in Seq(S), NEW t \in Seq(S), NEW v \in Seq(S), s \o t = s \o v
  PROVE  t = v
<1>1. /\ Len(s) \in Nat /\ Len(t) \in Nat /\ Len(v) \in Nat
      /\ Len(s \o t) = Len(s) + Len(t) /\ Len(s \o v) = Len(s) + Len(v)
  BY ConcatProperties
<1>2. Len(t) = Len(v)
  BY <1>1
<1>3. ASSUME NEW i \in 1 .. Len(t) PROVE t[i] = v[i]
  <2>1. /\ Len(s) + i \in 1 .. Len(s) + Len(t) /\ Len(s) + i \in 1 .. Len(s) + Len(v)
        /\ ~(Len(s) + i <= Len(s)) /\ (Len(s) + i) - Len(s) = i
    BY <1>1, <1>2
  <2>2. (s \o t)[Len(s) + i] = t[i]
    BY <2>1, ConcatProperties
  <2>3. (s \o v)[Len(s) + i] = v[i]
    BY <2>1, ConcatProperties
  <2> QED BY <2>2, <2>3
<1> QED BY <1>2, <1>3, SeqEqual

(* A sequence is a prefix of what extends it.                              *)
LEMMA PrefixOfConcat ==
  ASSUME NEW S, NEW s \in Seq(S), NEW t \in Seq(S)
  PROVE  IsPrefix(s, s \o t)
<1>1. /\ s \o t \in Seq(S) /\ Len(s) \in Nat /\ Len(t) \in Nat /\ Len(s \o t) = Len(s) + Len(t)
      /\ \A i \in 1 .. Len(s) + Len(t) : (s \o t)[i] = IF i <= Len(s) THEN s[i] ELSE t[i - Len(s)]
  BY ConcatProperties
<1> DEFINE u == s \o t
           a == SubSeq(s, 1, Len(s))
           b == SubSeq(u, 1, Len(s))
<1>2. u \in Seq(S) /\ Len(u) = Len(s) + Len(t) /\ \A i \in 1 .. Len(s) : u[i] = s[i]
  BY <1>1
<1> HIDE DEF u
<1>3. a = s
  BY SubSeqFull
<1>4. \A i \in 1 .. Len(s) : u[i] \in S
  BY <1>1, <1>2
<1>5. /\ b \in Seq(S) /\ Len(b) = (IF 1 <= Len(s) THEN Len(s) - 1 + 1 ELSE 0)
      /\ \A i \in 1 .. Len(s) - 1 + 1 : b[i] = u[1 + i - 1]
  BY <1>1, <1>4, SubSeqProperties
<1>6. Len(b) = Len(s) /\ \A i \in 1 .. Len(s) : b[i] = s[i]
  BY <1>1, <1>2, <1>5
<1>7. b = s
  BY <1>5, <1>6, SeqEqual
<1>8. Len(s) <= Len(u) /\ a = b
  BY <1>1, <1>2, <1>3, <1>7
<1> QED BY <1>8 DEF IsPrefix, u

(* The elements of a prefix.                                               *)
LEMMA PrefixElements ==
  ASSUME NEW S, NEW s \in Seq(S), NEW u \in Seq(S), IsPrefix(s, u)
  PROVE  /\ Len(s) \in Nat /\ Len(u) \in Nat /\ Len(s) <= Len(u)
         /\ \A i \in 1 .. Len(s) : u[i] = s[i]
         /\ Len(s) = Len(u) => s = u
<1>1. Len(s) \in Nat /\ Len(u) \in Nat /\ Len(s) <= Len(u)
  BY DEF IsPrefix
<1>2. ASSUME NEW i \in 1 .. Len(s) PROVE u[i] = s[i]
  <2>1. \A k \in 1 .. Len(s) : s[k] \in S /\ u[k] \in S
    BY <1>1
  <2>2. SubSeq(s, 1, Len(s))[i] = s[1 + i - 1]
    BY <1>1, <2>1, SubSeqProperties
  <2>3. SubSeq(u, 1, Len(s))[i] = u[1 + i - 1]
    BY <1>1, <2>1, SubSeqProperties
  <2>4. SubSeq(s, 1, Len(s)) = SubSeq(u, 1, Len(s))
    BY DEF IsPrefix
  <2> QED BY <2>2, <2>3, <2>4
<1>3. Len(s) = Len(u) => s = u
  BY <1>2, SeqEqual
<1> QED BY <1>1, <1>2, <1>3

(* Conversely, elements that agree make a prefix.                          *)
LEMMA ElementsPrefix ==
  ASSUME NEW S, NEW s \in Seq(S), NEW u \in Seq(S), Len(s) <= Len(u),
         \A i \in 1 .. Len(s) : u[i] = s[i]
  PROVE  IsPrefix(s, u)
<1> DEFINE b == SubSeq(u, 1, Len(s))
<1>1. Len(s) \in Nat /\ Len(u) \in Nat /\ \A i \in 1 .. Len(s) : u[i] \in S
  OBVIOUS
<1>2. /\ b \in Seq(S) /\ Len(b) = (IF 1 <= Len(s) THEN Len(s) - 1 + 1 ELSE 0)
      /\ \A i \in 1 .. Len(s) - 1 + 1 : b[i] = u[1 + i - 1]
  BY <1>1, SubSeqProperties
<1>3. Len(b) = Len(s) /\ \A i \in 1 .. Len(s) : b[i] = s[i]
  BY <1>1, <1>2
<1>4. b = s
  BY <1>2, <1>3, SeqEqual
<1>5. SubSeq(s, 1, Len(s)) = s
  BY SubSeqFull
<1> QED BY <1>4, <1>5 DEF IsPrefix

(* A prefix of an extended sequence is all of it, or a prefix of the       *)
(* sequence.                                                               *)
LEMMA PrefixOfAppend ==
  ASSUME NEW S, NEW s \in Seq(S), NEW u \in Seq(S), NEW c \in S, IsPrefix(s, Append(u, c))
  PROVE  s = Append(u, c) \/ IsPrefix(s, u)
<1> DEFINE w == Append(u, c)
<1>1. w \in Seq(S) /\ Len(u) \in Nat /\ Len(w) = Len(u) + 1 /\ \A k \in 1 .. Len(u) : w[k] = u[k]
  BY AppendFacts
<1> HIDE DEF w
<1>2. /\ Len(s) \in Nat /\ Len(s) <= Len(w) /\ (Len(s) = Len(w) => s = w)
      /\ \A i \in 1 .. Len(s) : w[i] = s[i]
  BY <1>1, PrefixElements DEF w
<1>3. CASE Len(s) = Len(w)
  BY <1>2, <1>3 DEF w
<1>4. CASE Len(s) # Len(w)
  <2>1. Len(s) <= Len(u) /\ \A i \in 1 .. Len(s) : u[i] = s[i]
    BY <1>1, <1>2, <1>4
  <2> QED BY <2>1, ElementsPrefix
<1> QED BY <1>3, <1>4

(* A sequence of elements of T.                                            *)
LEMMA SeqRetype ==
  ASSUME NEW S, NEW T, NEW s \in Seq(S), \A i \in 1 .. Len(s) : s[i] \in T
  PROVE  s \in Seq(T)
<1>1. Len(s) \in Nat /\ s \in [1 .. Len(s) -> S]
  BY LenProperties
<1>2. s \in [1 .. Len(s) -> T]
  BY <1>1
<1> QED BY <1>1, <1>2, SeqDef

(* A walk over names goes down.                                            *)
LEMMA VisitNames ==
  ASSUME NEW dir \in Strs, NEW ns \in Seq(Name)
  PROVE  Visit(dir, ns) = dir \o ns
<1> DEFINE A == {us \in Seq(Name) : Visit(dir, us) = dir \o us}
<1>1. <<>> \in A
  BY EmptyList, EmptySeq, ConcatEmptySeq DEF Strs
<1>2. ASSUME NEW us \in Seq(Name), NEW t \in Name, us \in A PROVE Append(us, t) \in A
  <2>1. us \in Seq(Str) /\ t \in Str /\ Append(us, t) \in Seq(Name)
    BY NameStrs, AppendFacts DEF Strs
  <2>2. Visit(dir, Append(us, t)) = visit(Visit(dir, us), t)
    BY <2>1, VisitAppend
  <2>3. t \notin {<<>>, Dot} /\ t # DotDot
    BY DEF Name, Part
  <2>4. visit(dir \o us, t) = Append(dir \o us, t)
    BY <2>3 DEF visit
  <2>5. dir \o Append(us, t) = Append(dir \o us, t)
    BY <2>1, ConcatAppend DEF Strs
  <2> QED BY <1>2, <2>1, <2>2, <2>4, <2>5
<1>3. Seq(Name) \subseteq A
  <2> HIDE DEF A
  <2> QED BY <1>1, <1>2, SeqSetInduction
<1> QED BY <1>3

(* P is what T and the strings of rel between slashes make together.       *)
Rest(T, P, rel) == P = T \o Tokens(rel)

(* What is left of a path of names after a prefix of its names is again a  *)
(* path of names.                                                          *)
LEMMA RestIsPath ==
  ASSUME NEW T \in Seq(Name), NEW P \in Seq(Name), NEW rel \in Str, Rest(T, P, rel)
  PROVE  T \o Components(rel) = P /\ Walk(T, rel) = P
<1> DEFINE ts == Tokens(rel)
<1>1. ts \in Strs /\ ts # <<>>
  BY TokensPlain, PlainStrs
<1>2. rel = <<>> => ts[1] = <<>>
  BY TokensEmpty
<1>3. T \in Strs
  BY NameStrs
<1> HIDE DEF ts
<1>4. /\ Len(T) \in Nat /\ Len(ts) \in Nat \ {0} /\ Len(P) = Len(T) + Len(ts)
      /\ \A i \in 1 .. Len(T) + Len(ts) : P[i] = IF i <= Len(T) THEN T[i] ELSE ts[i - Len(T)]
  BY <1>1, <1>3, ConcatProperties, EmptySeq DEF Strs, ts, Rest
<1>5. ASSUME NEW i \in 1 .. Len(ts) PROVE ts[i] \in Name
  <2>1. /\ Len(T) + i \in 1 .. Len(T) + Len(ts) /\ ~(Len(T) + i <= Len(T))
        /\ (Len(T) + i) - Len(T) = i /\ Len(T) + i \in 1 .. Len(P)
    BY <1>4
  <2>2. P[Len(T) + i] = ts[i]
    BY <1>4, <2>1
  <2>3. P[Len(T) + i] \in Name
    BY <2>1, ElementOfSeq
  <2> QED BY <2>2, <2>3
<1>6. ts \in Seq(Name)
  <2>1. ts \in Seq(Str)
    BY <1>1 DEF Strs
  <2> QED BY <1>5, <2>1, SeqRetype
<1>7. ts[1] # <<>>
  BY <1>4, <1>5 DEF Name, Part
<1>8. rel # <<>> /\ ~Absolute(rel)
  BY <1>2, <1>7, TokensFirst DEF ts
<1>9. Walk(T, rel) = Visit(T, ts)
  BY <1>8 DEF Walk, ts
<1>10. Visit(T, ts) = T \o ts
  BY <1>3, <1>6, VisitNames
<1> QED BY <1>8, <1>9, <1>10 DEF Components, ts, Rest

(* A list of names whose normal form fits.                                 *)
Fits(ps) == ps \in Seq(Name) /\ Weight(ps) < PATH_MAX

(* What is known of its normal form.                                       *)
LEMMA FitsFacts ==
  ASSUME NEW ps, Fits(ps)
  PROVE  /\ ps \in Seq(Part) /\ ps \in Strs /\ Weight(ps) < PATH_MAX
         /\ Render(ps) \in Str /\ Render(ps)[1] = "/" /\ Len(Render(ps)) \in Nat \ {0}
         /\ Render(ps) = Slash <=> ps = <<>>
         /\ ps # <<>> => Tokens(Render(ps)) = RootToken \o ps
<1>1. ps \in Seq(Part) /\ ps \in Strs /\ Weight(ps) < PATH_MAX
  BY NameStrs DEF Fits
<1>2. Rendered(ps)
  BY <1>1, RenderFits
<1>3. /\ Render(ps) \in Str /\ Render(ps)[1] = "/"
      /\ Len(Render(ps)) = IF ps = <<>> THEN 1 ELSE Weight(ps)
  BY <1>2 DEF Rendered
<1>4. ps # <<>> => Weight(ps) > 1
  <2>1. 2 * Len(ps) <= Weight(ps) /\ Len(ps) \in Nat /\ (ps # <<>> => Len(ps) # 0)
    BY <1>1, CountWeight, EmptySeq
  <2>2. Weight(ps) \in Nat
    BY <1>1, ConstStr, WeightFacts
  <2> QED BY <2>1, <2>2
<1>5. Weight(ps) \in Nat /\ Len(Slash) = 1
  BY <1>1, ConstStr, WeightFacts
<1>6. Len(Render(ps)) \in Nat \ {0}
  BY <1>3, <1>4, <1>5
<1>7. ASSUME ps # <<>> PROVE Render(ps) # Slash
  <2>1. Len(Render(ps)) > 1
    BY <1>3, <1>4, <1>7
  <2> QED BY <1>5, <2>1
<1> QED BY <1>1, <1>3, <1>6, <1>7, RenderRoot, TokensRender

(* Two lists of names have the same normal form only if they are the same. *)
LEMMA RenderInjective ==
  ASSUME NEW P, NEW Q, Fits(P), Fits(Q), Render(P) = Render(Q)
  PROVE  P = Q
<1>1. P = <<>> <=> Q = <<>>
  BY FitsFacts
<1>2. CASE P # <<>>
  <2>1. RootToken \o P = RootToken \o Q /\ P \in Strs /\ Q \in Strs
    BY <1>1, <1>2, FitsFacts
  <2>2. RootToken \in Strs
    BY EmptyList DEF RootToken, Strs
  <2> QED BY <2>1, <2>2, ConcatCancel DEF Strs
<1> QED BY <1>1, <1>2

(* The normal form of a path below another begins with that other's normal *)
(* form and a slash.                                                       *)
LEMMA RenderExtends ==
  ASSUME NEW T, NEW P, Fits(T), Fits(P), T # <<>>, T # P, IsPrefix(T, P)
  PROVE  \E rel \in Str : Render(P) = (Render(T) \o Slash) \o rel
<1> DEFINE r == Render(T) \o Slash
           Q(us) == \E rel \in Str : Render(us) = r \o rel
           A == {us \in Seq(Name) : Weight(us) < PATH_MAX /\ T # us /\ IsPrefix(T, us) => Q(us)}
<1>0. T \in Seq(Name) /\ Render(T) \in Str /\ Slash \in Str /\ r \in Str
  BY FitsFacts, ConstStr, StrConcat DEF Fits
<1>1. <<>> \in A
  <2>1. IsPrefix(T, <<>>) => T = <<>>
    <3>1. Len(T) \in Nat /\ (T # <<>> => Len(T) # 0) /\ Len(<<>>) = 0
      BY <1>0, EmptySeq
    <3> QED BY <3>1 DEF IsPrefix
  <2> QED BY <2>1, EmptySeq
<1>2. ASSUME NEW us \in Seq(Name), NEW t \in Name, us \in A PROVE Append(us, t) \in A
  <2> DEFINE vs == Append(us, t)
  <2>1. vs \in Seq(Name) /\ us \in Strs /\ us \in Seq(Part) /\ t \in Str /\ t \in Part
    BY AppendFacts, NameStrs
  <2>2. Weight(vs) = Weight(us) + Len(t) + 1 /\ Weight(us) \in Nat /\ Len(t) \in Nat
    BY <2>1, WeightFacts
  <2>3. ASSUME Weight(vs) < PATH_MAX, T # vs, IsPrefix(T, vs) PROVE Q(vs)
    <3>1. Weight(us) < PATH_MAX
      BY <2>2, <2>3, PathNormAssumption
    <3>2. Rendered(us)
      BY <2>1, <3>1, RenderFits
    <3>3. Render(vs) = IF us = <<>> THEN Slash \o t ELSE (Render(us) \o Slash) \o t
      BY <2>1, <2>3, <3>2, RenderStep
    <3>4. IsPrefix(T, us)
      BY <1>0, <2>3, PrefixOfAppend
    <3>5. us # <<>>
      <4>1. Len(T) \in Nat /\ Len(T) # 0 /\ Len(T) <= Len(us)
        BY <1>0, <3>4, PrefixElements, EmptySeq
      <4> QED BY <4>1, EmptyList
    <3> HIDE DEF vs
    <3>6. Render(vs) = (Render(us) \o Slash) \o t
      BY <3>3, <3>5
    <3>7. CASE T = us
      BY <2>1, <3>6, <3>7
    <3>8. CASE T # us
      <4>1. PICK rel \in Str : Render(us) = r \o rel
        BY <1>2, <3>1, <3>4, <3>8
      <4> HIDE DEF r
      <4>2. /\ r \in Seq(Chars) /\ rel \in Seq(Chars) /\ Slash \in Seq(Chars) /\ t \in Seq(Chars)
            /\ rel \o Slash \in Seq(Chars) /\ (rel \o Slash) \o t \in Seq(Chars)
        BY <1>0, <2>1, ConcatProperties DEF Str
      <4>3. (r \o rel) \o Slash = r \o (rel \o Slash)
        BY <4>2, ConcatAssociative
      <4>4. (r \o (rel \o Slash)) \o t = r \o ((rel \o Slash) \o t)
        <5> DEFINE q == rel \o Slash
        <5> HIDE DEF q
        <5>1. q \in Seq(Chars)
          BY <4>2 DEF q
        <5>2. (r \o q) \o t = r \o (q \o t)
          BY <4>2, <5>1, ConcatAssociative
        <5> QED BY <5>2 DEF q
      <4>5. Render(vs) = r \o ((rel \o Slash) \o t)
        BY <3>6, <4>1, <4>3, <4>4
      <4> QED BY <4>2, <4>5 DEF Str
    <3> QED BY <3>7, <3>8
  <2> HIDE DEF Q
  <2> QED BY <2>1, <2>3
<1>3. Seq(Name) \subseteq A
  <2> HIDE DEF A
  <2> QED BY <1>1, <1>2, SeqSetInduction
<1>4. Q(P)
  BY <1>3 DEF Fits
<1> QED BY <1>4

(* A string and a slash.                                                   *)
LEMMA SlashEnd ==
  ASSUME NEW a \in Str
  PROVE  LET c == a \o Slash
         IN /\ c \in Str /\ Len(a) \in Nat /\ Len(c) = Len(a) + 1
            /\ \A i \in 1 .. Len(a) : c[i] = a[i]
            /\ c[Len(a) + 1] = "/"
<1> DEFINE c == a \o Slash
           w == Append(a, "/")
<1>1. "/" \in Chars /\ a \in Seq(Chars)
  BY ConstStr DEF Str
<1>2. w = c
  BY <1>1, AppendIsConcat DEF Slash
<1>3. /\ w \in Str /\ Len(a) \in Nat /\ Len(w) = Len(a) + 1
      /\ \A i \in 1 .. Len(a) : w[i] = a[i]
      /\ w[Len(a) + 1] = "/"
  BY <1>1, StrAppend
<1> HIDE DEF c, w
<1>4. /\ c \in Str /\ Len(a) \in Nat /\ Len(c) = Len(a) + 1
      /\ \A i \in 1 .. Len(a) : c[i] = a[i]
      /\ c[Len(a) + 1] = "/"
  BY <1>2, <1>3
<1> QED BY <1>4 DEF c

(* What below leaves out of a string after a root and a slash.             *)
LEMMA AfterSlash ==
  ASSUME NEW a \in Str, NEW b \in Str, IsPrefix(a, b), a # b, b[Len(a) + 1] = "/"
  PROVE  LET rel == SubSeq(b, Len(a) + 2, Len(b))
         IN rel \in Str /\ Len(rel) < Len(b) /\ b = (a \o Slash) \o rel
<1> DEFINE rel == SubSeq(b, Len(a) + 2, Len(b))
           c == a \o Slash
<1>0. a \in Seq(Chars) /\ b \in Seq(Chars)
  BY DEF Str
<1>1. /\ Len(a) \in Nat /\ Len(b) \in Nat /\ Len(a) < Len(b)
      /\ \A i \in 1 .. Len(a) : b[i] = a[i]
  BY <1>0, PrefixElements
<1>2. \A i \in Len(a) + 2 .. Len(b) : b[i] \in Chars
  BY <1>0, <1>1
<1>3. Len(a) + 2 \in Int /\ Len(b) \in Int
  BY <1>1
<1>4. /\ rel \in Seq(Chars)
      /\ Len(rel) = (IF Len(a) + 2 <= Len(b) THEN Len(b) - (Len(a) + 2) + 1 ELSE 0)
      /\ \A i \in 1 .. Len(b) - (Len(a) + 2) + 1 : rel[i] = b[(Len(a) + 2) + i - 1]
  BY <1>2, <1>3, SubSeqProperties
<1> HIDE DEF rel
<1>5. Len(rel) = Len(b) - Len(a) - 1 /\ \A i \in 1 .. Len(rel) : rel[i] = b[Len(a) + 1 + i]
  <2>1. Len(rel) = Len(b) - Len(a) - 1
    BY <1>1, <1>4
  <2>2. ASSUME NEW i \in 1 .. Len(rel) PROVE rel[i] = b[Len(a) + 1 + i]
    <3>1. i \in 1 .. Len(b) - (Len(a) + 2) + 1 /\ (Len(a) + 2) + i - 1 = Len(a) + 1 + i
      BY <1>1, <2>1
    <3> QED BY <1>4, <3>1
  <2> QED BY <2>1, <2>2
<1>7. /\ c \in Str /\ Len(c) = Len(a) + 1
      /\ \A i \in 1 .. Len(a) : c[i] = a[i]
      /\ c[Len(a) + 1] = "/"
  BY SlashEnd
<1> HIDE DEF c
<1>8. ASSUME NEW i \in 1 .. Len(a) + 1 PROVE c[i] = b[i]
  <2>1. CASE i = Len(a) + 1
    BY <1>7, <2>1
  <2>2. CASE i # Len(a) + 1
    <3>1. i \in 1 .. Len(a)
      BY <1>1, <2>2
    <3> QED BY <1>1, <1>7, <3>1
  <2> QED BY <2>1, <2>2
<1>9. rel \in Str
  BY <1>4 DEF Str
<1>10. /\ c \o rel \in Str /\ Len(c \o rel) = Len(c) + Len(rel)
       /\ \A i \in 1 .. Len(c) + Len(rel) :
            (c \o rel)[i] = IF i <= Len(c) THEN c[i] ELSE rel[i - Len(c)]
  BY <1>7, <1>9, StrConcat
<1>11. Len(c \o rel) = Len(b)
  BY <1>1, <1>5, <1>7, <1>10
<1>12. ASSUME NEW i \in 1 .. Len(b) PROVE b[i] = (c \o rel)[i]
  <2>0. i \in 1 .. Len(c) + Len(rel)
    BY <1>1, <1>5, <1>7
  <2>1. CASE i <= Len(c)
    <3>1. i \in 1 .. Len(a) + 1
      BY <1>1, <1>7, <2>1
    <3> QED BY <1>8, <1>10, <2>0, <2>1, <3>1
  <2>2. CASE ~(i <= Len(c))
    <3>1. i - Len(c) \in 1 .. Len(rel) /\ Len(a) + 1 + (i - Len(c)) = i
      BY <1>1, <1>5, <1>7, <2>2
    <3>2. rel[i - Len(c)] = b[Len(a) + 1 + (i - Len(c))]
      BY <1>5, <3>1
    <3> QED BY <1>10, <2>0, <2>2, <3>1, <3>2
  <2> QED BY <2>1, <2>2
<1>13. b = c \o rel
  BY <1>0, <1>10, <1>11, <1>12, SeqEqual DEF Str
<1>14. Len(rel) < Len(b)
  BY <1>1, <1>5
<1> QED BY <1>9, <1>13, <1>14 DEF rel, c

(* A string, a slash and another string.                                   *)
LEMMA SlashAfter ==
  ASSUME NEW a \in Str, NEW u \in Str
  PROVE  LET b == (a \o Slash) \o u
         IN b \in Str /\ IsPrefix(a, b) /\ a # b /\ b[Len(a) + 1] = "/"
<1> DEFINE c == a \o Slash
           b == c \o u
<1>2. /\ c \in Str /\ Len(a) \in Nat /\ Len(c) = Len(a) + 1
      /\ \A i \in 1 .. Len(a) : c[i] = a[i]
      /\ c[Len(a) + 1] = "/"
  BY SlashEnd
<1> HIDE DEF c
<1>3. /\ b \in Str /\ Len(u) \in Nat /\ Len(b) = Len(c) + Len(u)
      /\ \A i \in 1 .. Len(c) + Len(u) : b[i] = IF i <= Len(c) THEN c[i] ELSE u[i - Len(c)]
  BY <1>2, StrConcat
<1> HIDE DEF b
<1>4. ASSUME NEW i \in 1 .. Len(a) PROVE b[i] = a[i]
  <2>1. i \in 1 .. Len(c) + Len(u) /\ i <= Len(c)
    BY <1>2, <1>3
  <2> QED BY <1>2, <1>3, <2>1
<1>5. b[Len(a) + 1] = "/"
  <2>1. Len(a) + 1 \in 1 .. Len(c) + Len(u) /\ Len(a) + 1 <= Len(c)
    BY <1>2, <1>3
  <2> QED BY <1>2, <1>3, <2>1
<1>6. Len(a) < Len(b)
  BY <1>2, <1>3
<1>7. IsPrefix(a, b)
  BY <1>2, <1>3, <1>4, <1>6, ElementsPrefix DEF Str
<1> QED BY <1>2, <1>3, <1>5, <1>6, <1>7 DEF b, c

(* path_relative_to_root on the normal forms.                              *)
RelativeOf(norm_root, norm_path) ==
  IF norm_root # Slash THEN below(norm_root, norm_path)
  ELSE IF Absolute(norm_path) THEN Tail(norm_path) ELSE Fail

(* What comes out of it is a string that is shorter than the path, or      *)
(* false.                                                                  *)
LEMMA RelativeType ==
  ASSUME NEW a \in Str, NEW b \in Str, b # <<>>
  PROVE  LET rel == RelativeOf(a, b)
         IN rel = Fail \/ (rel \in Str /\ Len(rel) < Len(b))
<1>1. Len(b) \in Nat \ {0} /\ <<>> \in Str /\ Len(<<>>) = 0
  BY EmptySeq, EmptyList DEF Str
<1>2. CASE a # Slash
  <2>1. RelativeOf(a, b) = below(a, b)
    BY <1>2 DEF RelativeOf
  <2>2. CASE ~IsPrefix(a, b)
    BY <2>1, <2>2 DEF below
  <2>3. CASE IsPrefix(a, b) /\ b = a
    BY <1>1, <2>1, <2>3 DEF below
  <2>4. CASE IsPrefix(a, b) /\ b # a /\ b[Len(a) + 1] # "/"
    BY <2>1, <2>4 DEF below
  <2>5. CASE IsPrefix(a, b) /\ b # a /\ b[Len(a) + 1] = "/"
    <3>1. below(a, b) = SubSeq(b, Len(a) + 2, Len(b))
      BY <2>5 DEF below
    <3>2. SubSeq(b, Len(a) + 2, Len(b)) \in Str /\ Len(SubSeq(b, Len(a) + 2, Len(b))) < Len(b)
      BY <2>5, AfterSlash
    <3> QED BY <2>1, <3>1, <3>2
  <2> QED BY <2>2, <2>3, <2>4, <2>5
<1>3. CASE a = Slash
  <2>1. Tail(b) \in Str /\ Len(Tail(b)) = Len(b) - 1
    BY HeadTailProperties DEF Str
  <2>2. RelativeOf(a, b) = Tail(b) \/ RelativeOf(a, b) = Fail
    BY <1>3 DEF RelativeOf
  <2>3. Len(b) - 1 < Len(b)
    BY <1>1
  <2> QED BY <2>1, <2>2, <2>3
<1> QED BY <1>2, <1>3

(* A string and what follows its first slash.                              *)
LEMMA AfterRoot ==
  ASSUME NEW b \in Str, Len(b) > 0, b[1] = "/"
  PROVE  Tail(b) \in Str /\ b = (<<>> \o Slash) \o Tail(b) /\ (b = Slash => Tail(b) = <<>>)
<1> DEFINE u == Tail(b)
<1>1. /\ b \in Seq(Chars) /\ b # <<>> /\ Len(b) \in Nat
  BY EmptySeq DEF Str
<1>2. /\ u \in Seq(Chars) /\ Len(u) = Len(b) - 1
      /\ \A i \in 1 .. Len(u) : u[i] = b[i + 1]
  BY <1>1, HeadTailProperties
<1> HIDE DEF u
<1>3. <<>> \o Slash = Slash /\ Slash \in Str /\ Len(Slash) = 1 /\ Slash[1] = "/"
  BY ConstStr, ConcatEmptySeq DEF Str, Slash
<1>4. u \in Str
  BY <1>2 DEF Str
<1>5. /\ Slash \o u \in Str /\ Len(Slash \o u) = Len(Slash) + Len(u)
      /\ \A i \in 1 .. Len(Slash) + Len(u) :
           (Slash \o u)[i] = IF i <= Len(Slash) THEN Slash[i] ELSE u[i - Len(Slash)]
  BY <1>3, <1>4, StrConcat
<1>6. Len(Slash \o u) = Len(b)
  BY <1>1, <1>2, <1>3, <1>5
<1>7. ASSUME NEW i \in 1 .. Len(b) PROVE b[i] = (Slash \o u)[i]
  <2>0. i \in 1 .. Len(Slash) + Len(u)
    BY <1>1, <1>2, <1>3
  <2>1. CASE i = 1
    BY <1>3, <1>5, <2>0, <2>1
  <2>2. CASE i # 1
    <3>1. ~(i <= Len(Slash)) /\ i - Len(Slash) = i - 1 /\ i - 1 \in 1 .. Len(u) /\ (i - 1) + 1 = i
      BY <1>1, <1>2, <1>3, <2>2
    <3>2. u[i - 1] = b[i]
      BY <1>2, <3>1
    <3> QED BY <1>5, <2>0, <3>1, <3>2
  <2> QED BY <2>1, <2>2
<1>8. b = Slash \o u
  BY <1>1, <1>5, <1>6, <1>7, SeqEqual DEF Str
<1>9. b = Slash => u = <<>>
  <2>1. ASSUME b = Slash PROVE Len(u) = 0
    <3>1. Len(b) = 1
      BY <1>3, <2>1
    <3> QED BY <1>2, <3>1
  <2> QED BY <1>2, <2>1, EmptySeq
<1> QED BY <1>3, <1>4, <1>8, <1>9 DEF u

(* On the normal forms of two lists of names it finds out whether the      *)
(* first is a prefix of the second, and the rest of the second.            *)
LEMMA RelativeNames ==
  ASSUME NEW T, NEW P, Fits(T), Fits(P)
  PROVE  LET rel == RelativeOf(Render(T), Render(P))
         IN /\ (rel # Fail) <=> IsPrefix(T, P)
            /\ rel # Fail => T \o Components(rel) = P /\ Walk(T, rel) = P
<1> DEFINE a == Render(T)
           b == Render(P)
           rel == RelativeOf(a, b)
<1>1. /\ T \in Seq(Name) /\ P \in Seq(Name) /\ T \in Strs /\ P \in Strs
      /\ a \in Str /\ b \in Str /\ b[1] = "/" /\ Len(b) \in Nat \ {0}
      /\ (a = Slash <=> T = <<>>) /\ (b = Slash <=> P = <<>>)
      /\ (T # <<>> => Tokens(a) = RootToken \o T) /\ (P # <<>> => Tokens(b) = RootToken \o P)
  BY FitsFacts DEF Fits
<1>2. RootToken \in Strs /\ Tokens(<<>>) = RootToken /\ <<>> \in Str
  BY EmptyList, TokensEmpty DEF RootToken, Strs
<1>3. a = b => T = P
  BY RenderInjective
<1>4. T # <<>> /\ T # P /\ IsPrefix(T, P) => \E u \in Str : b = (a \o Slash) \o u
  BY RenderExtends
<1>e. Components(<<>>) = <<>> /\ <<>> # Fail /\ T \o <<>> = T /\ Walk(T, <<>>) = T /\ IsPrefix(T, T)
  <2>1. Components(<<>>) = <<>>
    BY DEF Components
  <2>2. <<>> # Fail
    BY <1>2, FailNotStr
  <2>3. T \o <<>> = T
    BY <1>1, ConcatEmptySeq
  <2>4. IsPrefix(T, T)
    BY <1>1, <2>3, PrefixOfConcat, EmptySeq
  <2>5. Walk(T, <<>>) = T
    <3>1. ~Absolute(<<>>)
      BY DEF Absolute
    <3>2. Walk(T, <<>>) = Visit(T, Append(<<>>, <<>>))
      BY <3>1, TokensEmpty DEF Walk
    <3>3. Visit(T, Append(<<>>, <<>>)) = visit(Visit(T, <<>>), <<>>)
      <4> DEFINE e == <<>>
      <4>1. T \in Strs /\ e \in Seq(Str) /\ e \in Str
        BY <1>1, EmptyList DEF Strs
      <4> HIDE DEF e
      <4>2. Visit(T, Append(e, e)) = visit(Visit(T, e), e)
        BY <4>1, VisitAppend
      <4> QED BY <4>2 DEF e
    <3>4. Visit(T, <<>>) = T
      BY <1>1, EmptyList
    <3> QED BY <3>2, <3>3, <3>4 DEF visit
  <2> QED BY <2>1, <2>2, <2>3, <2>4, <2>5
<1> HIDE DEF a, b
<1>5. CASE T = <<>>
  <2>1. a = Slash /\ Absolute(b)
    BY <1>1, <1>5, EmptySeq DEF Absolute
  <2>2. rel = Tail(b)
    BY <2>1 DEF RelativeOf
  <2>3. Tail(b) \in Str /\ b = (<<>> \o Slash) \o Tail(b) /\ (b = Slash => Tail(b) = <<>>)
    BY <1>1, AfterRoot
  <2> HIDE DEF rel
  <2>4. rel # Fail
    BY <2>2, <2>3, FailNotStr
  <2>5. IsPrefix(T, P)
    <3>1. <<>> \o P = P /\ <<>> \in Seq(Name)
      BY <1>1, ConcatEmptySeq, EmptySeq
    <3>2. IsPrefix(<<>>, <<>> \o P)
      BY <1>1, <3>1, PrefixOfConcat
    <3> QED BY <1>5, <3>1, <3>2
  <2>6. CASE P = <<>>
    <3>1. rel = <<>>
      BY <1>1, <2>2, <2>3, <2>6
    <3> QED BY <1>e, <1>5, <2>4, <2>5, <2>6, <3>1 DEF rel, a, b
  <2>7. CASE P # <<>>
    <3>1. Tokens(b) = Tokens(<<>>) \o Tokens(rel)
      BY <1>2, <2>2, <2>3, TokensConcat
    <3>2. Tokens(rel) \in Strs /\ rel \in Str
      BY <2>2, <2>3, TokensPlain, PlainStrs
    <3>3. P = Tokens(rel)
      BY <1>1, <1>2, <2>7, <3>1, <3>2, ConcatCancel DEF Strs
    <3>4. T \o Tokens(rel) = Tokens(rel)
      BY <1>5, <3>2, ConcatEmptySeq DEF Strs
    <3>5. T \o Components(rel) = P /\ Walk(T, rel) = P
      <4>1. T \in Seq(Name) /\ P \in Seq(Name) /\ rel \in Str
        BY <1>1, <3>2
      <4>2. Rest(T, P, rel)
        BY <3>3, <3>4 DEF Rest
      <4> QED BY <4>1, <4>2, RestIsPath
    <3> QED BY <2>4, <2>5, <3>5 DEF rel, a, b
  <2> QED BY <2>6, <2>7
<1>6. CASE T # <<>>
  <2>1. rel = below(a, b)
    BY <1>1, <1>6 DEF RelativeOf
  <2> HIDE DEF rel
  <2>2. CASE a = b
    <3>1. IsPrefix(a, b) /\ b = a
      <4>1. a \o <<>> = a /\ a \in Seq(Chars) /\ <<>> \in Seq(Chars)
        BY <1>1, ConcatEmptySeq, EmptySeq DEF Str
      <4>2. IsPrefix(a, a \o <<>>)
        BY <4>1, PrefixOfConcat
      <4> QED BY <2>2, <4>1, <4>2
    <3>2. rel = <<>>
      BY <2>1, <3>1 DEF below
    <3> QED BY <1>e, <1>3, <2>2, <3>2 DEF rel, a, b
  <2>3. CASE a # b /\ IsPrefix(a, b) /\ b[Len(a) + 1] = "/"
    <3>1. rel = SubSeq(b, Len(a) + 2, Len(b))
      BY <2>1, <2>3 DEF below
    <3>2. rel \in Str /\ b = (a \o Slash) \o rel
      BY <1>1, <2>3, <3>1, AfterSlash
    <3>3. rel # Fail
      BY <3>2, FailNotStr
    <3>4. Tokens(b) = Tokens(a) \o Tokens(rel)
      BY <1>1, <3>2, TokensConcat
    <3>5. Tokens(rel) \in Strs
      BY <3>2, TokensPlain, PlainStrs
    <3>6. P # <<>>
      <4>1. ASSUME P = <<>> PROVE FALSE
        <5>1. b = Slash /\ Len(b) = 1
          BY <1>1, <4>1, ConstStr
        <5>2. Len(a) \in Nat /\ Len(a) < Len(b)
          BY <1>1, <2>3, PrefixElements DEF Str
        <5>3. a = <<>>
          BY <1>1, <5>1, <5>2, EmptySeq DEF Str
        <5>4. Len(a) \in Nat \ {0}
          BY FitsFacts DEF a
        <5> QED BY <5>1, <5>2, <5>4
      <4> QED BY <4>1
    <3>7. RootToken \o P = RootToken \o (T \o Tokens(rel))
      <4>1. RootToken \o P = (RootToken \o T) \o Tokens(rel)
        BY <1>1, <1>6, <3>4, <3>6
      <4>2. (RootToken \o T) \o Tokens(rel) = RootToken \o (T \o Tokens(rel))
        <5> DEFINE ts == Tokens(rel)
        <5> HIDE DEF ts
        <5>1. ts \in Seq(Str) /\ T \in Seq(Str) /\ RootToken \in Seq(Str)
          BY <1>1, <1>2, <3>5 DEF Strs, ts
        <5>2. (RootToken \o T) \o ts = RootToken \o (T \o ts)
          BY <5>1, ConcatAssociative
        <5> QED BY <5>2 DEF ts
      <4> QED BY <4>1, <4>2
    <3>8. P = T \o Tokens(rel)
      <4> DEFINE q == T \o Tokens(rel)
      <4>1. q \in Seq(Str)
        BY <1>1, <3>5, ConcatProperties DEF Strs
      <4>2. RootToken \o P = RootToken \o q
        BY <3>7
      <4> HIDE DEF q
      <4>3. P = q
        BY <1>1, <1>2, <4>1, <4>2, ConcatCancel DEF Strs
      <4> QED BY <4>3 DEF q
    <3>9. T \o Components(rel) = P /\ Walk(T, rel) = P
      <4>1. T \in Seq(Name) /\ P \in Seq(Name) /\ rel \in Str
        BY <1>1, <3>2
      <4>2. Rest(T, P, rel)
        BY <3>8 DEF Rest
      <4> QED BY <4>1, <4>2, RestIsPath
    <3>10. IsPrefix(T, P)
      BY <1>1, <3>5, <3>8, PrefixOfConcat DEF Strs
    <3> QED BY <3>3, <3>9, <3>10 DEF rel, a, b
  <2>4. CASE a # b /\ ~(IsPrefix(a, b) /\ b[Len(a) + 1] = "/")
    <3>1. rel = Fail
      BY <2>1, <2>4 DEF below
    <3>2. ASSUME IsPrefix(T, P) PROVE FALSE
      <4>1. T # P
        BY <2>4 DEF a, b
      <4>2. PICK u \in Str : b = (a \o Slash) \o u
        BY <1>4, <1>6, <3>2, <4>1
      <4>3. IsPrefix(a, b) /\ b[Len(a) + 1] = "/"
        BY <1>1, <4>2, SlashAfter
      <4> QED BY <2>4, <4>3
    <3> QED BY <3>1, <3>2 DEF rel, a, b
  <2> QED BY <2>2, <2>3, <2>4
<1> QED BY <1>5, <1>6
(* An empty component changes nothing at the start of a walk from the      *)
(* root.                                                                   *)
LEMMA VisitRoot ==
  ASSUME NEW ts \in Strs
  PROVE  Visit(<<>>, RootToken \o ts) = Visit(<<>>, ts)
<1> DEFINE e == <<>>
           A == {us \in Strs : Visit(e, RootToken \o us) = Visit(e, us)}
<1>0. e \in Strs /\ e \in Str /\ RootToken \in Strs /\ RootToken = Append(e, e) /\ RootToken \o e = RootToken
  <2>1. e \in Strs /\ e \in Str /\ RootToken = Append(e, e)
    BY EmptyList DEF RootToken
  <2>2. RootToken \in Strs
    BY <2>1 DEF Strs
  <2> QED BY <2>1, <2>2, ConcatEmptySeq DEF Strs
<1>1. e \in A
  <2>1. visit(e, e) = e
    BY DEF visit
  <2> HIDE DEF e
  <2>2. Visit(e, e) = e /\ Visit(e, Append(e, e)) = visit(Visit(e, e), e)
    BY <1>0, VisitAppend, EmptyList DEF Strs
  <2> QED BY <1>0, <2>1, <2>2
<1> HIDE DEF e
<1>2. ASSUME NEW us \in Strs, NEW t \in Str, us \in A PROVE Append(us, t) \in A
  <2> DEFINE vs == RootToken \o us
  <2>1. vs \in Strs /\ Append(us, t) \in Strs
    BY <1>0, ConcatProperties, AppendFacts DEF Strs
  <2>2. RootToken \o Append(us, t) = Append(vs, t)
    BY <1>0, ConcatAppend DEF Strs
  <2> HIDE DEF vs
  <2>3. Visit(e, Append(vs, t)) = visit(Visit(e, vs), t)
    BY <1>0, <2>1, VisitAppend DEF Strs
  <2>4. Visit(e, Append(us, t)) = visit(Visit(e, us), t)
    BY <1>0, VisitAppend DEF Strs
  <2> QED BY <1>2, <2>1, <2>2, <2>3, <2>4 DEF vs
<1>3. Seq(Str) \subseteq A
  <2> HIDE DEF A
  <2> QED BY <1>1, <1>2, SeqSetInduction DEF Strs, e
<1> QED BY <1>3 DEF Strs, e

(* A normal form is a path to the place it was made for.                   *)
LEMMA WalkRender ==
  ASSUME NEW P, Fits(P), NEW dir
  PROVE  Absolute(Render(P)) /\ Walk(dir, Render(P)) = P
<1> DEFINE b == Render(P)
           u == Tail(b)
           e == <<>>
<1>1. b \in Str /\ Len(b) > 0 /\ b[1] = "/"
  BY FitsFacts
<1>2. Absolute(b)
  BY <1>1, EmptySeq DEF Absolute
<1>3. u \in Str /\ b = (<<>> \o Slash) \o u
  BY <1>1, AfterRoot
<1>4. Tokens(b) = RootToken \o Tokens(u)
  BY <1>3, EmptyList, TokensConcat, TokensEmpty DEF RootToken
<1>5. Walk(dir, b) = Visit(<<>>, Tokens(u))
  <2>1. Tokens(u) \in Strs
    BY <1>3, TokensPlain, PlainStrs
  <2>2. Walk(dir, b) = Visit(<<>>, Tokens(b))
    BY <1>2 DEF Walk
  <2>3. Visit(<<>>, RootToken \o Tokens(u)) = Visit(<<>>, Tokens(u))
    BY <2>1, VisitRoot
  <2> QED BY <1>4, <2>2, <2>3
<1>6. Walk(<<>>, u) = Visit(<<>>, Tokens(u))
  BY DEF Walk
<1>7. RelativeOf(Render(e), b) = u
  BY <1>2, RenderRoot DEF RelativeOf
<1>8. Fits(e)
  BY EmptyList, EmptySeq, PathNormAssumption DEF Fits
<1>9. u # Fail
  BY <1>3, FailNotStr
<1> HIDE DEF e, u
<1>10. Walk(e, u) = P
  BY <1>7, <1>8, <1>9, RelativeNames
<1> QED BY <1>2, <1>5, <1>6, <1>10 DEF e

-----------------------------------------------------------------------------
(* sqfs_check_path_then_convert.                                           *)

(* The normal form of a usable absolute path names the place where the     *)
(* walk from the root ends.                                                *)
LEMMA AbsoluteNormal ==
  ASSUME NEW s \in Str, Len(s) < PATH_MAX, Absolute(s)
  PROVE  Fits(Walk(<<>>, s)) /\ path_normalize_lexical(s) = Render(Walk(<<>>, s))
<1> DEFINE ps == Parts(Tokens(s), Absolute(s))
<1>1. Weight(ps) < PATH_MAX /\ path_normalize_lexical(s) = Render(ps)
  BY NormalForm
<1>2. Tokens(s) \in Seq(Plain)
  BY TokensPlain
<1>3. ps \in Seq(Name) /\ Visit(<<>>, Tokens(s)) = ps
  BY <1>2, PartsAreVisited
<1>4. Walk(<<>>, s) = ps
  BY <1>3 DEF Walk
<1> QED BY <1>1, <1>3, <1>4 DEF Fits

(* The normal form of an absolute path names the same place as the path    *)
(* and is its own normal form, as the comment in path_normalize_lexical    *)
(* (utils.c, lines 166-168) has it; for relative paths this fails.         *)
THEOREM AbsoluteMeaningKept ==
  ASSUME NEW s \in Str, Len(s) < PATH_MAX, Absolute(s), NEW dir
  PROVE  LET n == path_normalize_lexical(s)
         IN Walk(dir, n) = Walk(dir, s) /\ path_normalize_lexical(n) = n
<1> DEFINE n == path_normalize_lexical(s)
           there == Walk(<<>>, s)
<1>1. Fits(there) /\ n = Render(there)
  BY AbsoluteNormal
<1>2. Walk(dir, s) = there
  BY DEF Walk
<1>3. n \in Str /\ Len(n) < PATH_MAX
  BY NormalForm
<1> HIDE DEF n, there
<1>4. Absolute(n) /\ Walk(dir, n) = there /\ Walk(<<>>, n) = there
  BY <1>1, WalkRender
<1>5. path_normalize_lexical(n) = n
  BY <1>1, <1>3, <1>4, AbsoluteNormal
<1> QED BY <1>2, <1>4, <1>5 DEF n

(* A path that does not fit the buffer has no normal form.                 *)
LEMMA TooLong ==
  ASSUME NEW s \in Str, ~(Len(s) < PATH_MAX)
  PROVE  path_normalize_lexical(s) = Fail
<1>1. Len(s) \in Nat /\ PATH_MAX \in Nat
  BY PathNormAssumption DEF Str
<1>2. Len(s) >= PATH_MAX
  BY <1>1
<1> QED BY <1>2, Zenon DEF path_normalize_lexical

(* path_relative_to_root once both normal forms are known.                 *)
LEMMA RelativeToRoot ==
  ASSUME NEW root, NEW path
  PROVE  path_relative_to_root(root, path) =
           LET a == path_normalize_lexical(root)
               b == path_normalize_lexical(path)
           IN IF a = Fail \/ b = Fail THEN Fail ELSE RelativeOf(a, b)
BY DEF path_relative_to_root, RelativeOf

(* Whatever the root and the path are, relative_out gets a string that     *)
(* fits, or nothing.                                                       *)
LEMMA RelativeToRootType ==
  ASSUME NEW root \in Str, NEW path \in Str
  PROVE  LET rel == path_relative_to_root(root, path)
         IN rel = Fail \/ (rel \in Str /\ Len(rel) < PATH_MAX)
<1> DEFINE a == path_normalize_lexical(root)
           b == path_normalize_lexical(path)
<1>1. path_relative_to_root(root, path) = IF a = Fail \/ b = Fail THEN Fail ELSE RelativeOf(a, b)
  BY RelativeToRoot
<1>2. a # Fail => a \in Str
  BY NormalForm, TooLong
<1>3. b # Fail => b \in Str /\ b # <<>> /\ Len(b) < PATH_MAX
  BY NormalForm, TooLong
<1> HIDE DEF a, b
<1>4. CASE a = Fail \/ b = Fail
  BY <1>1, <1>4
<1>5. CASE a # Fail /\ b # Fail
  <2>1. a \in Str /\ b \in Str /\ b # <<>> /\ Len(b) < PATH_MAX /\ PATH_MAX \in Nat /\ Len(b) \in Nat
    BY <1>2, <1>3, <1>5, PathNormAssumption DEF Str
  <2>2. RelativeOf(a, b) = Fail \/ (RelativeOf(a, b) \in Str /\ Len(RelativeOf(a, b)) < Len(b))
    BY <2>1, RelativeType
  <2>3. ASSUME NEW u \in Str, Len(u) < Len(b) PROVE Len(u) < PATH_MAX
    <3>1. Len(u) \in Nat
      BY DEF Str
    <3> QED BY <2>1, <2>3, <3>1
  <2>4. RelativeOf(a, b) \in Str /\ Len(RelativeOf(a, b)) < Len(b) => Len(RelativeOf(a, b)) < PATH_MAX
    BY <2>3
  <2> QED BY <1>1, <1>5, <2>2, <2>4
<1> QED BY <1>4, <1>5

(* With an absolute root it finds exactly the paths below the root, and    *)
(* the rest of them.                                                       *)
LEMMA RelativeToAbsolute ==
  ASSUME NEW root \in Str, Len(root) < PATH_MAX, Absolute(root),
         NEW path \in Str, Len(path) < PATH_MAX
  PROVE  LET rel   == path_relative_to_root(root, path)
             top   == Walk(<<>>, root)
             there == Walk(<<>>, path)
         IN /\ (rel # Fail) <=> (Absolute(path) /\ IsPrefix(top, there))
            /\ rel # Fail => top \o Components(rel) = there /\ Walk(top, rel) = there
<1> DEFINE a == path_normalize_lexical(root)
           b == path_normalize_lexical(path)
           top == Walk(<<>>, root)
           there == Walk(<<>>, path)
           rel == path_relative_to_root(root, path)
<1>1. a # Fail /\ b # Fail /\ a \in Str /\ b \in Str /\ b # <<>> /\ (~Absolute(path) => b[1] # "/")
  BY NormalForm
<1>2. Fits(top) /\ a = Render(top)
  BY AbsoluteNormal
<1>3. rel = RelativeOf(a, b)
  BY <1>1, RelativeToRoot
<1>4. CASE Absolute(path)
  <2>1. Fits(there) /\ b = Render(there)
    BY <1>4, AbsoluteNormal
  <2>2. rel = RelativeOf(Render(top), Render(there))
    BY <1>2, <1>3, <2>1
  <2> HIDE DEF top, there, rel
  <2>3. /\ (rel # Fail) <=> IsPrefix(top, there)
        /\ rel # Fail => top \o Components(rel) = there /\ Walk(top, rel) = there
    BY <1>2, <2>1, <2>2, RelativeNames
  <2> QED BY <1>4, <2>3 DEF top, there, rel
<1>5. CASE ~Absolute(path)
  <2>1. b[1] # "/"
    BY <1>1, <1>5
  <2>2. a[1] = "/" /\ Len(a) \in Nat \ {0}
    BY <1>2, FitsFacts
  <2> HIDE DEF a, b
  <2>3. ~Absolute(b) /\ ~IsPrefix(a, b)
    <3>1. ASSUME IsPrefix(a, b) PROVE FALSE
      <4>1. \A i \in 1 .. Len(a) : b[i] = a[i]
        BY <1>1, <3>1, PrefixElements DEF Str
      <4>2. 1 \in 1 .. Len(a)
        BY <2>2
      <4> QED BY <2>1, <2>2, <4>1, <4>2
    <3> QED BY <2>1, <3>1 DEF Absolute
  <2>4. RelativeOf(a, b) = Fail
    BY <2>3 DEF RelativeOf, below
  <2> QED BY <1>3, <1>5, <2>4
<1> QED BY <1>4, <1>5

(* An absolute path equals the name of the image file exactly when both    *)
(* lead to the same place.                                                 *)
LEMMA EqualsImage ==
  ASSUME NEW path \in Str, Len(path) < PATH_MAX, Absolute(path),
         NEW file \in Str \cup {NULL}, file # NULL => Absolute(file)
  PROVE  path_equals_normalized(path, file) <=>
           (Usable(file) /\ Walk(<<>>, file) = Walk(<<>>, path))
<1> DEFINE there == Walk(<<>>, path)
           at    == Walk(<<>>, file)
           b     == path_normalize_lexical(path)
           c     == path_normalize_lexical(file)
<1>1. path # NULL /\ b # Fail
  BY NormalForm, PathNormAssumption DEF Str
<1>2. Fits(there) /\ b = Render(there)
  BY AbsoluteNormal
<1>3. CASE file = NULL
  BY <1>3 DEF path_equals_normalized, Usable
<1>4. CASE file # NULL /\ ~(Len(file) < PATH_MAX)
  <2>1. c = Fail
    BY <1>4, TooLong
  <2> QED BY <1>4, <2>1 DEF path_equals_normalized, Usable
<1>5. CASE file # NULL /\ Len(file) < PATH_MAX
  <2>1. c # Fail
    BY <1>5, NormalForm
  <2>2. Fits(at) /\ c = Render(at)
    BY <1>5, AbsoluteNormal
  <2>3. path_equals_normalized(path, file) <=> b = c
    BY <1>1, <1>5, <2>1 DEF path_equals_normalized
  <2>4. Usable(file)
    BY <1>5 DEF Usable
  <2> HIDE DEF there, at, b, c
  <2>5. b = c <=> at = there
    BY <1>2, <2>2, RenderInjective
  <2> QED BY <2>3, <2>4, <2>5 DEF there, at
<1> QED BY <1>3, <1>4, <1>5

-----------------------------------------------------------------------------
(* The inductive invariant: the answer the variables hold is the one for   *)
(* the path and the environment they hold.                                 *)

(* sqfs_check_path_then_convert refuses the path.                          *)
Refused ==
  path_equals_normalized(pathname, image) \/ path_relative_to_root(prefix, pathname) = Fail

Unanswered == ret \in {"none", "EFAULT"} /\ pathname = NULL /\ relative = Fail

Inside ==
  /\ ret = "OK" /\ pathname \in Pathnames
  /\ ~Refused /\ relative = path_relative_to_root(prefix, pathname)

OutsideOrSelf == ret = "ENOENT" /\ pathname \in Pathnames /\ Refused /\ relative = Fail

IInv ==
  /\ prefix \in PrefixValues /\ image \in ImageFiles
  /\ Unanswered \/ Inside \/ OutsideOrSelf

(* The paths of the environment are strings.                               *)
LEMMA Environment ==
  /\ Pathnames \subseteq Str /\ PrefixValues \subseteq Str
  /\ ImageFiles \subseteq Str \cup {NULL} /\ NULL \notin Str
BY PathNormAssumption DEF Str

(* It holds before the first call.                                         *)
LEMMA InvInit == Init => IInv
BY DEF Init, IInv, Unanswered

(* A step of a call keeps it.                                              *)
LEMMA InvConvert ==
  ASSUME IInv, NEW p \in Pathnames, sqfs_check_path_then_convert(p)
  PROVE  IInv'
<1> DEFINE rel == path_relative_to_root(prefix, p)
           eq  == path_equals_normalized(p, image)
<1>1. pathname' = p /\ prefix' = prefix /\ image' = image
  BY DEF sqfs_check_path_then_convert
<1>2. IF eq \/ rel = Fail THEN ret' = "ENOENT" /\ relative' = Fail
      ELSE ret' = "OK" /\ relative' = rel
  BY DEF sqfs_check_path_then_convert
<1>3. prefix' \in PrefixValues /\ image' \in ImageFiles
  BY <1>1 DEF IInv
<1>4. Refused' <=> (eq \/ rel = Fail)
  BY <1>1 DEF Refused
<1>5. path_relative_to_root(prefix, pathname)' = rel
  BY <1>1
<1> HIDE DEF eq, rel
<1>6. CASE eq \/ rel = Fail
  <2>1. OutsideOrSelf'
    BY <1>1, <1>2, <1>4, <1>6 DEF OutsideOrSelf
  <2> QED BY <1>3, <2>1 DEF IInv
<1>7. CASE ~(eq \/ rel = Fail)
  <2>1. Inside'
    BY <1>1, <1>2, <1>4, <1>5, <1>7 DEF Inside
  <2> QED BY <1>3, <2>1 DEF IInv
<1> QED BY <1>6, <1>7

(* Every step keeps it.                                                    *)
LEMMA InvNext == IInv /\ [Next]_vars => IInv'
<1> SUFFICES ASSUME IInv, [Next]_vars PROVE IInv'
  OBVIOUS
<1>1. ASSUME NEW p \in Pathnames, sqfs_check_path_then_convert(p) PROVE IInv'
  BY <1>1, InvConvert
<1>2. CASE sqfs_check_path_null
  <2>1. Unanswered
    BY <1>2 DEF sqfs_check_path_null, IInv, Unanswered, Inside, OutsideOrSelf
  <2>2. Unanswered'
    BY <1>2, <2>1 DEF sqfs_check_path_null, Unanswered
  <2> QED BY <1>2, <2>2 DEF sqfs_check_path_null, IInv
<1>3. CASE next_call
  BY <1>3 DEF next_call, IInv, Unanswered
<1>4. CASE UNCHANGED vars
  BY <1>4 DEF vars, IInv, Unanswered, Inside, OutsideOrSelf, Refused
<1> QED BY <1>1, <1>2, <1>3, <1>4 DEF Next

(* The variables always hold the answer for the path they hold, for every  *)
(* set of paths and every size of the buffers.                             *)
THEOREM Invariance == Spec => []IInv
BY InvInit, InvNext, PTL DEF Spec

-----------------------------------------------------------------------------
(* What follows from it.                                                   *)

(* The answer is well typed.                                               *)
LEMMA InvTypeOK == IInv => TypeOK
<1> SUFFICES ASSUME IInv PROVE TypeOK
  OBVIOUS
<1>1. PATH_MAX \in Nat /\ PATH_MAX > 1 /\ Len(Fail) < PATH_MAX
  BY FailNotStr, PathNormAssumption
<1>2. CASE Unanswered
  BY <1>1, <1>2 DEF IInv, Unanswered, TypeOK
<1>3. CASE OutsideOrSelf
  BY <1>1, <1>3 DEF IInv, OutsideOrSelf, TypeOK
<1>4. CASE Inside
  <2>1. relative # Fail
    BY <1>4 DEF Inside, Refused
  <2>2. prefix \in Str /\ pathname \in Str
    BY <1>4, Environment DEF IInv, Inside
  <2>3. Len(relative) < PATH_MAX
    BY <1>4, <2>1, <2>2, RelativeToRootType DEF Inside
  <2> QED BY <1>4, <2>1, <2>3 DEF IInv, Inside, TypeOK
<1> QED BY <1>2, <1>3, <1>4 DEF IInv

(* The path that was answered fitted the buffers.                          *)
LEMMA InvBuffersFit == IInv => BuffersFit
<1> SUFFICES ASSUME IInv, Usable(pathname) PROVE BuffersFit
  BY DEF BuffersFit
<1>1. pathname \in Str /\ Len(pathname) < PATH_MAX
  BY Environment DEF IInv, Unanswered, Inside, OutsideOrSelf, Usable
<1>2. path_normalize_lexical(pathname) # Fail
  BY <1>1, NormalForm
<1>3. \A k \in 0 .. Len(Tokens(pathname)) :
        Len(PartsAfter(Tokens(pathname), Absolute(pathname))[k]) <= PATH_MAX \div 2
  BY <1>1, CountFits
<1> QED BY <1>2, <1>3 DEF BuffersFit

(* The answer for an absolute path is the one the walk gives; a relative   *)
(* one is refused.                                                         *)
LEMMA InvInsideIffUnder == IInv => InsideIffUnder
<1> DEFINE there == Walk(<<>>, pathname)
           top   == Walk(<<>>, prefix)
           under == IsPrefix(top, there)
           self  == Usable(image) /\ Walk(<<>>, image) = there
           rel   == path_relative_to_root(prefix, pathname)
           eq    == path_equals_normalized(pathname, image)
           known == top \o Components(rel) = there /\ Walk(top, rel) = there
<1> SUFFICES ASSUME IInv, Usable(pathname), Usable(prefix), Absolute(prefix),
                    image # NULL => Absolute(image)
             PROVE  /\ Absolute(pathname) => (ret = "OK") = (under /\ ~self)
                    /\ ~Absolute(pathname) => ret = "ENOENT"
                    /\ ret = "OK" => top \o Components(relative) = there /\ Walk(top, relative) = there
  BY DEF InsideIffUnder
<1>1. /\ prefix \in Str /\ pathname \in Str /\ image \in Str \cup {NULL}
      /\ Len(prefix) < PATH_MAX /\ Len(pathname) < PATH_MAX
  BY Environment DEF IInv, Unanswered, Inside, OutsideOrSelf, Usable
<1>2. Inside \/ OutsideOrSelf
  BY DEF IInv, Unanswered, Usable
<1>3. (rel # Fail <=> Absolute(pathname) /\ under) /\ (rel # Fail => known)
  BY <1>1, RelativeToAbsolute
<1>4. Absolute(pathname) => (eq <=> self)
  BY <1>1, EqualsImage
<1>5. /\ ret = "OK" <=> ~(eq \/ rel = Fail)
      /\ ret = "OK" => relative = rel
      /\ ret # "OK" => ret = "ENOENT"
  BY <1>2 DEF Inside, OutsideOrSelf, Refused
<1> HIDE DEF under, self, rel, eq
<1>6. Absolute(pathname) => (ret = "OK" <=> (under /\ ~self))
  BY <1>3, <1>4, <1>5
<1>7. Absolute(pathname) => (ret = "OK") = (under /\ ~self)
  BY <1>6
<1>8. ~Absolute(pathname) => ret = "ENOENT"
  BY <1>3, <1>5
<1>9. ret = "OK" => top \o Components(relative) = there /\ Walk(top, relative) = there
  BY <1>3, <1>5
<1> QED BY <1>7, <1>8, <1>9

(* sqfs_check_path_then_convert writes a path of at most PATH_MAX bytes    *)
(* for its caller when and only when it returns 0, even for a relative     *)
(* HOOKSQFS_PREFIX and for paths that are too long.                        *)
THEOREM TypeCorrect == Spec => []TypeOK
BY Invariance, InvTypeOK, PTL

(* path_normalize_lexical never writes past parts[PATH_MAX / 2] and never  *)
(* finds the output buffer too small, for every path that is shorter than  *)
(* PATH_MAX: append_str's failures cannot be met, for no length of paths   *)
(* and no set of characters.                                               *)
THEOREM BuffersAlwaysFit == Spec => []BuffersFit
BY Invariance, InvBuffersFit, PTL

(* With an absolute prefix and image file, sqfs_check_path_then_convert    *)
(* sends an absolute path to the image exactly when a walk along it ends   *)
(* at HOOKSQFS_PREFIX or below it and not at the image file, and hands on  *)
(* exactly the names that are left; it refuses every relative path,        *)
(* wherever that leads.  For paths of any length and spelling, over any    *)
(* set of characters.                                                      *)
THEOREM InsideExactlyUnder == Spec => []InsideIffUnder
BY Invariance, InvInsideIffUnder, PTL
=============================================================================
