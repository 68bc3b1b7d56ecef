------------------------- MODULE SendRequestProofs --------------------------
(***************************************************************************)
(* Proofs about SendRequest for every message and every limit: who is      *)
(* addressed, that no byte is lost, how References are trimmed, and that   *)
(* what is built keeps within the limits.                                  *)
(*                                                                         *)
(* What a recursive function computes is proved by its least               *)
(* counterexample: of the numbers, or of the subsets of a finite set, for  *)
(* which a claim fails, one is minimal, and there the recursion refutes    *)
(* that it fails.                                                          *)
(***************************************************************************)
EXTENDS SendRequest, Folds, FiniteSetTheorems, TLAPS

-----------------------------------------------------------------------------
(* Who is addressed. *)

\* What is addressed is the envelope, in three lists without a common address.
LEMMA SplitIsPartition ==
    ASSUME NEW shape
    PROVE  LET s == SplitRecipients(shape)
           IN  /\ RecipientsOf(s) = shape.envelope
               /\ s.to \cap s.cc = {} /\ s.to \cap s.bcc = {} /\ s.cc \cap s.bcc = {}
<1> DEFINE to  == shape.to \cap shape.envelope
           cc  == (shape.cc \cap shape.envelope) \ to
           bcc == shape.envelope \ (to \cup cc)
<1>1. /\ to \cup cc \cup bcc = shape.envelope
      /\ to \cap cc = {} /\ to \cap bcc = {} /\ cc \cap bcc = {}
  OBVIOUS
<1>2. to = {} => bcc \cup cc = shape.envelope
  OBVIOUS
<1>3. CASE to = {} /\ Cardinality(bcc) = 1
  <2>1. SplitRecipients(shape) = [to |-> bcc, cc |-> cc, bcc |-> {}]
    BY <1>3 DEF SplitRecipients
  <2> HIDE DEF to, cc, bcc
  <2> QED
    BY <1>1, <1>2, <1>3, <2>1 DEF RecipientsOf
<1>4. CASE ~(to = {} /\ Cardinality(bcc) = 1)
  <2>1. SplitRecipients(shape) = [to |-> to, cc |-> cc, bcc |-> bcc]
    BY <1>4 DEF SplitRecipients
  <2> HIDE DEF to, cc, bcc
  <2> QED
    BY <1>1, <2>1 DEF RecipientsOf
<1> QED
  BY <1>3, <1>4

\* Of several hidden recipients none becomes visible.
LEMMA SplitHides ==
    ASSUME NEW shape
    PROVE  LET s == SplitRecipients(shape)
               hidden == shape.envelope \ (shape.to \cup shape.cc)
           IN  hidden \cap (s.to \cup s.cc) # {} => Cardinality(hidden) = 1
<1> DEFINE hidden == shape.envelope \ (shape.to \cup shape.cc)
           to  == shape.to \cap shape.envelope
           cc  == (shape.cc \cap shape.envelope) \ to
           bcc == shape.envelope \ (to \cup cc)
<1>1. hidden = bcc /\ hidden \cap (to \cup cc) = {}
  OBVIOUS
<1>2. CASE to = {} /\ Cardinality(bcc) = 1
  <2>1. Cardinality(hidden) = 1
    BY <1>1, <1>2
  <2> QED
    BY <2>1
<1>3. CASE ~(to = {} /\ Cardinality(bcc) = 1)
  <2>1. SplitRecipients(shape) = [to |-> to, cc |-> cc, bcc |-> bcc]
    BY <1>3 DEF SplitRecipients
  <2>2. SplitRecipients(shape).to = to /\ SplitRecipients(shape).cc = cc
    BY <2>1
  <2> QED
    BY <1>1, <2>2
<1> QED
  BY <1>2, <1>3

-----------------------------------------------------------------------------
(* Least counterexamples. *)

LEMMA LeastNumber ==
    ASSUME NEW T \in SUBSET Nat, T # {}
    PROVE  \E m \in T : \A k \in T : m <= k
<1> DEFINE R == {ss \in Nat \X Nat : ss[1] < ss[2]}
<1>1. IsWellFoundedOn(R, Nat)
  BY NatLessThanWellFounded DEF OpToRel
<1> HIDE DEF R
<1>2. PICK m \in T : \A k \in T : <<k, m>> \notin R
  BY <1>1, WFMin
<1>3. ASSUME NEW k \in T PROVE m <= k
  <2>1. ~(k < m)
    BY <1>2 DEF R
  <2> QED
    BY <2>1
<1> QED
  BY <1>3

\* Min is the minimum.
LEMMA MinIsLeast ==
    ASSUME NEW T \in SUBSET Nat, T # {}
    PROVE  Min(T) \in T /\ \A k \in T : Min(T) <= k
BY LeastNumber DEF Min

LEMMA LeastSubset ==
    ASSUME NEW U, IsFiniteSet(U), NEW T \in SUBSET (SUBSET U), T # {}
    PROVE  \E s \in T : \A r \in T : r \subseteq s => r = s
<1> DEFINE R == StrictSubsetOrdering(U)
           F == FiniteSubsetsOf(U)
<1>1. IsWellFoundedOn(R, F)
  BY FS_StrictSubsetOrderingWellFounded
<1>2. T \subseteq F
  <2> SUFFICES ASSUME NEW s \in T PROVE s \in F
    OBVIOUS
  <2>1. s \in SUBSET U
    OBVIOUS
  <2>2. IsFiniteSet(s)
    BY <2>1, FS_Subset
  <2> QED
    BY <2>1, <2>2 DEF FiniteSubsetsOf
<1>3. PICK s \in T : \A r \in T : <<r, s>> \notin R
  <2> HIDE DEF R, F
  <2> QED
    BY <1>1, <1>2, WFMin
<1>4. ASSUME NEW r \in T, r \subseteq s, r # s PROVE FALSE
  <2>1. <<r, s>> \in R
    BY <1>4 DEF StrictSubsetOrdering
  <2> QED
    BY <1>3, <2>1
<1> QED
  BY <1>4

-----------------------------------------------------------------------------
(* Content. *)

\* A body is a part of its kind that get_body shows.
LEMMA BodyIsShown ==
    ASSUME NEW parts, Tree(parts), NEW kind, NEW i \in BodyPart(parts, kind)
    PROVE  i \in DOMAIN parts /\ parts[i].kind = kind /\ Shown(parts, i)
<1> DEFINE found == {j \in DOMAIN parts : parts[j].kind = kind /\ Shown(parts, j)}
<1>1. found # {} /\ i = Min(found)
  <2>1. BodyPart(parts, kind) = IF found = {} THEN {} ELSE {Min(found)}
    BY DEF BodyPart
  <2> HIDE DEF found
  <2> QED
    BY <2>1
<1>2. found \in SUBSET Nat
  <2>1. DOMAIN parts = 1 .. Len(parts) /\ Len(parts) \in Nat
    BY DEF Tree
  <2> QED
    BY <2>1
<1>3. i \in found
  <2> HIDE DEF found
  <2> QED
    BY <1>1, <1>2, MinIsLeast
<1> QED
  BY <1>3

\* The outermost attached message a part is in is a leaf, and the only one of the
\* containers of that part.
LEMMA OutermostMessage ==
    ASSUME NEW parts, Tree(parts), NEW i \in DOMAIN parts,
           \E a \in parts[i].within : parts[a].kind = "rfc822"
    PROVE  \E m \in parts[i].within :
               /\ m \in DOMAIN parts /\ m \in Leaves(parts) /\ parts[m].kind = "rfc822"
               /\ \A c \in parts[i].within : c \in Leaves(parts) => c = m
<1> DEFINE messages == {a \in parts[i].within : parts[a].kind = "rfc822"}
<1>t. /\ DOMAIN parts = 1 .. Len(parts) /\ Len(parts) \in Nat
      /\ parts[i].within \subseteq 1 .. i - 1 /\ i \in Nat
      /\ \A a \in parts[i].within :
          /\ parts[a].kind \in Multipart \cup {"rfc822"}
          /\ parts[a].within = parts[i].within \cap 1 .. a - 1
  BY DEF Tree
<1>1. \A a \in parts[i].within : a \in Nat /\ a \in DOMAIN parts
  BY <1>t
<1>2. PICK m \in messages : \A k \in messages : m <= k
  <2>1. messages \in SUBSET Nat /\ messages # {}
    BY <1>1
  <2> HIDE DEF messages
  <2> QED
    BY <2>1, LeastNumber
<1>3. \A a \in parts[m].within : parts[a].kind # "rfc822"
  <2> SUFFICES ASSUME NEW a \in parts[m].within, parts[a].kind = "rfc822" PROVE FALSE
    OBVIOUS
  <2>1. a \in messages /\ a \in 1 .. m - 1
    BY <1>t
  <2>2. m <= a /\ m \in Nat
    BY <1>1, <1>2, <2>1
  <2> QED
    BY <2>1, <2>2
<1>4. m \in Leaves(parts)
  BY <1>1, <1>3 DEF Leaves, Multipart
<1>5. ASSUME NEW c \in parts[i].within, c \in Leaves(parts) PROVE c = m
  <2>1. c \in messages
    BY <1>t, <1>5 DEF Leaves
  <2>2. m <= c /\ c \in Nat /\ m \in Nat
    BY <1>1, <1>2, <2>1
  <2>3. CASE m < c
    <3>1. m \in parts[c].within
      <4>1. m \in 1 .. c - 1
        BY <1>t, <2>2, <2>3
      <4> QED
        BY <1>t, <4>1
    <3> QED
      BY <1>5, <3>1 DEF Leaves
  <2> QED
    BY <2>2, <2>3
<1> QED
  BY <1>1, <1>4, <1>5

\* A part that is no container is in the body or in one attachment, unless it is
\* a body of whitespace.
LEMMA PartIsSent ==
    ASSUME NEW parts, Tree(parts), NEW i \in DOMAIN parts, parts[i].kind \notin Multipart
    PROVE  LET content == extract_content(parts)
               carriers == {c \in content.attachments : i \in Carried(parts, c)}
               body == content.text \cup content.html
           IN  \/ Cardinality(carriers) + Cardinality({i} \cap body) = 1
               \/ carriers = {} /\ parts[i].blank
<1> DEFINE html == BodyPart(parts, "html")
           text == BodyPart(parts, "plain")
           attachments == Leaves(parts) \ (html \cup text)
           body == NotBlank(parts, text) \cup NotBlank(parts, html)
           carriers == {c \in attachments : i \in Carried(parts, c)}
<1>1. /\ extract_content(parts).attachments = attachments
      /\ extract_content(parts).text \cup extract_content(parts).html = body
  BY DEF extract_content
<1> SUFFICES \/ Cardinality(carriers) + Cardinality({i} \cap body) = 1
             \/ carriers = {} /\ parts[i].blank
  <2> DEFINE given == extract_content(parts)
  <2>1. {c \in given.attachments : i \in Carried(parts, c)} = carriers
    BY <1>1
  <2> HIDE DEF carriers, body, given
  <2> QED
    BY <1>1, <2>1 DEF given
<1>2. \A c : c \in carriers <=> c \in attachments /\ (i = c \/ c \in parts[i].within)
  BY DEF Carried
<1>3. \A b \in html \cup text :
          /\ parts[b].kind \in {"html", "plain"}
          /\ \A a \in parts[b].within : parts[a].kind \in Multipart
  BY BodyIsShown DEF Shown
<1>4. \A a \in parts[i].within : parts[a].kind \in Multipart \cup {"rfc822"}
  BY DEF Tree
<1>5. "rfc822" \notin Multipart /\ body \subseteq html \cup text
  BY DEF Multipart, NotBlank
<1>6. CASE \E a \in parts[i].within : parts[a].kind = "rfc822"
  <2>1. PICK m \in parts[i].within :
            /\ m \in DOMAIN parts /\ m \in Leaves(parts) /\ parts[m].kind = "rfc822"
            /\ \A c \in parts[i].within : c \in Leaves(parts) => c = m
    BY <1>6, OutermostMessage
  <2>2. i \notin Leaves(parts) /\ i \notin html \cup text
    BY <1>3, <1>5, <1>6 DEF Leaves
  <2>3. m \in attachments
    BY <1>3, <2>1
  <2>4. carriers = {m}
    BY <1>2, <2>1, <2>2, <2>3
  <2>5. {i} \cap body = {}
    BY <1>5, <2>2
  <2> HIDE DEF carriers, body
  <2>6. Cardinality(carriers) = 1 /\ Cardinality({i} \cap body) = 0
    BY <2>4, <2>5, FS_EmptySet, FS_Singleton
  <2> QED
    BY <2>6
<1>7. CASE ~\E a \in parts[i].within : parts[a].kind = "rfc822"
  <2>1. i \in Leaves(parts) /\ \A a \in parts[i].within : a \notin Leaves(parts)
    BY <1>4, <1>7 DEF Leaves
  <2>2. CASE i \in html \cup text
    <3>1. carriers = {}
      BY <1>2, <2>1, <2>2
    <3>2. CASE parts[i].blank
      BY <3>1, <3>2
    <3>3. CASE ~parts[i].blank
      <4>1. {i} \cap body = {i}
        BY <2>2, <3>3 DEF NotBlank
      <4> HIDE DEF carriers, body
      <4>2. Cardinality(carriers) = 0 /\ Cardinality({i} \cap body) = 1
        BY <3>1, <4>1, FS_EmptySet, FS_Singleton
      <4> QED
        BY <4>2
    <3> QED
      BY <3>2, <3>3
  <2>3. CASE i \notin html \cup text
    <3>1. carriers = {i}
      BY <1>2, <2>1, <2>3
    <3>2. {i} \cap body = {}
      BY <1>5, <2>3
    <3> HIDE DEF carriers, body
    <3>3. Cardinality(carriers) = 1 /\ Cardinality({i} \cap body) = 0
      BY <3>1, <3>2, FS_EmptySet, FS_Singleton
    <3> QED
      BY <3>3
  <2> QED
    BY <2>2, <2>3
<1> QED
  BY <1>6, <1>7

-----------------------------------------------------------------------------
(* Trimming. *)

\* The while loop as a recursive function, `big` being the numbers it goes on at.
IsTrim(t, big) == t = [k \in Nat |-> IF k \in big THEN t[k - 1] ELSE k]

\* There is one: it yields the last number below that the loop does not go on at.
LEMMA TrimExists ==
    ASSUME NEW big \in SUBSET (Nat \ {0, 1})
    PROVE  \E t : IsTrim(t, big)
<1> DEFINE Last(k) == {j \in 0 .. k : j \notin big /\ \A i \in j + 1 .. k : i \in big}
           t == [k \in Nat |-> CHOOSE j \in Last(k) : TRUE]
<1>1. ASSUME NEW k \in Nat \ big PROVE t[k] = k
  <2>1. Last(k) = {k}
    <3>1. k \in Last(k)
      BY <1>1
    <3>2. ASSUME NEW j \in Last(k), j # k PROVE FALSE
      <4>1. k \in j + 1 .. k
        BY <3>2
      <4> QED
        BY <1>1, <3>2, <4>1
    <3> QED
      BY <3>1, <3>2
  <2> HIDE DEF Last
  <2> QED
    BY <2>1
<1>2. ASSUME NEW k \in big PROVE t[k] = t[k - 1]
  <2>1. k \in Nat /\ k - 1 \in Nat
    OBVIOUS
  <2>2. Last(k) = Last(k - 1)
    <3>1. ASSUME NEW j \in Last(k) PROVE j \in Last(k - 1)
      <4>1. j \in 0 .. k - 1
        BY <1>2, <2>1, <3>1
      <4> QED
        BY <2>1, <3>1, <4>1
    <3>2. ASSUME NEW j \in Last(k - 1) PROVE j \in Last(k)
      <4>1. \A i \in j + 1 .. k : i = k \/ i \in j + 1 .. k - 1
        BY <2>1, <3>2
      <4> QED
        BY <1>2, <2>1, <3>2, <4>1
    <3> HIDE DEF Last
    <3> QED
      BY <3>1, <3>2
  <2> HIDE DEF Last
  <2> QED
    BY <2>1, <2>2
<1>3. t = [k \in Nat |-> IF k \in big THEN t[k - 1] ELSE k]
  <2>1. \A k \in Nat : t[k] = IF k \in big THEN t[k - 1] ELSE k
    <3> HIDE DEF t
    <3> QED
      BY <1>1, <1>2
  <2>2. t = [k \in Nat |-> t[k]]
    OBVIOUS
  <2> HIDE DEF t
  <2> QED
    BY <2>1, <2>2
<1> HIDE DEF t
<1> QED
  BY <1>3 DEF IsTrim

\* Where the loop ends, and that it would have gone on everywhere above.
LEMMA TrimStops ==
    ASSUME NEW big \in SUBSET (Nat \ {0, 1}), NEW t, IsTrim(t, big), NEW n \in Nat \ {0}
    PROVE  t[n] \in 1 .. n /\ t[n] \notin big /\ \A i \in t[n] + 1 .. n : i \in big
<1> DEFINE Right(k) == t[k] \in 1 .. k /\ t[k] \notin big /\ \A i \in t[k] + 1 .. k : i \in big
           wrong == {k \in Nat \ {0} : ~Right(k)}
<1>1. \A k \in Nat : t[k] = IF k \in big THEN t[k - 1] ELSE k
  BY DEF IsTrim
<1>2. ASSUME wrong # {} PROVE FALSE
  <2>1. PICK m \in wrong : \A k \in wrong : m <= k
    BY <1>2, LeastNumber
  <2>2. CASE m \notin big
    BY <1>1, <2>2
  <2>3. CASE m \in big
    <3>1. m - 1 \in Nat \ {0} /\ Right(m - 1)
      BY <2>1, <2>3
    <3>2. t[m] = t[m - 1]
      BY <1>1, <2>3
    <3>3. \A i \in t[m - 1] + 1 .. m : i = m \/ i \in t[m - 1] + 1 .. m - 1
      BY <3>1
    <3> QED
      BY <2>3, <3>1, <3>2, <3>3
  <2> QED
    BY <2>2, <2>3
<1> QED
  BY <1>2

\* Where _trim_references drops an id: the header is too large and not the last id.
Big(mail) == {k \in Nat : k > 1 /\ Oversized(mail, k)}

\* What it keeps is what that loop yields for all the ids.
LEMMA KeptIsTrim ==
    ASSUME NEW mail
    PROVE  \E t : IsTrim(t, Big(mail)) /\ Kept(mail) = t[Len(WithOwnId(mail))]
<1> DEFINE big == Big(mail)
           Loop(t) == t = [k \in Nat |-> IF k > 1 /\ Oversized(mail, k) THEN t[k - 1] ELSE k]
<1>1. ASSUME NEW t PROVE Loop(t) <=> IsTrim(t, big)
  <2>1. [k \in Nat |-> IF k > 1 /\ Oversized(mail, k) THEN t[k - 1] ELSE k]
        = [k \in Nat |-> IF k \in big THEN t[k - 1] ELSE k]
    BY DEF Big
  <2> QED
    BY <2>1 DEF IsTrim
<1>2. \E t : Loop(t)
  <2>1. big \in SUBSET (Nat \ {0, 1})
    BY DEF Big
  <2> QED
    BY <1>1, <2>1, TrimExists
<1>3. Loop(CHOOSE t : Loop(t))
  BY <1>2
<1>4. Kept(mail) = (CHOOSE t : Loop(t))[Len(WithOwnId(mail))]
  BY DEF Kept
<1> HIDE DEF Loop
<1> QED
  BY <1>1, <1>3, <1>4

-----------------------------------------------------------------------------
(* Sums. *)

\* The element MapThenSumSet takes next.
NextElement(s) == CHOOSE x \in s : TRUE

\* The recursive function behind MapThenSumSet, on the subsets of U.
IsSum(h, f, U) ==
    h = [s \in SUBSET U |-> IF s = {} THEN 0 ELSE f[NextElement(s)] + h[s \ {NextElement(s)}]]

SumOver(f, U) == (CHOOSE h : IsSum(h, f, U))[U]

LEMMA NextElementIn == \A s : s # {} => NextElement(s) \in s
BY DEF NextElement

LEMMA SumUnique ==
    ASSUME NEW U, IsFiniteSet(U), NEW f, NEW h, NEW g, IsSum(h, f, U), IsSum(g, f, U)
    PROVE  h = g
<1> DEFINE wrong == {s \in SUBSET U : h[s] # g[s]}
<1>1. /\ \A s \in SUBSET U : h[s] = IF s = {} THEN 0 ELSE f[NextElement(s)] + h[s \ {NextElement(s)}]
      /\ \A s \in SUBSET U : g[s] = IF s = {} THEN 0 ELSE f[NextElement(s)] + g[s \ {NextElement(s)}]
  BY DEF IsSum
<1>2. ASSUME wrong # {} PROVE FALSE
  <2>1. PICK s \in wrong : \A r \in wrong : r \subseteq s => r = s
    <3>1. wrong \in SUBSET (SUBSET U)
      OBVIOUS
    <3> HIDE DEF wrong
    <3> QED
      BY <1>2, <3>1, LeastSubset
  <2>2. s # {}
    BY <1>1
  <2>3. s \ {NextElement(s)} \in SUBSET U /\ s \ {NextElement(s)} # s
    BY <2>2, NextElementIn
  <2>4. h[s \ {NextElement(s)}] = g[s \ {NextElement(s)}]
    BY <2>1, <2>3
  <2> QED
    BY <1>1, <2>2, <2>4
<1>3. h = [s \in SUBSET U |-> h[s]] /\ g = [s \in SUBSET U |-> g[s]]
  BY DEF IsSum
<1>4. \A s \in SUBSET U : h[s] = g[s]
  BY <1>2
<1> QED
  BY <1>3, <1>4

LEMMA SumRestricted ==
    ASSUME NEW U, NEW f, NEW h, IsSum(h, f, U), NEW V \in SUBSET U
    PROVE  IsSum([s \in SUBSET V |-> h[s]], f, V)
<1> DEFINE k == [s \in SUBSET V |-> h[s]]
<1>1. ASSUME NEW s \in SUBSET V
      PROVE  h[s] = IF s = {} THEN 0 ELSE f[NextElement(s)] + k[s \ {NextElement(s)}]
  <2>1. s \in SUBSET U /\ s \ {NextElement(s)} \in SUBSET V
    OBVIOUS
  <2>2. k[s \ {NextElement(s)}] = h[s \ {NextElement(s)}]
    BY <2>1
  <2>3. h[s] = IF s = {} THEN 0 ELSE f[NextElement(s)] + h[s \ {NextElement(s)}]
    BY <2>1 DEF IsSum
  <2> HIDE DEF k
  <2> QED
    BY <2>2, <2>3
<1>2. k = [s \in SUBSET V |-> IF s = {} THEN 0 ELSE f[NextElement(s)] + k[s \ {NextElement(s)}]]
  BY <1>1
<1> HIDE DEF k
<1>3. IsSum(k, f, V)
  BY <1>2 DEF IsSum
<1> QED
  BY <1>3 DEF k

LEMMA SumUnfoldsIf ==
    ASSUME NEW S, IsFiniteSet(S), NEW f, \E h : IsSum(h, f, S)
    PROVE  SumOver(f, S) = IF S = {} THEN 0
                           ELSE f[NextElement(S)] + SumOver(f, S \ {NextElement(S)})
<1> DEFINE V == S \ {NextElement(S)}
<1>1. PICK h : IsSum(h, f, S) /\ SumOver(f, S) = h[S]
  <2>1. IsSum(CHOOSE h : IsSum(h, f, S), f, S)
    OBVIOUS
  <2> QED
    BY <2>1 DEF SumOver
<1>2. h[S] = IF S = {} THEN 0 ELSE f[NextElement(S)] + h[V]
  BY <1>1 DEF IsSum
<1>3. V \in SUBSET S /\ IsFiniteSet(V)
  BY FS_Subset
<1> HIDE DEF V
<1>4. SumOver(f, V) = h[V]
  <2> DEFINE k == [s \in SUBSET V |-> h[s]]
  <2>1. IsSum(k, f, V)
    BY <1>1, <1>3, SumRestricted
  <2>2. k[V] = h[V]
    OBVIOUS
  <2> HIDE DEF k
  <2>3. IsSum(CHOOSE g : IsSum(g, f, V), f, V)
    BY <2>1
  <2>4. (CHOOSE g : IsSum(g, f, V)) = k
    BY <1>3, <2>1, <2>3, SumUnique
  <2> QED
    BY <2>2, <2>4 DEF SumOver
<1> QED
  BY <1>1, <1>2, <1>4 DEF V

LEMMA SumExists ==
    ASSUME NEW U, IsFiniteSet(U), NEW f
    PROVE  \E h : IsSum(h, f, U)
<1> DEFINE without == {s \in SUBSET U : ~\E h : IsSum(h, f, s)}
<1>1. ASSUME without # {} PROVE FALSE
  <2>1. PICK s \in without : \A r \in without : r \subseteq s => r = s
    <3>1. without \in SUBSET (SUBSET U)
      OBVIOUS
    <3> HIDE DEF without
    <3> QED
      BY <1>1, <3>1, LeastSubset
  <2> DEFINE h == [r \in SUBSET s |-> IF r = {} THEN 0
                                      ELSE f[NextElement(r)] + SumOver(f, r \ {NextElement(r)})]
  <2>2. ASSUME NEW r \in SUBSET s, r # s PROVE h[r] = SumOver(f, r)
    <3>1. IsFiniteSet(r) /\ \E g : IsSum(g, f, r)
      <4>1. r \in SUBSET U /\ r \notin without
        BY <2>1, <2>2
      <4> QED
        BY <4>1, FS_Subset
    <3> QED
      BY <3>1, SumUnfoldsIf
  <2>3. ASSUME NEW r \in SUBSET s
        PROVE  h[r] = IF r = {} THEN 0 ELSE f[NextElement(r)] + h[r \ {NextElement(r)}]
    <3>1. CASE r = {}
      BY <3>1
    <3>2. CASE r # {}
      <4>1. r \ {NextElement(r)} \in SUBSET s /\ r \ {NextElement(r)} # s
        BY <3>2, NextElementIn
      <4>2. h[r \ {NextElement(r)}] = SumOver(f, r \ {NextElement(r)})
        BY <2>2, <4>1
      <4>3. h[r] = f[NextElement(r)] + SumOver(f, r \ {NextElement(r)})
        BY <3>2
      <4> HIDE DEF h
      <4> QED
        BY <3>2, <4>2, <4>3
    <3> QED
      BY <3>1, <3>2
  <2>4. h = [r \in SUBSET s |-> h[r]]
    OBVIOUS
  <2> HIDE DEF h
  <2>5. IsSum(h, f, s)
    <3>1. [r \in SUBSET s |-> h[r]]
          = [r \in SUBSET s |-> IF r = {} THEN 0 ELSE f[NextElement(r)] + h[r \ {NextElement(r)}]]
      BY <2>3
    <3> QED
      BY <2>4, <3>1 DEF IsSum
  <2> QED
    BY <2>5
<1>2. U \notin without
  BY <1>1
<1> QED
  BY <1>2

\* A sum is what any such function says.
LEMMA SumIs ==
    ASSUME NEW U, IsFiniteSet(U), NEW f
    PROVE  \A h : h = (CHOOSE g : IsSum(g, f, U)) <=> IsSum(h, f, U)
<1>1. IsSum(CHOOSE g : IsSum(g, f, U), f, U)
  BY SumExists
<1> QED
  BY <1>1, SumUnique

LEMMA SumUnfolds ==
    ASSUME NEW S, IsFiniteSet(S), NEW f
    PROVE  SumOver(f, S) = IF S = {} THEN 0
                           ELSE f[NextElement(S)] + SumOver(f, S \ {NextElement(S)})
BY SumExists, SumUnfoldsIf

\* Sums of natural numbers are natural numbers.
LEMMA SumType ==
    ASSUME NEW U, IsFiniteSet(U), NEW f, \A x \in U : f[x] \in Nat
    PROVE  SumOver(f, U) \in Nat
<1> DEFINE wrong == {s \in SUBSET U : SumOver(f, s) \notin Nat}
<1>1. ASSUME wrong # {} PROVE FALSE
  <2>1. PICK s \in wrong : \A r \in wrong : r \subseteq s => r = s
    <3>1. wrong \in SUBSET (SUBSET U)
      OBVIOUS
    <3> HIDE DEF wrong
    <3> QED
      BY <1>1, <3>1, LeastSubset
  <2>2. IsFiniteSet(s)
    BY FS_Subset
  <2>3. s # {}
    BY <2>2, SumUnfolds
  <2>4. s \ {NextElement(s)} \in SUBSET U /\ s \ {NextElement(s)} # s /\ f[NextElement(s)] \in Nat
    BY <2>3, NextElementIn
  <2>5. SumOver(f, s \ {NextElement(s)}) \in Nat
    BY <2>1, <2>4
  <2>6. SumOver(f, s) = f[NextElement(s)] + SumOver(f, s \ {NextElement(s)})
    BY <2>2, <2>3, SumUnfolds
  <2> QED
    BY <2>4, <2>5, <2>6
<1> QED
  BY <1>1

\* Any element may be added first.
LEMMA SumTakes ==
    ASSUME NEW U, IsFiniteSet(U), NEW f, \A x \in U : f[x] \in Nat
    PROVE  \A x \in U : SumOver(f, U) = f[x] + SumOver(f, U \ {x})
<1> DEFINE Takes(s) == \A x \in s : SumOver(f, s) = f[x] + SumOver(f, s \ {x})
           wrong == {s \in SUBSET U : ~Takes(s)}
<1>1. ASSUME wrong # {} PROVE FALSE
  <2>1. PICK s \in wrong : \A r \in wrong : r \subseteq s => r = s
    <3>1. wrong \in SUBSET (SUBSET U)
      OBVIOUS
    <3> HIDE DEF wrong
    <3> QED
      BY <1>1, <3>1, LeastSubset
  <2> HIDE DEF Takes
  <2>2. ASSUME NEW x \in s PROVE SumOver(f, s) = f[x] + SumOver(f, s \ {x})
    <3> DEFINE y == NextElement(s)
               rest == (s \ {x}) \ {y}
    <3>1. IsFiniteSet(s) /\ y \in s
      BY FS_Subset, NextElementIn
    <3>2. SumOver(f, s) = f[y] + SumOver(f, s \ {y})
      BY <3>1, SumUnfolds
    <3>3. CASE x = y
      BY <3>2, <3>3
    <3>4. CASE x # y
      <4>1. Takes(s \ {x}) /\ Takes(s \ {y})
        BY <2>1, <3>1
      <4>2. rest = (s \ {y}) \ {x} /\ rest \in SUBSET U
        OBVIOUS
      <4>3. y \in s \ {x} /\ x \in s \ {y} /\ f[x] \in Nat /\ f[y] \in Nat
        BY <3>1, <3>4
      <4>4. SumOver(f, s \ {x}) = f[y] + SumOver(f, rest)
        BY <4>1, <4>3 DEF Takes
      <4> HIDE DEF y, rest
      <4>5. SumOver(f, s \ {y}) = f[x] + SumOver(f, rest)
        BY <4>1, <4>2, <4>3 DEF Takes
      <4>6. SumOver(f, rest) \in Nat
        <5>1. IsFiniteSet(rest)
          BY <4>2, FS_Subset
        <5> QED
          BY <4>2, <5>1, SumType
      <4> QED
        BY <3>2, <4>3, <4>4, <4>5, <4>6
    <3> QED
      BY <3>3, <3>4
  <2> QED
    BY <2>2 DEF Takes
<1>2. Takes(U)
  BY <1>1
<1> QED
  BY <1>2

\* Only the values on the set count.
LEMMA SumDependsOn ==
    ASSUME NEW U, IsFiniteSet(U), NEW f, NEW g, \A x \in U : f[x] = g[x]
    PROVE  SumOver(f, U) = SumOver(g, U)
<1>1. ASSUME NEW h PROVE IsSum(h, f, U) <=> IsSum(h, g, U)
  <2>1. [s \in SUBSET U |-> IF s = {} THEN 0 ELSE f[NextElement(s)] + h[s \ {NextElement(s)}]]
        = [s \in SUBSET U |-> IF s = {} THEN 0 ELSE g[NextElement(s)] + h[s \ {NextElement(s)}]]
    BY NextElementIn
  <2> QED
    BY <2>1 DEF IsSum
<1>2. (CHOOSE h : IsSum(h, f, U)) = (CHOOSE h : IsSum(h, g, U))
  <2>1. IsSum(CHOOSE h : IsSum(h, f, U), f, U) /\ IsSum(CHOOSE h : IsSum(h, g, U), g, U)
    BY SumExists
  <2> QED
    BY <1>1, <2>1, SumUnique
<1> QED
  BY <1>2 DEF SumOver

-----------------------------------------------------------------------------
(* Headers and their sizes. *)

\* The lines of the passed headers, as a sum.
Lines(mail) == [name \in Names(mail) |-> NameBytes + ValueSize(mail, name)]

\* _header_size is the sum of these lines and of References.
LEMMA HeaderSizeIsSum ==
    ASSUME NEW mail, IsFiniteSet(Names(mail)), NEW kept
    PROVE  HeaderSize(mail, kept)
           = SumOver(Lines(mail), Names(mail)) + NameBytes + ReferencesSize(kept)
<1> DEFINE S == Names(mail)
           Loop(h) == h = [s \in SUBSET S |->
                             IF s = {} THEN 0
                             ELSE (NameBytes + ValueSize(mail, NextElement(s)))
                                  + h[s \ {NextElement(s)}]]
<1>1. ASSUME NEW h PROVE Loop(h) <=> IsSum(h, Lines(mail), S)
  <2>1. \A s \in SUBSET S : s # {} =>
            Lines(mail)[NextElement(s)] = NameBytes + ValueSize(mail, NextElement(s))
    BY NextElementIn DEF Lines
  <2>2. [s \in SUBSET S |-> IF s = {} THEN 0
                            ELSE (NameBytes + ValueSize(mail, NextElement(s)))
                                  + h[s \ {NextElement(s)}]]
        = [s \in SUBSET S |-> IF s = {} THEN 0
                              ELSE Lines(mail)[NextElement(s)] + h[s \ {NextElement(s)}]]
    BY <2>1
  <2> QED
    BY <2>2 DEF IsSum
<1>2. HeaderSize(mail, kept) = (CHOOSE h : Loop(h))[S] + NameBytes + ReferencesSize(kept)
  BY DEF HeaderSize, MapThenSumSet, MapThenFoldSet, NextElement
<1>3. Loop(CHOOSE h : Loop(h))
  <2>1. \E h : Loop(h)
    BY <1>1, SumExists
  <2> HIDE DEF Loop
  <2> QED
    BY <2>1
<1>4. (CHOOSE h : Loop(h)) = (CHOOSE h : IsSum(h, Lines(mail), S))
  <2> HIDE DEF Loop
  <2> QED
    BY <1>1, <1>3, SumIs
<1> QED
  BY <1>2, <1>4 DEF SumOver

\* A message has finitely many headers.
LEMMA HeadersAreFinite ==
    ASSUME NEW mail, WellFormed(mail)
    PROVE  /\ DOMAIN mail.headers \in SUBSET Nat /\ IsFiniteSet(DOMAIN mail.headers)
           /\ IsFiniteSet(Names(mail)) /\ "References" \notin Names(mail)
<1> DEFINE places == DOMAIN mail.headers
           all == {mail.headers[i].name : i \in places}
<1>1. places \in SUBSET Nat /\ IsFiniteSet(places)
  <2>1. PICK n \in Nat : places = 1 .. n
    BY DEF WellFormed, IsSequence
  <2>2. IsFiniteSet(1 .. n)
    BY FS_Interval
  <2> QED
    BY <2>1, <2>2
<1>2. IsFiniteSet(all)
  <2> DEFINE name == [i \in places |-> mail.headers[i].name]
  <2>1. name \in Surjection(places, all)
    BY DEF Surjection
  <2> QED
    BY <1>1, <2>1, FS_Surjection
<1>3. Names(mail) \subseteq all
  BY DEF Names
<1>4. IsFiniteSet(Names(mail))
  BY <1>2, <1>3, FS_Subset
<1>5. "References" \notin all
  BY DEF WellFormed
<1> QED
  BY <1>1, <1>3, <1>4, <1>5

\* So the size of a value is a number.
LEMMA ValueSizeType ==
    ASSUME NEW mail, WellFormed(mail), NEW name
    PROVE  ValueSize(mail, name) \in Nat
<1> DEFINE at == {i \in DOMAIN mail.headers : mail.headers[i].name = name}
           size(i) == mail.headers[i].size
           added == [i \in at |-> IF i = Min(at) \/ size(i) = 0 THEN size(i) ELSE 2 + size(i)]
           Loop(h) == h = [s \in SUBSET at |->
                             IF s = {} THEN 0
                             ELSE (IF NextElement(s) = Min(at) \/ size(NextElement(s)) = 0
                                   THEN size(NextElement(s)) ELSE 2 + size(NextElement(s)))
                                  + h[s \ {NextElement(s)}]]
<1>1. IsFiniteSet(at) /\ \A i \in at : size(i) \in Nat
  BY HeadersAreFinite, FS_Subset DEF WellFormed
<1>2. ASSUME NEW h PROVE Loop(h) <=> IsSum(h, added, at)
  <2>1. \A s \in SUBSET at : s # {} =>
            added[NextElement(s)]
            = IF NextElement(s) = Min(at) \/ size(NextElement(s)) = 0
              THEN size(NextElement(s)) ELSE 2 + size(NextElement(s))
    <3>1. \A s \in SUBSET at : s # {} => NextElement(s) \in at
      BY NextElementIn
    <3> HIDE DEF at, size
    <3> QED
      BY <3>1
  <2>2. [s \in SUBSET at |->
            IF s = {} THEN 0
            ELSE (IF NextElement(s) = Min(at) \/ size(NextElement(s)) = 0
                  THEN size(NextElement(s)) ELSE 2 + size(NextElement(s)))
                 + h[s \ {NextElement(s)}]]
        = [s \in SUBSET at |-> IF s = {} THEN 0
                               ELSE added[NextElement(s)] + h[s \ {NextElement(s)}]]
    <3> HIDE DEF at, size, added
    <3> QED
      BY <2>1
  <2> HIDE DEF at, size, added
  <2> QED
    BY <2>2 DEF IsSum
<1>3. ValueSize(mail, name) = (CHOOSE h : Loop(h))[at]
  BY DEF ValueSize, MapThenSumSet, MapThenFoldSet, NextElement
<1>4. Loop(CHOOSE h : Loop(h))
  <2>1. \E h : Loop(h)
    <3> HIDE DEF Loop, at, added
    <3> QED
      BY <1>1, <1>2, SumExists
  <2> HIDE DEF Loop
  <2> QED
    BY <2>1
<1>5. \A i \in at : added[i] \in Nat
  <2> HIDE DEF at, size
  <2> QED
    BY <1>1
<1> HIDE DEF Loop, at, size, added
<1>6. (CHOOSE h : Loop(h)) = (CHOOSE h : IsSum(h, added, at))
  BY <1>1, <1>2, <1>4, SumIs
<1>7. SumOver(added, at) \in Nat
  BY <1>1, <1>5, SumType
<1> QED
  BY <1>3, <1>6, <1>7 DEF SumOver

\* The lines of all headers of a request.
AllLines(mail, kept) ==
    [name \in Names(mail) \cup {"References"} |->
        NameBytes + (IF name = "References" THEN ReferencesSize(kept)
                     ELSE ValueSize(mail, name))]

\* _header_size adds up exactly these.
LEMMA HeaderSizeIsTotal ==
    ASSUME NEW mail, WellFormed(mail), NEW kept \in Nat \ {0}
    PROVE  HeaderSize(mail, kept)
           = SumOver(AllLines(mail, kept), Names(mail) \cup {"References"})
<1> DEFINE names == Names(mail)
           all == names \cup {"References"}
           f == AllLines(mail, kept)
<1>1. /\ IsFiniteSet(names) /\ "References" \notin names
      /\ \A name \in names : ValueSize(mail, name) \in Nat
  BY HeadersAreFinite, ValueSizeType
<1>2. ReferencesSize(kept) \in Nat
  <2>1. \A k, b \in Nat : k * b \in Nat
    OBVIOUS
  <2>2. kept * IdBytes \in Nat
    BY <2>1, HeadersAssumption
  <2> QED
    BY <2>2 DEF ReferencesSize
<1> HIDE DEF names
<1>3. /\ f["References"] = NameBytes + ReferencesSize(kept)
      /\ \A name \in names : f[name] = NameBytes + ValueSize(mail, name)
  BY <1>1 DEF AllLines, names
<1>4. \A name \in all : f[name] \in Nat
  BY <1>1, <1>2, <1>3, HeadersAssumption
<1>5. IsFiniteSet(all) /\ all \ {"References"} = names
  BY <1>1, FS_AddElement
<1> HIDE DEF f
<1>6. SumOver(f, all) = f["References"] + SumOver(f, names)
  <2> HIDE DEF all
  <2>1. "References" \in all
    BY DEF all
  <2> QED
    BY <1>4, <1>5, <2>1, SumTakes
<1>7. SumOver(f, names) = SumOver(Lines(mail), names) /\ SumOver(f, names) \in Nat
  <2>1. \A name \in names : f[name] = Lines(mail)[name] /\ f[name] \in Nat
    BY <1>3, <1>4 DEF Lines, names
  <2> QED
    BY <1>1, <2>1, SumDependsOn, SumType
<1>8. HeaderSize(mail, kept)
      = SumOver(Lines(mail), names) + NameBytes + ReferencesSize(kept)
  BY <1>1, HeaderSizeIsSum DEF names
<1>9. HeaderSize(mail, kept) = SumOver(f, all)
  BY <1>2, <1>3, <1>6, <1>7, <1>8, HeadersAssumption
<1> QED
  BY <1>9 DEF f, names

-----------------------------------------------------------------------------
(* References and limits. *)

\* The references with the own id are a sequence, and not an empty one.
LEMMA WithOwnIdType ==
    ASSUME NEW mail, WellFormed(mail)
    PROVE  LET refs == WithOwnId(mail)
           IN  /\ IsSequence(refs) /\ Len(refs) \in Nat \ {0}
               /\ refs[Len(refs)] # mail.own =>
                    \E i \in 1 .. Len(mail.references) - 1 : mail.references[i] = mail.own
<1> DEFINE given == mail.references
<1>1. /\ given \in Seq({given[i] : i \in DOMAIN given})
      /\ Len(given) \in Nat /\ DOMAIN given = 1 .. Len(given)
  BY DEF WellFormed, IsSequence
<1>2. CASE \E i \in DOMAIN given : given[i] = mail.own
  <2>1. WithOwnId(mail) = given
    BY <1>2 DEF WithOwnId
  <2>2. PICK i \in 1 .. Len(given) : given[i] = mail.own
    BY <1>1, <1>2
  <2>3. Len(given) \in Nat \ {0}
    BY <1>1, <2>2
  <2>4. i # Len(given) => i \in 1 .. Len(given) - 1
    BY <1>1, <2>2
  <2> QED
    BY <1>1, <2>1, <2>2, <2>3, <2>4 DEF IsSequence
<1>3. CASE ~\E i \in DOMAIN given : given[i] = mail.own
  <2> DEFINE ids == {given[i] : i \in DOMAIN given} \cup {mail.own}
             refs == Append(given, mail.own)
  <2>1. WithOwnId(mail) = refs
    BY <1>3 DEF WithOwnId
  <2>2. given \in Seq(ids) /\ mail.own \in ids
    <3>1. given \in [1 .. Len(given) -> ids]
      <4>1. \A i \in 1 .. Len(given) : given[i] \in ids
        BY <1>1
      <4> QED
        BY <1>1, <4>1
    <3> QED
      BY <1>1, <3>1
  <2> HIDE DEF ids
  <2>3. /\ refs \in Seq(ids) /\ Len(refs) = Len(given) + 1
        /\ refs[Len(refs)] = mail.own
    BY <1>1, <2>2
  <2>4. refs \in Seq({refs[i] : i \in DOMAIN refs})
    <3> HIDE DEF refs
    <3>1. Len(refs) \in Nat /\ refs \in [1 .. Len(refs) -> {refs[i] : i \in DOMAIN refs}]
      BY <2>3
    <3> QED
      BY <3>1
  <2> HIDE DEF refs
  <2> QED
    BY <1>1, <2>1, <2>3, <2>4 DEF IsSequence
<1> QED
  BY <1>2, <1>3

\* As many ids are kept as fit, one at least.
LEMMA KeptIsLargest ==
    ASSUME NEW mail, WellFormed(mail)
    PROVE  LET all == Len(WithOwnId(mail))
               kept == Kept(mail)
           IN  /\ kept \in 1 .. all
               /\ kept > 1 => ~Oversized(mail, kept)
               /\ \A k \in kept + 1 .. all : Oversized(mail, k)
<1> DEFINE all == Len(WithOwnId(mail))
<1>1. all \in Nat \ {0}
  BY WithOwnIdType
<1>2. PICK t : IsTrim(t, Big(mail)) /\ Kept(mail) = t[all]
  BY KeptIsTrim
<1>3. Big(mail) \in SUBSET (Nat \ {0, 1})
  BY DEF Big
<1> HIDE DEF all
<1>4. t[all] \in 1 .. all /\ t[all] \notin Big(mail) /\ \A i \in t[all] + 1 .. all : i \in Big(mail)
  BY <1>1, <1>2, <1>3, TrimStops
<1> QED
  BY <1>1, <1>2, <1>4 DEF Big, all

\* The kept ids are the last ones.
LEMMA TrimmedIsTail ==
    ASSUME NEW mail, WellFormed(mail)
    PROVE  LET refs == WithOwnId(mail)
               kept == Kept(mail)
           IN  /\ Len(TrimReferences(mail)) = kept
               /\ TrimReferences(mail)[kept] = refs[Len(refs)]
<1> DEFINE refs == WithOwnId(mail)
           ids == {refs[i] : i \in DOMAIN refs}
           kept == Kept(mail)
<1>1. refs \in Seq(ids) /\ Len(refs) \in Nat \ {0}
  BY WithOwnIdType DEF IsSequence
<1>2. kept \in 1 .. Len(refs)
  BY KeptIsLargest
<1>3. TrimReferences(mail) = SubSeq(refs, Len(refs) - kept + 1, Len(refs))
  BY DEF TrimReferences
<1> HIDE DEF refs, ids, kept
<1>4. /\ Len(SubSeq(refs, Len(refs) - kept + 1, Len(refs))) = kept
      /\ SubSeq(refs, Len(refs) - kept + 1, Len(refs))[kept] = refs[Len(refs)]
  BY <1>1, <1>2
<1> QED
  BY <1>3, <1>4 DEF refs, kept

\* A buildable message keeps within every limit.
LEMMA BuildableIsWithinLimits ==
    ASSUME NEW shape, WellFormed(shape), Buildable(shape)
    PROVE  LET kept == Kept(shape)
               all == Names(shape) \cup {"References"}
           IN  /\ Cardinality(RecipientsOf(SplitRecipients(shape))) \in 1 .. MaxRecipients
               /\ ReferencesSize(kept) <= MaxHeaderValueBytes
               /\ \A name \in Names(shape) :
                    name # "References" /\ ValueSize(shape, name) <= MaxHeaderValueBytes
               /\ SumOver(AllLines(shape, kept), all) <= MaxHeaderBytes
               /\ Cardinality(all) <= MaxHeaderCount
<1> DEFINE kept == Kept(shape)
           names == Names(shape)
           all == names \cup {"References"}
           recipients == RecipientsOf(SplitRecipients(shape))
<1>1. Cardinality(recipients) \in 1 .. MaxRecipients
  <2>1. recipients = shape.envelope /\ IsFiniteSet(shape.envelope)
    BY SplitIsPartition DEF WellFormed
  <2>2. recipients # {} /\ Cardinality(recipients) <= MaxRecipients
    BY DEF Buildable, Addressable
  <2> HIDE DEF recipients
  <2>3. Cardinality(recipients) \in Nat /\ Cardinality(recipients) # 0
    BY <2>1, <2>2, FS_CardinalityType, FS_EmptySet
  <2> QED
    BY <2>2, <2>3, RecipientsAssumption
<1>2. kept \in Nat \ {0}
  <2>1. kept \in 1 .. Len(WithOwnId(shape)) /\ Len(WithOwnId(shape)) \in Nat
    BY KeptIsLargest, WithOwnIdType
  <2> HIDE DEF kept
  <2> QED
    BY <2>1
<1>3. IsFiniteSet(names) /\ "References" \notin names
  BY HeadersAreFinite
<1>4. HeaderSize(shape, kept) = SumOver(AllLines(shape, kept), all)
  BY <1>2, HeaderSizeIsTotal
<1>5. HeaderSize(shape, kept) \in Int /\ ReferencesSize(kept) \in Int
  <2>1. SumOver(Lines(shape), names) \in Nat
    <3>1. \A name \in names : Lines(shape)[name] \in Nat
      BY ValueSizeType, HeadersAssumption DEF Lines
    <3> HIDE DEF names
    <3> QED
      BY <1>3, <3>1, SumType
  <2>2. ReferencesSize(kept) \in Int
    <3>1. \A k, b \in Nat : k * b + (k - 1) \in Int
      OBVIOUS
    <3> QED
      BY <1>2, <3>1, HeadersAssumption DEF ReferencesSize
  <2>3. HeaderSize(shape, kept) = SumOver(Lines(shape), names) + NameBytes + ReferencesSize(kept)
    BY <1>3, HeaderSizeIsSum
  <2> QED
    BY <2>1, <2>2, <2>3, HeadersAssumption
<1>6. ~Oversized(shape, kept) /\ Cardinality(names) + 1 <= MaxHeaderCount
      /\ \A name \in names : ValueSize(shape, name) <= MaxHeaderValueBytes
  BY DEF Buildable, HeadersFit
<1> HIDE DEF kept, names
<1>7. ReferencesSize(kept) <= MaxHeaderValueBytes /\ HeaderSize(shape, kept) <= MaxHeaderBytes
  BY <1>5, <1>6, HeadersAssumption DEF Oversized
<1>8. Cardinality(all) = Cardinality(names) + 1
  BY <1>3, FS_AddElement
<1> QED
  BY <1>1, <1>3, <1>4, <1>6, <1>7, <1>8 DEF kept, names

=============================================================================
