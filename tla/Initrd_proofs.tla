---------------------------- MODULE Initrd_proofs ----------------------------
(***************************************************************************)
(* Proofs about the initial ramdisk, for any number of files, names and    *)
(* lengths within the assumptions of Initrd.                               *)
(*                                                                         *)
(* A buffer that holds a name says that name again: Str and Text, strlen,  *)
(* strcmp and strcpy are settled by the place of the first zero.  Then the *)
(* nodes that initialise_initrd builds are the files that mkinit was       *)
(* given, which no call changes afterwards, and each answer follows.  That *)
(* a read returns the file's data also takes an induction over the files:  *)
(* the offset that mkinit counts up to is where the data is written.       *)
(***************************************************************************)
EXTENDS Initrd, WellFoundedInduction, TLAPS

LEMMA Constants ==
    /\ Char \subseteq Nat \ {0}
    /\ MaxFiles \in Nat /\ HeaderSize \in Nat /\ Location \in Nat /\ NameLen \in Nat
    /\ SCHAR \in Nat /\ U32 \in Nat /\ Lengths \subseteq Nat
    /\ MaxName \in Nat /\ 2 <= MaxName /\ MaxName <= NameLen
    /\ Spare \in 0..1 /\ 2 * MaxFiles + Spare + 1 < SCHAR \div 2
    /\ MaxFiles < U32
BY InitrdAssumption

LEMMA LeastNat ==
    ASSUME NEW S, S \subseteq Nat, S # {}
    PROVE  \E x \in S : \A y \in S : x <= y
<1>1. IsWellFoundedOn(OpToRel(<, Nat), Nat)
  BY NatLessThanWellFounded
<1>2. PICK x \in S : \A y \in S : ~ (<<y, x>> \in OpToRel(<, Nat))
  BY <1>1, WFMin
<1>3. ASSUME NEW y \in S PROVE x <= y
  <2>1. <<y, x>> \in Nat \X Nat /\ x \in Nat /\ y \in Nat
    OBVIOUS
  <2>2. ~(<<y, x>>[1] < <<y, x>>[2])
    BY <1>2, <2>1, Zenon DEF OpToRel
  <2> QED BY <2>1, <2>2
<1> QED BY <1>3

LEMMA MinNat ==
    ASSUME NEW S, S \subseteq Nat, S # {}
    PROVE  Min(S) \in S /\ \A y \in S : Min(S) <= y
<1>1. \E x \in S : \A y \in S : x <= y
  BY LeastNat
<1> QED BY <1>1 DEF Min

(* The least element is the one below which there is none.                 *)
LEMMA MinIs ==
    ASSUME NEW S, S \subseteq Nat, NEW x \in S, \A y \in S : x <= y
    PROVE  Min(S) = x
<1>1. Min(S) \in S /\ Min(S) <= x /\ x <= Min(S)
  BY MinNat
<1>2. Min(S) \in Nat /\ x \in Nat
  BY <1>1
<1> QED BY <1>1, <1>2

-----------------------------------------------------------------------------
(* Buffers and names.                                                      *)

LEMMA NameType ==
    ASSUME NEW n \in Name
    PROVE  /\ Len(n) \in 1..MaxName /\ Len(n) \in Nat /\ Len(n) <= NameLen
           /\ n = [k \in 1..Len(n) |-> n[k]]
           /\ \A k \in 1..Len(n) : n[k] \in Nat /\ n[k] # 0
<1> USE Constants
<1>1. PICK l \in 1..MaxName : n \in [1..l -> Char]
  BY DEF Name
<1>2. Len(n) = l
  BY <1>1
<1>3. n = [k \in 1..l |-> n[k]] /\ \A k \in 1..l : n[k] \in Char
  BY <1>1
<1>4. l \in Nat /\ l <= NameLen
  OBVIOUS
<1>5. \A k \in 1..l : n[k] \in Nat /\ n[k] # 0
  BY <1>3
<1> QED BY <1>2, <1>3, <1>4, <1>5

(* The characters of a buffer up to its first zero are those of the name.  *)
Says(s, n) ==
    /\ DOMAIN s = 0..NameLen
    /\ \A k \in 0..(Len(n) - 1) : s[k] = n[k + 1]
    /\ s[Len(n)] = 0

LEMMA StrSays ==
    ASSUME NEW n \in Name
    PROVE  Says(Str(n), n)
BY NameType, Constants DEF Says, Str

LEMMA NonZero ==
    ASSUME NEW n \in Name, NEW s, Says(s, n)
    PROVE  \A k \in 0..(Len(n) - 1) : s[k] # 0
<1> SUFFICES ASSUME NEW k \in 0..(Len(n) - 1) PROVE s[k] # 0
  OBVIOUS
<1>1. Len(n) \in Nat /\ k + 1 \in 1..Len(n)
  BY NameType
<1> QED BY <1>1, NameType DEF Says

LEMMA SaysLength ==
    ASSUME NEW n \in Name, NEW s, Says(s, n)
    PROVE  strlen(s) = Len(n)
<1> USE Constants
<1> DEFINE Z == {k \in DOMAIN s : s[k] = 0}
<1>1. Len(n) \in Nat /\ Len(n) <= NameLen
  BY NameType
<1>2. Z \subseteq Nat /\ Len(n) \in Z
  BY <1>1 DEF Says
<1>3. \A y \in Z : Len(n) <= y
  <2> SUFFICES ASSUME NEW y \in Z, y < Len(n) PROVE FALSE
    BY <1>1, <1>2
  <2>1. y \in 0..(Len(n) - 1) /\ s[y] = 0
    BY <1>1, <1>2
  <2> QED BY <2>1, NonZero
<1> HIDE DEF Z
<1>4. Min(Z) = Len(n)
  BY <1>2, <1>3, MinIs
<1> QED BY <1>4 DEF strlen, Z

LEMMA SaysText ==
    ASSUME NEW n \in Name, NEW s, Says(s, n)
    PROVE  Text(s) = n
<1>1. strlen(s) = Len(n) /\ Len(n) \in Nat /\ n = [k \in 1..Len(n) |-> n[k]]
  BY SaysLength, NameType
<1>2. \A k \in 1..Len(n) : s[k - 1] = n[k]
  <2> SUFFICES ASSUME NEW k \in 1..Len(n) PROVE s[k - 1] = n[k]
    OBVIOUS
  <2>1. k - 1 \in 0..(Len(n) - 1) /\ (k - 1) + 1 = k
    BY <1>1
  <2> QED BY <2>1 DEF Says
<1> QED BY <1>1, <1>2 DEF Text

LEMMA Compare ==
    ASSUME NEW a \in Name, NEW b \in Name, NEW s, NEW t, Says(s, a), Says(t, b)
    PROVE  strcmp(s, t) = 0 <=> a = b
<1> USE Constants
<1> DEFINE D == {k \in DOMAIN s \cap DOMAIN t : s[k] = 0 \/ t[k] = 0 \/ s[k] # t[k]}
           i == Min(D)
<1>1. /\ Len(a) \in Nat /\ Len(a) <= NameLen /\ a = [k \in 1..Len(a) |-> a[k]]
      /\ Len(b) \in Nat /\ Len(b) <= NameLen /\ b = [k \in 1..Len(b) |-> b[k]]
      /\ DOMAIN s = 0..NameLen /\ DOMAIN t = 0..NameLen
      /\ s[Len(a)] = 0 /\ t[Len(b)] = 0
  BY NameType DEF Says
<1>2. D \subseteq Nat /\ Len(a) \in D /\ Len(b) \in D
  BY <1>1
<1>3. i \in D /\ i \in Nat /\ (\A y \in D : i <= y) /\ i <= Len(a) /\ i <= Len(b)
  <2> HIDE DEF D
  <2> QED BY <1>2, MinNat
<1>4. strcmp(s, t) = IF s[i] = t[i] THEN 0 ELSE 1
  BY DEF strcmp
<1>5. s[i] = 0 \/ t[i] = 0 \/ s[i] # t[i]
  BY <1>3
<1>6. \A k \in Nat : k < i => s[k] = t[k]
  <2> SUFFICES ASSUME NEW k \in Nat, k < i PROVE s[k] = t[k]
    OBVIOUS
  <2>1. k \in 0..NameLen /\ k \notin D
    <3> HIDE DEF D, i
    <3> QED BY <1>1, <1>3
  <2> QED BY <1>1, <2>1
<1> HIDE DEF D, i
<1>7. ASSUME s[i] = t[i] PROVE a = b
  <2>1. s[i] = 0 /\ t[i] = 0
    BY <1>5, <1>7
  <2>2. i = Len(a)
    <3>1. i \notin 0..(Len(a) - 1)
      BY <2>1, NonZero
    <3> QED BY <1>1, <1>3, <3>1
  <2>3. i = Len(b)
    <3>1. i \notin 0..(Len(b) - 1)
      BY <2>1, NonZero
    <3> QED BY <1>1, <1>3, <3>1
  <2>4. \A k \in 1..i : a[k] = b[k]
    <3> SUFFICES ASSUME NEW k \in 1..i PROVE a[k] = b[k]
      OBVIOUS
    <3>1. k - 1 \in Nat /\ k - 1 < i /\ (k - 1) + 1 = k /\ k - 1 \in 0..(i - 1)
      BY <1>3
    <3>2. s[k - 1] = a[k] /\ t[k - 1] = b[k]
      BY <2>2, <2>3, <3>1 DEF Says
    <3> QED BY <1>6, <3>1, <3>2
  <2> QED BY <1>1, <2>2, <2>3, <2>4
<1>8. ASSUME a = b PROVE s[i] = t[i]
  <2>1. CASE i = Len(a)
    BY <1>1, <1>8, <2>1
  <2>2. CASE i < Len(a)
    <3>1. i \in 0..(Len(a) - 1)
      BY <1>1, <1>3, <2>2
    <3> QED BY <1>8, <3>1 DEF Says
  <2> QED BY <1>1, <1>3, <2>1, <2>2
<1> QED BY <1>4, <1>7, <1>8

(* strcpy copies the name, and whatever comes after it stays.              *)
LEMMA Copy ==
    ASSUME NEW n \in Name, NEW s, Says(s, n), NEW dest, DOMAIN dest = 0..NameLen
    PROVE  strcpy(dest, s) = [k \in 0..NameLen |-> IF k < Len(n) THEN n[k + 1] ELSE dest[k]]
<1> USE Constants
<1> DEFINE Z == {k \in DOMAIN s : k > 0 /\ s[k] = 0}
<1>1. Len(n) \in Nat /\ Len(n) > 0 /\ Len(n) <= NameLen
  BY NameType
<1>2. Z \subseteq Nat /\ Len(n) \in Z
  BY <1>1 DEF Says
<1>3. \A y \in Z : Len(n) <= y
  <2> SUFFICES ASSUME NEW y \in Z, y < Len(n) PROVE FALSE
    BY <1>1, <1>2
  <2>1. y \in 0..(Len(n) - 1) /\ s[y] = 0
    BY <1>1, <1>2
  <2> QED BY <2>1, NonZero
<1> HIDE DEF Z
<1>4. Min(Z) = Len(n)
  BY <1>2, <1>3, MinIs
<1>5. strcpy(dest, s) = [k \in 0..NameLen |-> IF k < Len(n) THEN s[k] ELSE dest[k]]
  BY <1>4 DEF strcpy, Z
<1>6. \A k \in 0..NameLen : k < Len(n) => s[k] = n[k + 1]
  BY <1>1 DEF Says
<1> QED BY <1>5, <1>6

(* A copied name, terminated, says the name.                               *)
LEMMA CopySays ==
    ASSUME NEW n \in Name, NEW s, Says(s, n), NEW dest, DOMAIN dest = 0..NameLen
    PROVE  Says([strcpy(dest, s) EXCEPT ![Len(n)] = 0], n)
<1> USE Constants
<1>1. Len(n) \in Nat /\ Len(n) <= NameLen
  BY NameType
<1>2. strcpy(dest, s) = [k \in 0..NameLen |-> IF k < Len(n) THEN n[k + 1] ELSE dest[k]]
  BY Copy
<1> QED BY <1>1, <1>2 DEF Says

-----------------------------------------------------------------------------
(* What mkinit is given, and the headers it makes.                         *)

FilesOK ==
    /\ nfiles \in 0..MaxFiles
    /\ \A k \in 1..nfiles : /\ files[k].name \in Name
                            /\ files[k].data \in Seq(Nat \X Nat)
                            /\ Len(files[k].data) \in Lengths

LEMMA HeaderCount ==
    ASSUME nfiles \in 0..MaxFiles
    PROVE  (SChar(2 * nfiles + Spare + 1) - 1) \div 2 = nfiles
<1> USE Constants
<1>1. PICK n \in Nat : n = nfiles /\ n <= MaxFiles
  OBVIOUS
<1>2. SCHAR \div 2 <= SCHAR /\ SCHAR \div 2 \in Nat
  OBVIOUS
<1>3. 2 * n + Spare + 1 < SCHAR \div 2 /\ 2 * n + Spare + 1 \in Nat
  BY <1>1, <1>2
<1>4. (2 * n + Spare + 1) % SCHAR = 2 * n + Spare + 1
  BY <1>2, <1>3
<1>5. SChar(2 * n + Spare + 1) = 2 * n + Spare + 1
  BY <1>3, <1>4 DEF SChar
<1>6. (2 * n + Spare + 1 - 1) \div 2 = n
  BY <1>1
<1> QED BY <1>1, <1>5, <1>6

LEMMA Headers ==
    ASSUME nfiles \in 0..MaxFiles
    PROVE  /\ DOMAIN mkinit.headers = 1..nfiles
           /\ \A k \in 1..nfiles : /\ mkinit.headers[k].name = Str(files[k].name)
                                   /\ mkinit.headers[k].length = Len(files[k].data)
                                   /\ mkinit.headers[k].offset = off[k]
           /\ mkinit.data = written[nfiles]
<1>1. (SChar(2 * nfiles + Spare + 1) - 1) \div 2 = nfiles
  BY HeaderCount
<1> QED BY <1>1 DEF mkinit

LEMMA HeaderSeq ==
    ASSUME nfiles \in 0..MaxFiles
    PROVE  /\ mkinit.headers \in Seq({mkinit.headers[k] : k \in 1..nfiles})
           /\ Len(mkinit.headers) = nfiles
<1>1. PICK H : mkinit.headers = [k \in 1..nfiles |-> H[k]]
  <2>1. (SChar(2 * nfiles + Spare + 1) - 1) \div 2 = nfiles
    BY HeaderCount
  <2>2. mkinit.headers = [k \in 1..nfiles |-> mkinit.headers[k]]
    BY <2>1 DEF mkinit
  <2> QED BY <2>2
<1>2. nfiles \in Nat
  BY Constants
<1> QED BY <1>1, <1>2

-----------------------------------------------------------------------------
(* The offsets that mkinit counts are where it writes the data.            *)

LEMMA Induction ==
    ASSUME NEW S, 0 \in S, \A n \in Nat : n \in S => n + 1 \in S
    PROVE  Nat \subseteq S
<1> SUFFICES ASSUME Nat \ S # {} PROVE FALSE
  OBVIOUS
<1>1. PICK x \in Nat \ S : \A y \in Nat \ S : x <= y
  BY LeastNat
<1>2. x # 0 /\ x - 1 \in Nat /\ x - 1 < x /\ (x - 1) + 1 = x
  BY <1>1
<1>3. x - 1 \in S
  BY <1>1, <1>2
<1> QED BY <1>1, <1>2, <1>3

(* The recursive definitions have solutions, and so mean what they say.    *)
LEMMA OffUnfolds ==
    ASSUME nfiles \in Nat
    PROVE  off = [i \in 1..(nfiles + 1) |->
                     IF i = 1 THEN HeaderSize ELSE off[i - 1] + Len(files[i - 1].data)]
<1> DEFINE Step(n, f) == [i \in 1..(n + 1) |->
                            IF i = 1 THEN HeaderSize ELSE f[i - 1] + Len(files[i - 1].data)]
           S == {n \in Nat : \E f : f = Step(n, f)}
<1>1. 0 \in S
  <2>1. [i \in 1..(0 + 1) |-> HeaderSize] = Step(0, [i \in 1..(0 + 1) |-> HeaderSize])
    OBVIOUS
  <2> QED BY <2>1
<1>2. ASSUME NEW n \in Nat, n \in S PROVE n + 1 \in S
  <2>1. PICK f : f = Step(n, f)
    BY <1>2
  <2> DEFINE g == Step(n + 1, f)
  <2>2. \A i \in 1..(n + 1) : g[i] = f[i]
    <3>1. \A i \in 1..(n + 1) : f[i] = Step(n, f)[i]
      BY <2>1, Zenon
    <3>2. \A i \in 1..(n + 1) : g[i] = Step(n, f)[i]
      OBVIOUS
    <3> QED BY <3>1, <3>2
  <2>3. \A i \in 1..(n + 1 + 1) : i # 1 => g[i - 1] = f[i - 1]
    <3> HIDE DEF g
    <3> QED BY <2>2
  <2>4. \A i \in 1..(n + 1 + 1) : g[i] = Step(n + 1, g)[i]
    <3> SUFFICES ASSUME NEW i \in 1..(n + 1 + 1) PROVE g[i] = Step(n + 1, g)[i]
      OBVIOUS
    <3>1. g[i] = IF i = 1 THEN HeaderSize ELSE f[i - 1] + Len(files[i - 1].data)
      OBVIOUS
    <3> HIDE DEF g
    <3>2. Step(n + 1, g)[i] = IF i = 1 THEN HeaderSize ELSE g[i - 1] + Len(files[i - 1].data)
      OBVIOUS
    <3> QED BY <2>3, <3>1, <3>2
  <2>5. g = Step(n + 1, g)
    BY <2>4
  <2>6. n + 1 \in Nat /\ \E h : h = Step(n + 1, h)
    <3> HIDE DEF g, Step
    <3> QED BY <2>5
  <2> HIDE DEF Step
  <2> QED BY <2>6
<1> HIDE DEF S
<1>3. nfiles \in S
  BY <1>1, <1>2, Induction
<1>4. \E f : f = Step(nfiles, f)
  BY <1>3 DEF S
<1>5. off = CHOOSE f : f = Step(nfiles, f)
  BY Zenon DEF off
<1> HIDE DEF Step
<1>6. off = Step(nfiles, off)
  BY <1>4, <1>5, Zenon
<1> QED BY <1>6 DEF Step

LEMMA WrittenUnfolds ==
    ASSUME nfiles \in Nat
    PROVE  written = [i \in 0..nfiles |->
                         IF i = 0 THEN <<>> ELSE written[i - 1] \o files[i].data]
<1> DEFINE Step(n, f) == [i \in 0..n |->
                            IF i = 0 THEN <<>> ELSE f[i - 1] \o files[i].data]
           S == {n \in Nat : \E f : f = Step(n, f)}
<1>1. 0 \in S
  <2>1. [i \in 0..0 |-> <<>>] = Step(0, [i \in 0..0 |-> <<>>])
    OBVIOUS
  <2> QED BY <2>1
<1>2. ASSUME NEW n \in Nat, n \in S PROVE n + 1 \in S
  <2>1. PICK f : f = Step(n, f)
    BY <1>2
  <2> DEFINE g == Step(n + 1, f)
  <2>2. \A i \in 0..n : g[i] = f[i]
    <3>1. \A i \in 0..n : f[i] = Step(n, f)[i]
      BY <2>1, Zenon
    <3>2. \A i \in 0..n : g[i] = Step(n, f)[i]
      OBVIOUS
    <3> QED BY <3>1, <3>2
  <2>3. \A i \in 0..(n + 1) : i # 0 => g[i - 1] = f[i - 1]
    <3> HIDE DEF g
    <3> QED BY <2>2
  <2>4. \A i \in 0..(n + 1) : g[i] = Step(n + 1, g)[i]
    <3> SUFFICES ASSUME NEW i \in 0..(n + 1) PROVE g[i] = Step(n + 1, g)[i]
      OBVIOUS
    <3>1. g[i] = IF i = 0 THEN <<>> ELSE f[i - 1] \o files[i].data
      OBVIOUS
    <3> HIDE DEF g
    <3>2. Step(n + 1, g)[i] = IF i = 0 THEN <<>> ELSE g[i - 1] \o files[i].data
      OBVIOUS
    <3> QED BY <2>3, <3>1, <3>2
  <2>5. g = Step(n + 1, g)
    BY <2>4
  <2>6. n + 1 \in Nat /\ \E h : h = Step(n + 1, h)
    <3> HIDE DEF g, Step
    <3> QED BY <2>5
  <2> HIDE DEF Step
  <2> QED BY <2>6
<1> HIDE DEF S
<1>3. nfiles \in S
  BY <1>1, <1>2, Induction
<1>4. \E f : f = Step(nfiles, f)
  BY <1>3 DEF S
<1>5. written = CHOOSE f : f = Step(nfiles, f)
  BY Zenon DEF written
<1> HIDE DEF Step
<1>6. written = Step(nfiles, written)
  BY <1>4, <1>5, Zenon
<1> QED BY <1>6 DEF Step

LEMMA Concatenation ==
    ASSUME NEW T, NEW s \in Seq(T), NEW t \in Seq(T)
    PROVE  /\ s \o t \in Seq(T) /\ Len(s \o t) = Len(s) + Len(t)
           /\ Len(s) \in Nat /\ Len(t) \in Nat
           /\ \A b \in 1..Len(s) : (s \o t)[b] = s[b]
           /\ \A b \in 1..Len(t) : (s \o t)[Len(s) + b] = t[b]
<1>1. \A b \in 1..Len(t) : (s \o t)[Len(s) + b] = t[b]
  <2> SUFFICES ASSUME NEW b \in 1..Len(t) PROVE (s \o t)[Len(s) + b] = t[b]
    OBVIOUS
  <2>1. Len(s) \in Nat /\ Len(t) \in Nat /\ Len(s) + b \in 1..(Len(s) + Len(t))
        /\ ~(Len(s) + b <= Len(s)) /\ Len(s) + b - Len(s) = b
    OBVIOUS
  <2> QED BY <2>1
<1> QED BY <1>1

(* The data of file k lies at its offset in what is written up to file i.  *)
Placed(i, k) ==
    /\ off[k] \in Nat /\ HeaderSize <= off[k]
    /\ off[k] - HeaderSize + Len(files[k].data) <= Len(written[i])
    /\ \A b \in 1..Len(files[k].data) :
          written[i][off[k] - HeaderSize + b] = files[k].data[b]

Laid(i) ==
    /\ written[i] \in Seq(Nat \X Nat)
    /\ off[i + 1] = HeaderSize + Len(written[i])
    /\ \A k \in 1..i : Placed(i, k)

LEMMA LayoutStep ==
    ASSUME FilesOK, NEW i \in Nat, i + 1 <= nfiles, Laid(i)
    PROVE  Laid(i + 1)
<1> USE Constants
<1>1. nfiles \in Nat /\ i + 1 \in 1..nfiles /\ i + 1 \in 0..nfiles /\ i + 1 + 1 \in 1..(nfiles + 1)
  BY DEF FilesOK
<1> DEFINE w == written[i]
           d == files[i + 1].data
<1>2. /\ d \in Seq(Nat \X Nat) /\ Len(d) \in Nat
      /\ w \in Seq(Nat \X Nat) /\ Len(w) \in Nat /\ off[i + 1] = HeaderSize + Len(w)
  BY <1>1 DEF FilesOK, Laid
<1>3. written[i + 1] = w \o d
  <2>1. written[i + 1] = IF i + 1 = 0 THEN <<>> ELSE written[i + 1 - 1] \o files[i + 1].data
    BY <1>1, WrittenUnfolds
  <2>2. i + 1 # 0 /\ i + 1 - 1 = i
    OBVIOUS
  <2> QED BY <2>1, <2>2
<1>4. off[i + 1 + 1] = off[i + 1] + Len(d)
  <2>1. off[i + 1 + 1] = IF i + 1 + 1 = 1 THEN HeaderSize
                         ELSE off[i + 1 + 1 - 1] + Len(files[i + 1 + 1 - 1].data)
    BY <1>1, OffUnfolds
  <2>2. i + 1 + 1 # 1 /\ i + 1 + 1 - 1 = i + 1
    OBVIOUS
  <2> QED BY <2>1, <2>2
<1>5. ASSUME NEW k \in 1..i PROVE Placed(i + 1, k)
  <2>1. Placed(i, k)
    BY DEF Laid
  <2>2. k \in 1..nfiles /\ Len(files[k].data) \in Nat
    BY <1>1 DEF FilesOK
  <2> DEFINE p == off[k] - HeaderSize
             l == Len(files[k].data)
  <2>3. /\ p + l <= Len(w) /\ off[k] \in Nat /\ HeaderSize <= off[k]
        /\ \A b \in 1..l : w[p + b] = files[k].data[b]
    BY <2>1, Zenon DEF Placed
  <2>4. p \in Nat /\ l \in Nat
    BY <2>2, <2>3
  <2> HIDE DEF p, l, w, d
  <2>5. Len(w \o d) = Len(w) + Len(d) /\ p + l <= Len(w \o d)
    BY <1>2, <2>3, <2>4, Concatenation
  <2>6. \A b \in 1..l : (w \o d)[p + b] = files[k].data[b]
    <3> SUFFICES ASSUME NEW b \in 1..l PROVE (w \o d)[p + b] = files[k].data[b]
      OBVIOUS
    <3>1. p + b \in 1..Len(w)
      BY <1>2, <2>3, <2>4
    <3>2. (w \o d)[p + b] = w[p + b]
      BY <1>2, <3>1, Concatenation
    <3> QED BY <2>3, <3>2
  <2> QED BY <1>3, <2>1, <2>5, <2>6 DEF Placed, p, l
<1>6. Placed(i + 1, i + 1)
  <2> HIDE DEF w, d
  <2>1. off[i + 1] - HeaderSize = Len(w) /\ off[i + 1] \in Nat /\ HeaderSize <= off[i + 1]
    BY <1>2
  <2>2. Len(w \o d) = Len(w) + Len(d)
    BY <1>2, Concatenation
  <2>3. \A b \in 1..Len(d) : (w \o d)[Len(w) + b] = d[b]
    BY <1>2, Concatenation
  <2>4. off[i + 1] - HeaderSize + Len(d) <= Len(w \o d)
    BY <1>2, <2>1, <2>2
  <2>5. \A b \in 1..Len(d) : (w \o d)[off[i + 1] - HeaderSize + b] = d[b]
    BY <2>1, <2>3, Zenon
  <2> QED BY <1>3, <2>1, <2>4, <2>5, Zenon DEF Placed, d
<1>7. written[i + 1] \in Seq(Nat \X Nat) /\ off[i + 1 + 1] = HeaderSize + Len(written[i + 1])
  <2>1. w \o d \in Seq(Nat \X Nat) /\ Len(w \o d) = Len(w) + Len(d)
    BY <1>2, Concatenation
  <2> HIDE DEF w, d
  <2>2. /\ Len(w) \in Nat /\ Len(d) \in Nat
        /\ HeaderSize + Len(w) + Len(d) = HeaderSize + (Len(w) + Len(d))
    BY <1>2
  <2> QED BY <1>2, <1>3, <1>4, <2>1, <2>2
<1>8. \A k \in 1..(i + 1) : k \in 1..i \/ k = i + 1
  OBVIOUS
<1> QED BY <1>5, <1>6, <1>7, <1>8 DEF Laid

LEMMA Layout ==
    ASSUME FilesOK
    PROVE  Laid(nfiles)
<1> USE Constants
<1> DEFINE S == {i \in Nat : i <= nfiles => Laid(i)}
<1>0. nfiles \in Nat
  BY DEF FilesOK
<1>1. 0 \in S
  <2>1. written[0] = <<>>
    <3>1. 0 \in 0..nfiles
      BY <1>0
    <3>2. written[0] = IF 0 = 0 THEN <<>> ELSE written[0 - 1] \o files[0].data
      BY <1>0, <3>1, WrittenUnfolds
    <3> QED BY <3>2
  <2>2. off[0 + 1] = HeaderSize
    BY <1>0, OffUnfolds
  <2>3. <<>> \in Seq(Nat \X Nat) /\ Len(<<>>) = 0
    OBVIOUS
  <2>4. Laid(0)
    BY <2>1, <2>2, <2>3 DEF Laid
  <2> HIDE DEF Laid
  <2> QED BY <2>4
<1>2. ASSUME NEW i \in Nat, i \in S PROVE i + 1 \in S
  <2>1. ASSUME i + 1 <= nfiles PROVE Laid(i + 1)
    <3>1. Laid(i)
      BY <1>0, <1>2, <2>1
    <3> QED BY <2>1, <3>1, LayoutStep
  <2> QED BY <2>1
<1> HIDE DEF S
<1>3. nfiles \in S
  BY <1>0, <1>1, <1>2, Induction
<1> QED BY <1>0, <1>3 DEF S

-----------------------------------------------------------------------------
(* The nodes stay the files that mkinit was given.                         *)

NodesOK ==
    /\ DOMAIN nodes = {initrd_root, initrd_dev} \cup 0..(nfiles - 1)
    /\ nroot_nodes = nfiles
    /\ \A n \in {initrd_root, initrd_dev} :
          /\ nodes[n].flags = "directory" /\ nodes[n].readdir /\ nodes[n].finddir
          /\ nodes[n].read = FALSE
    /\ \A n \in 0..(nfiles - 1) :
          /\ nodes[n].flags = "file" /\ nodes[n].inode = n /\ nodes[n].read = TRUE
          /\ garbage = 0 => Says(nodes[n].name, files[n + 1].name)

Built == FilesOK /\ (nodes # <<>> => NodesOK) /\ DOMAIN dirent.name = 0..NameLen

LEMMA NodeNameSays ==
    ASSUME garbage = 0, NEW n \in Name
    PROVE  Says(NodeName(Str(n)), n)
<1> USE Constants
<1> DEFINE clean == [k \in 0..NameLen |-> IF k < NameLen THEN garbage ELSE 0]
<1>1. DOMAIN clean = 0..NameLen /\ \A k \in 0..NameLen : clean[k] = 0
  OBVIOUS
<1>2. NodeName(Str(n)) = strcpy(clean, Str(n))
  BY DEF NodeName
<1> HIDE DEF clean
<1>3. strcpy(clean, Str(n)) = [k \in 0..NameLen |-> IF k < Len(n) THEN n[k + 1] ELSE clean[k]]
  BY <1>1, StrSays, Copy
<1>4. Len(n) \in Nat /\ Len(n) <= NameLen
  BY NameType
<1> QED BY <1>1, <1>2, <1>3, <1>4 DEF Says

LEMMA InitBuilt == ASSUME Init PROVE Built
<1> USE Constants
<1>0. PICK n \in 0..MaxFiles : \E names \in [1..n -> Name], len \in [1..n -> Lengths] :
         files = [k \in 1..n |-> [name |-> names[k], data |-> [b \in 1..len[k] |-> <<k, b>>]]]
  BY DEF Init
<1>1. PICK names \in [1..n -> Name], len \in [1..n -> Lengths] :
         files = [k \in 1..n |-> [name |-> names[k], data |-> [b \in 1..len[k] |-> <<k, b>>]]]
  BY <1>0
<1>2. nfiles = n
  BY <1>1 DEF nfiles
<1>3. ASSUME NEW k \in 1..n
      PROVE  /\ files[k].name \in Name
             /\ files[k].data \in Seq(Nat \X Nat) /\ Len(files[k].data) \in Lengths
  <2>1. files[k].name = names[k] /\ files[k].data = [b \in 1..len[k] |-> <<k, b>>]
    BY <1>1
  <2>2. len[k] \in Lengths /\ len[k] \in Nat /\ names[k] \in Name
    BY <1>1
  <2>3. \A b \in 1..len[k] : <<k, b>> \in Nat \X Nat
    BY <2>2
  <2>4. [b \in 1..len[k] |-> <<k, b>>] \in Seq(Nat \X Nat)
        /\ Len([b \in 1..len[k] |-> <<k, b>>]) = len[k]
    BY <2>2, <2>3
  <2> QED BY <2>1, <2>2, <2>4
<1>4. nodes = <<>> /\ DOMAIN dirent.name = 0..NameLen
  BY DEF Init, Str
<1> QED BY <1>2, <1>3, <1>4 DEF Built, FilesOK

LEMMA BuildNodes == ASSUME Built, initialise_initrd PROVE Built'
<1> USE Constants
<1> DEFINE N == {initrd_root, initrd_dev} \cup 0..(nfiles - 1)
<1>1. nfiles \in 0..MaxFiles /\ nfiles \in Nat /\ \A k \in 1..nfiles : files[k].name \in Name
  BY DEF Built, FilesOK
<1>2. files' = files /\ garbage' = garbage /\ dirent' = dirent
  BY DEF initialise_initrd
<1>3. nfiles' = nfiles
  BY <1>2 DEF nfiles
<1>4. FilesOK' /\ DOMAIN dirent'.name = 0..NameLen
  BY <1>2, <1>3 DEF Built, FilesOK
<1>5. DOMAIN mkinit.headers = 1..nfiles
      /\ \A k \in 1..nfiles : mkinit.headers[k].name = Str(files[k].name)
  BY <1>1, Headers
<1>6. mkinit.headers \in Seq({mkinit.headers[k] : k \in 1..nfiles}) /\ Len(mkinit.headers) = nfiles
  BY <1>1, HeaderSeq
<1>7. nroot_nodes' = nfiles
  <2>1. file_headers' = [k \in 1..nfiles |->
                           [mkinit.headers[k] EXCEPT !.offset = @ + Location]]
    BY <1>5 DEF initialise_initrd
  <2> QED BY <1>1, <2>1 DEF nroot_nodes
<1>8. nodes' = [n \in N |-> CASE n = initrd_root -> Directory(INITRD)
                              [] n = initrd_dev  -> Directory(DEV)
                              [] OTHER           -> File(n)]
  BY <1>6 DEF initialise_initrd
<1>9. nodes'[initrd_root] = Directory(INITRD) /\ nodes'[initrd_dev] = Directory(DEV)
  BY <1>8 DEF initrd_root, initrd_dev
<1>10. \A n \in 0..(nfiles - 1) : nodes'[n] = File(n)
  BY <1>1, <1>8 DEF initrd_root, initrd_dev
<1>11. \A n \in {initrd_root, initrd_dev} :
            /\ nodes'[n].flags = "directory" /\ nodes'[n].readdir /\ nodes'[n].finddir
            /\ nodes'[n].read = FALSE
  BY <1>9 DEF Directory
<1>12. ASSUME NEW n \in 0..(nfiles - 1)
       PROVE  /\ nodes'[n].flags = "file" /\ nodes'[n].inode = n /\ nodes'[n].read = TRUE
              /\ garbage' = 0 => Says(nodes'[n].name, files'[n + 1].name)
  <2>1. n + 1 \in 1..nfiles
    BY <1>1
  <2>2. /\ nodes'[n].flags = "file" /\ nodes'[n].inode = n /\ nodes'[n].read = TRUE
        /\ nodes'[n].name = NodeName(Str(files[n + 1].name))
    <3>1. mkinit.headers[n + 1].name = Str(files[n + 1].name)
      BY <1>5, <2>1
    <3>2. nodes'[n] = File(n)
      BY <1>10
    <3>3. /\ File(n).flags = "file" /\ File(n).inode = n /\ File(n).read = TRUE
          /\ File(n).name = NodeName(mkinit.headers[n + 1].name)
      BY DEF File
    <3> QED BY <3>1, <3>2, <3>3
  <2> QED BY <1>1, <1>2, <2>1, <2>2, NodeNameSays
<1>13. NodesOK'
  <2>1. DOMAIN nodes' = {initrd_root, initrd_dev} \cup 0..(nfiles' - 1)
    BY <1>3, <1>8
  <2>2. nroot_nodes' = nfiles'
    BY <1>3, <1>7
  <2>3. \A n \in 0..(nfiles' - 1) :
          /\ nodes'[n].flags = "file" /\ nodes'[n].inode = n /\ nodes'[n].read = TRUE
          /\ garbage' = 0 => Says(nodes'[n].name, files'[n + 1].name)
    BY <1>3, <1>12
  <2> QED BY <2>1, <2>2, <2>3, <1>11 DEF NodesOK, Says
<1> QED BY <1>4, <1>13 DEF Built

(* A call of the file system changes dirent at most.                       *)
Call ==
    \E n \in DOMAIN nodes :
        \/ \E offset, size \in Sizes : read_fs(n, offset, size)
        \/ write_fs(n)
        \/ \E index \in 0..(nroot_nodes + 1) : readdir_fs(n, index)
        \/ \E name \in Name : finddir_fs(n, name)

LEMMA CallKeeps ==
    ASSUME DOMAIN dirent.name = 0..NameLen, Call
    PROVE  /\ UNCHANGED <<files, garbage, file_headers, nodes>>
           /\ DOMAIN dirent'.name = 0..NameLen
<1>1. UNCHANGED <<files, garbage, file_headers, nodes>>
  BY DEF Call, read_fs, write_fs, readdir_fs, finddir_fs
<1>2. dirent' = dirent \/ \E n, index : initrd_readdir(n, index)
  BY DEF Call, read_fs, write_fs, readdir_fs, finddir_fs
<1>3. ASSUME NEW n, NEW index, initrd_readdir(n, index)
      PROVE  DOMAIN dirent'.name = 0..NameLen
  <2>1. \/ dirent' = dirent
        \/ \E src, k, ino : dirent' = [name |-> [strcpy(dirent.name, src) EXCEPT ![k] = 0],
                                       ino  |-> ino]
    BY <1>3 DEF initrd_readdir
  <2>2. \A src : DOMAIN strcpy(dirent.name, src) = 0..NameLen
    BY DEF strcpy
  <2> QED BY <2>1, <2>2
<1> QED BY <1>1, <1>2, <1>3

LEMMA SameBuilt ==
    ASSUME Built, UNCHANGED <<files, garbage, file_headers, nodes>>,
           DOMAIN dirent'.name = 0..NameLen
    PROVE  Built'
<1>1. nfiles' = nfiles /\ nroot_nodes' = nroot_nodes
  BY DEF nfiles, nroot_nodes
<1>2. FilesOK'
  BY <1>1 DEF Built, FilesOK
<1>3. nodes' # <<>> => NodesOK'
  BY <1>1 DEF Built, NodesOK, Says
<1> QED BY <1>2, <1>3 DEF Built

LEMMA StepBuilt == Built /\ [Next]_vars => Built'
<1> SUFFICES ASSUME Built, [Next]_vars PROVE Built'
  OBVIOUS
<1>1. CASE initialise_initrd
  BY <1>1, BuildNodes
<1>2. CASE Call
  <2>1. DOMAIN dirent.name = 0..NameLen
    BY DEF Built
  <2> QED BY <1>2, <2>1, CallKeeps, SameBuilt
<1>3. CASE UNCHANGED vars
  <2>1. UNCHANGED <<files, garbage, file_headers, nodes>> /\ DOMAIN dirent'.name = 0..NameLen
    BY <1>3 DEF vars, Built
  <2> QED BY <2>1, SameBuilt
<1> QED BY <1>1, <1>2, <1>3 DEF Next, Call

-----------------------------------------------------------------------------
(* finddir_fs and readdir_fs.                                              *)

LEMMA DevName == DEV \in Name /\ Len(DEV) = 2
<1> USE Constants
<1>1. PICK a \in Char, b \in Char : a # b
  BY InitrdAssumption
<1>2. PICK n \in [1..2 -> Char] : n[1] # n[2]
  <2>1. [k \in 1..2 |-> IF k = 1 THEN a ELSE b] \in [1..2 -> Char]
    OBVIOUS
  <2>2. [k \in 1..2 |-> IF k = 1 THEN a ELSE b][1] # [k \in 1..2 |-> IF k = 1 THEN a ELSE b][2]
    BY <1>1
  <2> QED BY <2>1, <2>2
<1>3. DEV \in [1..2 -> Char]
  BY <1>2 DEF DEV
<1>4. 2 \in 1..MaxName
  OBVIOUS
<1> QED BY <1>3, <1>4 DEF Name

LEMMA FindFile ==
    ASSUME FilesOK, NodesOK, garbage = 0, NEW name \in Name
    PROVE  initrd_finddir(initrd_root, Str(name)) =
              IF name = DEV THEN {initrd_dev} ELSE FirstFile(name)
<1> USE Constants
<1> DEFINE E == {m \in 0..(nroot_nodes - 1) : strcmp(Str(name), nodes[m].name) = 0}
<1>1. strcmp(Str(name), Str(DEV)) = 0 <=> name = DEV
  BY StrSays, DevName, Compare
<1>2. nfiles \in Nat /\ nroot_nodes = nfiles
  BY DEF FilesOK, NodesOK
<1>3. ASSUME NEW m \in 0..(nfiles - 1)
      PROVE  m + 1 \in 1..nfiles /\ (m \in E <=> files[m + 1].name = name)
  <2>1. m + 1 \in 1..nfiles
    BY <1>2
  <2>2. files[m + 1].name \in Name
    BY <2>1 DEF FilesOK
  <2>3. Says(nodes[m].name, files[m + 1].name)
    BY DEF NodesOK
  <2>4. strcmp(Str(name), nodes[m].name) = 0 <=> name = files[m + 1].name
    BY <2>2, <2>3, StrSays, Compare
  <2> QED BY <1>2, <2>1, <2>4
<1>4. E \subseteq 0..(nfiles - 1) /\ E \subseteq Nat
  BY <1>2
<1>5. initrd_finddir(initrd_root, Str(name)) =
         IF name = DEV THEN {initrd_dev} ELSE IF E = {} THEN {} ELSE {Min(E)}
  BY <1>1 DEF initrd_finddir
<1> HIDE DEF E
<1>6. ASSUME NEW m \in 0..(nfiles - 1)
      PROVE  m \in FirstFile(name) <=> m \in E /\ \A y \in E : m <= y
  <2>1. m \in FirstFile(name) <=>
           files[m + 1].name = name /\ \A l \in 1..m : files[l].name # name
    BY DEF FirstFile
  <2>2. ASSUME \A l \in 1..m : files[l].name # name, NEW y \in E
        PROVE  m <= y
    <3>1. SUFFICES ASSUME y < m PROVE FALSE
      BY <1>2, <1>4
    <3>2. y \in 0..(nfiles - 1) /\ y + 1 \in 1..m
      BY <1>2, <1>4, <3>1
    <3>3. files[y + 1].name = name
      BY <1>3, <3>2
    <3> QED BY <2>2, <3>2, <3>3
  <2>3. ASSUME \A y \in E : m <= y, NEW l \in 1..m
        PROVE  files[l].name # name
    <3>1. l - 1 \in 0..(nfiles - 1) /\ l - 1 < m /\ (l - 1) + 1 = l
      BY <1>2
    <3>2. l - 1 \notin E
      BY <2>3, <3>1
    <3>3. l - 1 \in E <=> files[(l - 1) + 1].name = name
      BY <1>3, <3>1
    <3> QED BY <3>1, <3>2, <3>3
  <2> QED BY <1>3, <2>1, <2>2, <2>3
<1>7. FirstFile(name) \subseteq 0..(nfiles - 1)
  BY DEF FirstFile
<1>8. FirstFile(name) = IF E = {} THEN {} ELSE {Min(E)}
  <2>1. CASE E = {}
    BY <1>6, <1>7, <2>1
  <2>2. CASE E # {}
    <3>1. Min(E) \in E /\ \A y \in E : Min(E) <= y
      BY <1>4, <2>2, MinNat
    <3>2. Min(E) \in FirstFile(name)
      BY <1>4, <1>6, <3>1
    <3>3. ASSUME NEW m \in FirstFile(name) PROVE m = Min(E)
      <4>1. m \in E /\ (\A y \in E : m <= y) /\ m \in Nat
        BY <1>4, <1>6, <1>7
      <4> QED BY <1>4, <4>1, MinIs
    <3> QED BY <2>2, <3>2, <3>3
  <2> QED BY <2>1, <2>2
<1> QED BY <1>5, <1>8

LEMMA FilesFixed ==
    ASSUME files' = files
    PROVE  /\ nfiles' = nfiles
           /\ \A name : FirstFile(name)' = FirstFile(name)
BY DEF nfiles, FirstFile

LEMMA FindStep ==
    ASSUME Built, NEW n \in DOMAIN nodes, NEW name \in Name, finddir_fs(n, name)
    PROVE  FindsFile'
<1> USE Constants
<1>1. NodesOK /\ FilesOK
  BY DEF Built
<1>2. /\ files' = files /\ garbage' = garbage
      /\ answer' = [call |-> "finddir", node |-> n, name |-> name,
                    found |-> IF nodes[n].flags = "directory" /\ nodes[n].finddir
                              THEN initrd_finddir(n, Str(name)) ELSE {}]
  BY DEF finddir_fs
<1>3. answer'.node = n /\ answer'.name = name
  BY <1>2
<1>4. SUFFICES ASSUME n # initrd_dev, garbage = 0
               PROVE  answer'.found = IF isFile(n) THEN {}
                                      ELSE IF name = DEV THEN {initrd_dev}
                                      ELSE FirstFile(name)
  BY <1>2, <1>3, FilesFixed DEF FindsFile, isFile
<1>5. CASE n = initrd_root
  <2>1. answer'.found = initrd_finddir(initrd_root, Str(name))
    BY <1>1, <1>2, <1>5 DEF NodesOK
  <2>2. ~isFile(n)
    BY <1>5 DEF isFile, initrd_root
  <2> QED BY <1>1, <1>4, <2>1, <2>2, FindFile
<1>6. CASE n # initrd_root
  <2>1. n \in 0..(nfiles - 1)
    BY <1>1, <1>4, <1>6 DEF NodesOK
  <2>2. isFile(n) /\ nodes[n].flags = "file"
    BY <1>1, <2>1 DEF NodesOK, isFile
  <2> QED BY <1>2, <2>2
<1> QED BY <1>5, <1>6

(* The entries of a directory, with the names their buffers say.           *)
Entries(S) == {[name |-> Text(e.name), ino |-> e.ino] : e \in S}

LEMMA OneEntry ==
    ASSUME NEW n \in Name, NEW s, Says(s, n), NEW ino, NEW e, e = [name |-> s, ino |-> ino]
    PROVE  Entries({e}) = {[name |-> n, ino |-> ino]}
BY SaysText DEF Entries

LEMMA Wrapped ==
    ASSUME nfiles \in 0..MaxFiles, NEW index \in 0..(nfiles + 1)
    PROVE  /\ index > 0 => (index - 1) % U32 = index - 1
           /\ index = 0 => (index - 1) % U32 = U32 - 1
<1> USE Constants
<1>1. index \in Nat /\ nfiles \in Nat
  OBVIOUS
<1>2. ASSUME index > 0 PROVE (index - 1) % U32 = index - 1
  <2>1. index - 1 \in 0..(U32 - 1)
    BY <1>1, <1>2
  <2> QED BY <2>1
<1>3. ASSUME index = 0 PROVE (index - 1) % U32 = U32 - 1
  <2>1. (0 - 1) % U32 = U32 - 1
    OBVIOUS
  <2> QED BY <1>3, <2>1
<1> QED BY <1>2, <1>3

LEMMA RootEntries ==
    ASSUME Built, nodes # <<>>, garbage = 0, NEW index \in 0..(nfiles + 1),
           readdir_fs(initrd_root, index)
    PROVE  Entries(answer'.entry) =
              IF index = 0 THEN {[name |-> DEV, ino |-> 0]}
              ELSE IF index > nfiles THEN {}
              ELSE {[name |-> files[index].name, ino |-> index - 1]}
<1> USE Constants
<1>1. NodesOK /\ FilesOK /\ DOMAIN dirent.name = 0..NameLen /\ nfiles \in Nat
      /\ nroot_nodes = nfiles
  BY DEF Built, NodesOK, FilesOK
<1>2. /\ initrd_readdir(initrd_root, index)
      /\ answer'.entry = IF HasEntry(initrd_root, index) THEN {dirent'} ELSE {}
  <2>1. nodes[initrd_root].flags = "directory" /\ nodes[initrd_root].readdir
    BY <1>1 DEF NodesOK
  <2>2. answer' = [call |-> "readdir", node |-> initrd_root, index |-> index,
                   entry |-> IF HasEntry(initrd_root, index) THEN {dirent'} ELSE {}]
    BY <2>1, Zenon DEF readdir_fs
  <2>3. initrd_readdir(initrd_root, index)
    BY <2>1, Zenon DEF readdir_fs
  <2> QED BY <2>2, <2>3
<1>3. CASE index = 0
  <2>1. dirent' = [name |-> [strcpy(dirent.name, Str(DEV)) EXCEPT ![Len(DEV)] = 0], ino |-> 0]
    BY <1>2, <1>3 DEF initrd_readdir
  <2>2. Says([strcpy(dirent.name, Str(DEV)) EXCEPT ![Len(DEV)] = 0], DEV)
    BY <1>1, DevName, StrSays, CopySays
  <2>3. answer'.entry = {dirent'}
    BY <1>2, <1>3 DEF HasEntry
  <2> QED BY <1>3, <2>1, <2>2, <2>3, DevName, OneEntry
<1>4. CASE index > nfiles
  <2>0. index \in Nat /\ index # 0 /\ index > 0
    BY <1>1, <1>4
  <2>1. index \in Nat /\ index # 0 /\ ~((index - 1) % U32 < nroot_nodes)
    <3>1. nfiles \in 0..MaxFiles
      BY <1>1 DEF FilesOK
    <3>2. (index - 1) % U32 = index - 1
      BY <2>0, <3>1, Wrapped
    <3> QED BY <1>1, <1>4, <2>0, <3>2
  <2>2. answer'.entry = {}
    BY <1>2, <2>1 DEF HasEntry
  <2> QED BY <1>4, <2>1, <2>2 DEF Entries
<1>5. CASE index # 0 /\ ~(index > nfiles)
  <2>1. index \in 1..nfiles /\ index - 1 \in 0..(nfiles - 1) /\ (index - 1) + 1 = index
    BY <1>1, <1>5
  <2>2. (index - 1) % U32 = index - 1
    BY <1>1, <2>1, Wrapped DEF FilesOK
  <2>3. (index - 1) % U32 < nroot_nodes /\ ~((index - 1) % U32 >= nroot_nodes)
    BY <1>1, <2>1, <2>2
  <2> DEFINE name == files[index].name
             s    == nodes[index - 1].name
  <2>4. name \in Name
    BY <1>1, <2>1 DEF FilesOK
  <2>5. Says(s, name) /\ nodes[index - 1].inode = index - 1
    <3>1. \A m \in 0..(nfiles - 1) : Says(nodes[m].name, files[m + 1].name) /\ nodes[m].inode = m
      BY <1>1 DEF NodesOK
    <3>2. /\ Says(nodes[index - 1].name, files[(index - 1) + 1].name)
          /\ nodes[index - 1].inode = index - 1
      BY <2>1, <3>1
    <3> QED BY <2>1, <3>2
  <2>6. dirent' = [name |-> [strcpy(dirent.name, s) EXCEPT ![strlen(s)] = 0],
                   ino  |-> nodes[index - 1].inode]
    BY <1>2, <1>5, <2>3 DEF initrd_readdir
  <2>7. answer'.entry = {dirent'}
    BY <1>2, <2>3 DEF HasEntry
  <2> HIDE DEF name, s
  <2>8. strlen(s) = Len(name)
    BY <2>4, <2>5, SaysLength
  <2>9. Says([strcpy(dirent.name, s) EXCEPT ![strlen(s)] = 0], name)
    BY <1>1, <2>4, <2>5, <2>8, CopySays
  <2>10. Entries({dirent'}) = {[name |-> name, ino |-> index - 1]}
    BY <2>4, <2>5, <2>6, <2>9, OneEntry
  <2> QED BY <1>5, <2>7, <2>10 DEF name
<1> QED BY <1>3, <1>4, <1>5

LEMMA ListStep ==
    ASSUME Built, NEW n \in DOMAIN nodes, NEW index \in 0..(nroot_nodes + 1),
           readdir_fs(n, index)
    PROVE  ListsDirectory'
<1> USE Constants
<1>1. nodes # <<>> /\ NodesOK /\ FilesOK /\ nroot_nodes = nfiles /\ nfiles \in Nat
  BY DEF Built, NodesOK, FilesOK
<1>2. files' = files /\ garbage' = garbage /\ nfiles' = nfiles
  BY DEF readdir_fs, nfiles
<1>3. answer'.call = "readdir" /\ answer'.node = n /\ answer'.index = index
  BY DEF readdir_fs
<1>4. ASSUME n = initrd_root, garbage = 0
      PROVE  Entries(answer'.entry) =
                IF index = 0 THEN {[name |-> DEV, ino |-> 0]}
                ELSE IF index > nfiles THEN {}
                ELSE {[name |-> files[index].name, ino |-> index - 1]}
  BY <1>1, <1>4, RootEntries
<1>5. ASSUME n = initrd_dev, index = 0 PROVE answer'.entry = {}
  <2>1. answer'.entry = IF HasEntry(initrd_dev, index) THEN {dirent'} ELSE {}
    <3>1. nodes[initrd_dev].flags = "directory" /\ nodes[initrd_dev].readdir
      BY <1>1 DEF NodesOK
    <3>2. answer' = [call |-> "readdir", node |-> initrd_dev, index |-> index,
                     entry |-> IF HasEntry(initrd_dev, index) THEN {dirent'} ELSE {}]
      BY <1>5, <3>1, Zenon DEF readdir_fs
    <3> QED BY <3>2
  <2>2. (index - 1) % U32 = U32 - 1
    BY <1>1, <1>5, Wrapped DEF FilesOK
  <2>3. ~((index - 1) % U32 < nroot_nodes)
    BY <1>1, <2>2 DEF FilesOK
  <2> QED BY <2>1, <2>3 DEF HasEntry, initrd_root, initrd_dev
<1>6. ASSUME isFile(n) PROVE answer'.entry = {}
  <2>1. n \in 0..(nfiles - 1)
    BY <1>1, <1>6 DEF NodesOK, isFile, initrd_root, initrd_dev
  <2>2. nodes[n].flags = "file"
    BY <1>1, <2>1 DEF NodesOK
  <2> QED BY <2>2 DEF readdir_fs
<1>7. SUFFICES ASSUME garbage = 0 PROVE ListsDirectory'
  BY <1>2 DEF ListsDirectory
<1>8. answer'.node = initrd_root =>
         Entries(answer'.entry) =
                IF answer'.index = 0 THEN {[name |-> DEV, ino |-> 0]}
                ELSE IF answer'.index > nfiles' THEN {}
                ELSE {[name |-> files'[answer'.index].name, ino |-> answer'.index - 1]}
  BY <1>2, <1>3, <1>4, <1>7
<1> QED BY <1>3, <1>5, <1>6, <1>8 DEF ListsDirectory, Entries, Text, strlen, isFile

-----------------------------------------------------------------------------
(* read_fs.                                                                *)

(* The headers in memory point at the data of their files.                 *)
Relocated ==
    nodes # <<>> =>
        \A k \in 1..nfiles : /\ file_headers[k].offset = off[k] + Location
                             /\ file_headers[k].length = Len(files[k].data)

LEMMA StepRelocated ==
    ASSUME Built, Relocated, [Next]_vars
    PROVE  Relocated'
<1>1. files' = files
  BY DEF Next, vars, initialise_initrd, read_fs, write_fs, readdir_fs, finddir_fs
<1>2. nfiles' = nfiles /\ off' = off
  BY <1>1 DEF nfiles, off
<1>3. CASE initialise_initrd
  <2>1. nfiles \in 0..MaxFiles
    BY DEF Built, FilesOK
  <2>2. /\ DOMAIN mkinit.headers = 1..nfiles
        /\ \A k \in 1..nfiles : /\ mkinit.headers[k].length = Len(files[k].data)
                                /\ mkinit.headers[k].offset = off[k]
    BY <2>1, Headers
  <2>3. file_headers' = [k \in 1..nfiles |-> [mkinit.headers[k] EXCEPT !.offset = @ + Location]]
    BY <1>3, <2>2 DEF initialise_initrd
  <2>4. \A k \in 1..nfiles : "offset" \in DOMAIN mkinit.headers[k]
    <3>1. (SChar(2 * nfiles + Spare + 1) - 1) \div 2 = nfiles
      BY <2>1, HeaderCount
    <3> QED BY <3>1 DEF mkinit
  <2>5. \A k \in 1..nfiles : /\ file_headers'[k].offset = off[k] + Location
                             /\ file_headers'[k].length = Len(files[k].data)
    <3> SUFFICES ASSUME NEW k \in 1..nfiles
                 PROVE  /\ file_headers'[k].offset = off[k] + Location
                        /\ file_headers'[k].length = Len(files[k].data)
      OBVIOUS
    <3>1. PICK h : h = mkinit.headers[k]
      OBVIOUS
    <3>2. h.offset = off[k] /\ h.length = Len(files[k].data) /\ "offset" \in DOMAIN h
      BY <2>2, <2>4, <3>1
    <3>3. file_headers'[k] = [h EXCEPT !.offset = h.offset + Location]
      BY <2>3, <3>1
    <3> QED BY <3>2, <3>3
  <2> QED BY <1>1, <1>2, <2>5 DEF Relocated
<1>4. CASE UNCHANGED <<nodes, file_headers>>
  BY <1>1, <1>2, <1>4 DEF Relocated
<1> QED BY <1>3, <1>4 DEF Next, vars, read_fs, write_fs, readdir_fs, finddir_fs

(* memory holds the data of file k from its relocated offset on.           *)
LEMMA DataInMemory ==
    ASSUME FilesOK, NEW k \in 1..nfiles, NEW b \in 1..Len(files[k].data)
    PROVE  /\ off[k] + Location + b - 1 \in DOMAIN memory
           /\ memory[off[k] + Location + b - 1] = files[k].data[b]
<1> USE Constants
<1> DEFINE w == written[nfiles]
           a == off[k] + Location + b - 1
<1>1. nfiles \in 0..MaxFiles /\ nfiles \in Nat
  BY DEF FilesOK
<1>2. mkinit.data = w
  BY <1>1, Headers
<1>3. w \in Seq(Nat \X Nat) /\ Len(w) \in Nat /\ Placed(nfiles, k)
  BY Layout DEF Laid
<1>4. Len(files[k].data) \in Nat /\ b \in Nat /\ 1 <= b /\ b <= Len(files[k].data)
  BY <1>1 DEF FilesOK
<1>5. /\ off[k] \in Nat /\ HeaderSize <= off[k]
      /\ off[k] - HeaderSize + Len(files[k].data) <= Len(w)
      /\ w[off[k] - HeaderSize + b] = files[k].data[b]
  BY <1>3 DEF Placed
<1>6. memory = [x \in (Location + HeaderSize)..(Location + HeaderSize + Len(w) - 1) |->
                   w[x - Location - HeaderSize + 1]]
  BY <1>2 DEF memory
<1> HIDE DEF w
<1>7. /\ a \in (Location + HeaderSize)..(Location + HeaderSize + Len(w) - 1)
      /\ a - Location - HeaderSize + 1 = off[k] - HeaderSize + b
  <2>1. PICK x \in Nat : x = off[k]
    BY <1>5
  <2>2. PICK y \in Nat : y = Len(files[k].data)
    BY <1>4
  <2>3. PICK z \in Nat : z = Len(w)
    BY <1>3
  <2>4. HeaderSize <= x /\ x - HeaderSize + y <= z /\ b \in Nat /\ 1 <= b /\ b <= y
        /\ a = x + Location + b - 1
    BY <1>4, <1>5, <2>1, <2>2, <2>3
  <2> HIDE DEF a
  <2>5. Location + HeaderSize <= a /\ a <= Location + HeaderSize + z - 1 /\ a \in Int
    BY <2>4
  <2>6. a - Location - HeaderSize + 1 = x - HeaderSize + b
    BY <2>4
  <2> QED BY <2>1, <2>3, <2>5, <2>6
<1> HIDE DEF a
<1>8. a \in DOMAIN memory /\ memory[a] = w[off[k] - HeaderSize + b]
  BY <1>6, <1>7
<1> QED BY <1>5, <1>8 DEF a

(* What initrd_read returns of a file, if the sum does not wrap.           *)
LEMMA ReadFile ==
    ASSUME FilesOK, NodesOK, Relocated, nodes # <<>>, NEW n \in 0..(nfiles - 1),
           NEW offset \in Nat, NEW size \in Nat, offset + size < U32
    PROVE  initrd_read(nodes[n], offset, size) =
              SubSeq(files[n + 1].data, offset + 1,
                     Min({offset + size, Len(files[n + 1].data)}))
<1> USE Constants
<1> DEFINE data == files[n + 1].data
           l    == Len(data)
           o    == off[n + 1] + Location
           m    == IF offset + size > l THEN l - offset ELSE size
           last == Min({offset + size, l})
<1>1. n + 1 \in 1..nfiles /\ nodes[n].inode = n /\ nfiles \in Nat /\ n \in Nat
  BY DEF FilesOK, NodesOK
<1>2. data \in Seq(Nat \X Nat) /\ l \in Nat
  BY <1>1 DEF FilesOK
<1>3. file_headers[n + 1].offset = o /\ file_headers[n + 1].length = l
  BY <1>1 DEF Relocated
<1>4. (offset + size) % U32 = offset + size
  OBVIOUS
<1>5. initrd_read(nodes[n], offset, size) =
         IF offset > l THEN <<>>
         ELSE IF \E k \in 0..(m - 1) : o + offset + k \notin DOMAIN memory
         THEN <<Outside>>
         ELSE memcpy(memory, o + offset, m)
  BY <1>1, <1>3, <1>4 DEF initrd_read
<1>6. \A b \in 1..l : o + b - 1 \in DOMAIN memory /\ memory[o + b - 1] = data[b]
  BY <1>1, DataInMemory
<1>7. off[n + 1] \in Nat
  <2>1. Laid(nfiles)
    BY Layout
  <2> QED BY <1>1, <2>1 DEF Laid, Placed
<1>8. o \in Nat
  BY <1>7
<1> HIDE DEF o, data, l
<1>9. last \in Nat /\ last = IF offset + size > l THEN l ELSE offset + size
  <2>1. CASE offset + size > l
    <3>1. {offset + size, l} \subseteq Nat /\ l \in {offset + size, l}
          /\ \A y \in {offset + size, l} : l <= y
      BY <1>2, <2>1
    <3> QED BY <1>2, <2>1, <3>1, MinIs
  <2>2. CASE ~(offset + size > l)
    <3>1. {offset + size, l} \subseteq Nat /\ offset + size \in {offset + size, l}
          /\ \A y \in {offset + size, l} : offset + size <= y
      BY <1>2, <2>2
    <3> QED BY <1>2, <2>2, <3>1, MinIs
  <2> QED BY <2>1, <2>2
<1> HIDE DEF last
<1>10. SubSeq(data, offset + 1, last) = [i \in 1..(last - offset) |-> data[i + offset]]
  <2>1. last <= l
    BY <1>2, <1>9
  <2>2. SubSeq(data, offset + 1, last) =
          [i \in 1..(1 + last - (offset + 1)) |-> data[i + (offset + 1) - 1]]
    BY <1>2, <1>9, <2>1
  <2>3. 1 + last - (offset + 1) = last - offset
        /\ \A i \in Nat : i + (offset + 1) - 1 = i + offset
    BY <1>9
  <2> QED BY <2>2, <2>3
<1>11. CASE offset > l
  <2>1. 1..(last - offset) = {}
    BY <1>2, <1>9, <1>11
  <2>2. [i \in 1..(last - offset) |-> data[i + offset]] = <<>>
    BY <2>1
  <2> QED BY <1>5, <1>10, <1>11, <2>2 DEF last, data, l
<1>12. CASE ~(offset > l)
  <2>1. m = last - offset /\ m \in Nat /\ offset + m <= l
    BY <1>2, <1>9, <1>12
  <2> HIDE DEF m
  <2>2. ASSUME NEW k \in 0..(m - 1)
        PROVE  /\ o + offset + k \in DOMAIN memory
               /\ memory[o + offset + k] = data[offset + k + 1]
    <3>1. offset + k + 1 \in 1..l /\ o + (offset + k + 1) - 1 = o + offset + k
      BY <1>2, <1>8, <2>1
    <3> QED BY <1>6, <3>1
  <2>3. initrd_read(nodes[n], offset, size) = memcpy(memory, o + offset, m)
    BY <1>5, <1>12, <2>2
  <2>4. ASSUME NEW i \in 1..m
        PROVE  memory[o + offset + i - 1] = data[i + offset]
    <3>1. i - 1 \in 0..(m - 1) /\ o + offset + (i - 1) = o + offset + i - 1
          /\ offset + (i - 1) + 1 = i + offset
      BY <1>8, <2>1
    <3>2. memory[o + offset + (i - 1)] = data[offset + (i - 1) + 1]
      BY <2>2, <3>1
    <3> QED BY <3>1, <3>2
  <2>5. memcpy(memory, o + offset, m) = [i \in 1..m |-> data[i + offset]]
    BY <2>4 DEF memcpy
  <2> QED BY <1>10, <2>1, <2>3, <2>5 DEF last, data, l
<1> QED BY <1>11, <1>12

LEMMA ReadStep ==
    ASSUME Built, Relocated, NEW n \in DOMAIN nodes, NEW offset \in Sizes, NEW size \in Sizes,
           read_fs(n, offset, size)
    PROVE  ReadIsSlice'
<1> USE Constants
<1>1. NodesOK /\ FilesOK /\ nodes # <<>>
  BY DEF Built
<1>2. files' = files /\ offset \in Nat /\ size \in Nat
  BY InitrdAssumption DEF read_fs
<1>3. answer' = [call |-> "read", node |-> n, offset |-> offset, size |-> size,
                 bytes |-> IF nodes[n].read THEN initrd_read(nodes[n], offset, size) ELSE <<>>]
  BY DEF read_fs
<1>4. /\ answer'.node = n /\ answer'.offset = offset /\ answer'.size = size
      /\ answer'.bytes = IF nodes[n].read THEN initrd_read(nodes[n], offset, size) ELSE <<>>
  BY <1>3
<1>5. SUFFICES ASSUME offset + size < U32
               PROVE  answer'.bytes =
                         IF isFile(n)
                         THEN SubSeq(files[n + 1].data, offset + 1,
                                     Min({offset + size, Len(files[n + 1].data)}))
                         ELSE <<>>
  BY <1>2, <1>4 DEF ReadIsSlice, isFile
<1>6. CASE n \in {initrd_root, initrd_dev}
  <2>1. ~isFile(n) /\ nodes[n].read = FALSE
    BY <1>1, <1>6 DEF isFile, initrd_root, initrd_dev, NodesOK
  <2> QED BY <1>4, <2>1
<1>7. CASE n \in 0..(nfiles - 1)
  <2>1. isFile(n) /\ nodes[n].read = TRUE
    BY <1>1, <1>7 DEF isFile, NodesOK
  <2>2. initrd_read(nodes[n], offset, size) =
           SubSeq(files[n + 1].data, offset + 1, Min({offset + size, Len(files[n + 1].data)}))
    BY <1>1, <1>2, <1>5, <1>7, ReadFile
  <2> QED BY <1>4, <2>1, <2>2
<1> QED BY <1>1, <1>6, <1>7 DEF NodesOK

-----------------------------------------------------------------------------
(* No other step touches the answer to a call.                             *)

LEMMA OtherSteps ==
    ASSUME Built, [Next]_vars
    PROVE  \/ UNCHANGED <<files, garbage, answer>>
           \/ UNCHANGED <<files, garbage>> /\ answer'.call \in {"read", "write"}
           \/ \E n \in DOMAIN nodes, index \in 0..(nroot_nodes + 1) : readdir_fs(n, index)
           \/ \E n \in DOMAIN nodes, name \in Name : finddir_fs(n, name)
BY DEF Next, vars, initialise_initrd, read_fs, write_fs

(* finddir_fs on the root returns the first file of that name, "dev" for   *)
(* /dev and nothing when no file has the name, through strcmp on the names *)
(* that strcpy left unterminated in clean memory.                          *)
THEOREM FindIsExact == Spec => []FindsFile
<1>1. Init => Built /\ FindsFile
  <2> SUFFICES ASSUME Init PROVE Built /\ FindsFile
    OBVIOUS
  <2>1. answer.call = "none"
    BY DEF Init
  <2> QED BY <2>1, InitBuilt DEF FindsFile
<1>2. Built /\ FindsFile /\ [Next]_vars => FindsFile'
  <2> SUFFICES ASSUME Built, FindsFile, [Next]_vars PROVE FindsFile'
    OBVIOUS
  <2>1. CASE UNCHANGED <<files, garbage, answer>>
    BY <2>1, FilesFixed DEF FindsFile, isFile
  <2>2. CASE answer'.call \in {"read", "write"}
    BY <2>2 DEF FindsFile
  <2>3. ASSUME NEW n \in DOMAIN nodes, NEW index, readdir_fs(n, index) PROVE FindsFile'
    <3>1. answer'.call = "readdir"
      BY <2>3 DEF readdir_fs
    <3> QED BY <3>1 DEF FindsFile
  <2>4. ASSUME NEW n \in DOMAIN nodes, NEW name \in Name, finddir_fs(n, name)
        PROVE  FindsFile'
    BY <2>4, FindStep
  <2> QED BY <2>1, <2>2, <2>3, <2>4, OtherSteps
<1> QED BY <1>1, <1>2, StepBuilt, PTL DEF Spec

(* readdir_fs along the root lists /dev and then every file once, in       *)
(* order and under its own name, although all entries share one dirent and *)
(* the index is unsigned.                                                  *)
THEOREM WalkIsExact == Spec => []ListsDirectory
<1>1. Init => Built /\ ListsDirectory
  <2> SUFFICES ASSUME Init PROVE Built /\ ListsDirectory
    OBVIOUS
  <2>1. answer.call = "none"
    BY DEF Init
  <2> QED BY <2>1, InitBuilt DEF ListsDirectory
<1>2. Built /\ ListsDirectory /\ [Next]_vars => ListsDirectory'
  <2> SUFFICES ASSUME Built, ListsDirectory, [Next]_vars PROVE ListsDirectory'
    OBVIOUS
  <2>1. CASE UNCHANGED <<files, garbage, answer>>
    BY <2>1 DEF ListsDirectory, isFile, nfiles, Text, strlen
  <2>2. CASE answer'.call \in {"read", "write"}
    BY <2>2 DEF ListsDirectory
  <2>3. ASSUME NEW n \in DOMAIN nodes, NEW index \in 0..(nroot_nodes + 1), readdir_fs(n, index)
        PROVE  ListsDirectory'
    BY <2>3, ListStep
  <2>4. ASSUME NEW n \in DOMAIN nodes, NEW name \in Name, finddir_fs(n, name)
        PROVE  ListsDirectory'
    <3>1. answer'.call = "finddir"
      BY <2>4 DEF finddir_fs
    <3> QED BY <3>1 DEF ListsDirectory
  <2> QED BY <2>1, <2>2, <2>3, <2>4, OtherSteps
<1> QED BY <1>1, <1>2, StepBuilt, PTL DEF Spec

(* read_fs returns that part of the file that mkinit was given, cut at its *)
(* end, for any files: the offsets that mkinit counts, the place it writes *)
(* the data to, the relocation by initialise_initrd and the clipping by    *)
(* initrd_read fit together, as long as offset + size does not wrap.       *)
THEOREM ReadIsExact == Spec => []ReadIsSlice
<1>1. Init => Built /\ Relocated /\ ReadIsSlice
  <2> SUFFICES ASSUME Init PROVE Built /\ Relocated /\ ReadIsSlice
    OBVIOUS
  <2>1. answer.call = "none" /\ nodes = <<>>
    BY DEF Init
  <2> QED BY <2>1, InitBuilt DEF ReadIsSlice, Relocated
<1>2. Built /\ Relocated /\ [Next]_vars => Relocated'
  BY StepRelocated
<1>3. Built /\ Relocated /\ ReadIsSlice /\ [Next]_vars => ReadIsSlice'
  <2> SUFFICES ASSUME Built, Relocated, ReadIsSlice, [Next]_vars PROVE ReadIsSlice'
    OBVIOUS
  <2>1. CASE UNCHANGED <<files, answer>>
    BY <2>1 DEF ReadIsSlice, isFile
  <2>2. CASE answer'.call \in {"write", "readdir", "finddir"}
    BY <2>2 DEF ReadIsSlice
  <2>3. ASSUME NEW n \in DOMAIN nodes, NEW offset \in Sizes, NEW size \in Sizes,
               read_fs(n, offset, size)
        PROVE  ReadIsSlice'
    BY <2>3, ReadStep
  <2>4. \/ UNCHANGED <<files, answer>>
        \/ answer'.call \in {"write", "readdir", "finddir"}
        \/ \E n \in DOMAIN nodes, offset, size \in Sizes : read_fs(n, offset, size)
    BY DEF Next, vars, initialise_initrd, write_fs, readdir_fs, finddir_fs
  <2> QED BY <2>1, <2>2, <2>3, <2>4
<1> QED BY <1>1, <1>2, <1>3, StepBuilt, PTL DEF Spec
==============================================================================
