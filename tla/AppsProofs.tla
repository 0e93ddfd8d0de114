----------------------------- MODULE AppsProofs -----------------------------
(***************************************************************************)
(* What encrypt_app and decrypt_app pass to the system calls, for every    *)
(* number of processes and whatever is typed: inputs of every length with  *)
(* lines of every length.                                                  *)
(***************************************************************************)
EXTENDS Apps, SequenceTheorems, FiniteSetTheorems, TLAPS

(* A parameter that is set stands in the command after its option.         *)
ParsedInv(a) ==
  /\ archivo_entrada[a] = NULL \/ Follows(a, "-p", archivo_entrada[a])
  /\ archivo_salida[a] = NULL \/ Follows(a, "-o", archivo_salida[a])
  /\ archivo_clave[a] = NULL \/ Follows(a, "-k", archivo_clave[a])
  /\ \/ num_hilos[a] = 0
     \/ \E v \in Fields : Atoi(v) = num_hilos[a] /\ Follows(a, "-t", v)
  /\ at[a] = "syscall" => ~Missing(a)

(* The parser of encrypt_app, as long as it has found no error: it is at   *)
(* the place of an option, has seen only options at such places, and the   *)
(* number of threads is positive or has not been given.                    *)
StrictInv(a) ==
  /\ \/ error_parametros[a]
     \/ /\ i[a] % 2 = 1
        /\ \A j \in 1 .. i[a] - 1 : j % 2 = 1 => argumentos[a][j] \in Options
        /\ \/ num_hilos[a] > 0
           \/ /\ num_hilos[a] = 0
              /\ \A j \in 1 .. i[a] - 1 :
                   j % 2 = 1 => argumentos[a][j] # "-t"
  /\ at[a] = "syscall" =>
       ~error_parametros[a] /\ i[a] = Len(argumentos[a]) + 1

CommandInv ==
  /\ \A a \in Apps : ParsedInv(a)
  /\ \A a \in EncryptApps : StrictInv(a)

(* Once a line has been read, the buffer is cut after its first token, and *)
(* one token is not a command.                                             *)
EndInv(a) ==
  /\ input[a] # <<>> \/ at[a] = "ended" \/ Len(Tokens(comando[a])) <= 1
  /\ at[a] \in {"parse", "syscall"} /\ ~fresh[a] =>
       Len(argumentos[a]) <= 1
-----------------------------------------------------------------------------
(* Lines and tokens.                                                       *)

LEMMA FilledFinite ==
  ASSUME NEW line \in Seq(Fields)
  PROVE  /\ IsFiniteSet(Filled(line))
         /\ Cardinality(Filled(line)) \in Nat
         /\ Filled(line) \subseteq 1 .. Len(line)
<1>1. Len(line) \in Nat /\ DOMAIN line = 1 .. Len(line)
  BY LenProperties
<1>2. Filled(line) \subseteq 1 .. Len(line)
  BY <1>1 DEF Filled
<1>3. IsFiniteSet(1 .. Len(line))
  BY <1>1, FS_Interval
<1>4. IsFiniteSet(Filled(line))
  BY <1>2, <1>3, FS_Subset
<1> QED
  BY <1>2, <1>4, FS_CardinalityType

(* The fields that are not empty are numbered from one on.                 *)
LEMMA RankOnto ==
  ASSUME NEW line \in Seq(Fields), NEW k \in 1 .. Cardinality(Filled(line))
  PROVE  \E j \in Filled(line) : Rank(line, j) = k
<1> DEFINE NB == Filled(line)
           Upto(j) == {m \in NB : m <= j}
           n == Cardinality(NB)
           f == [j \in NB |-> Cardinality(Upto(j))]
<1>1. IsFiniteSet(NB) /\ n \in Nat /\ NB \subseteq Int
  BY FilledFinite, LenProperties
<1> HIDE DEF NB
<1>2. \A j \in NB : /\ IsFiniteSet(Upto(j))
                    /\ Cardinality(Upto(j)) \in Nat
                    /\ Cardinality(Upto(j)) <= n
                    /\ Cardinality(Upto(j)) # 0
  <2> TAKE j \in NB
  <2>1. Upto(j) \in SUBSET NB /\ j \in Upto(j)
    BY <1>1
  <2>2. IsFiniteSet(Upto(j)) /\ Cardinality(Upto(j)) <= n
    BY <1>1, <2>1, FS_Subset
  <2>3. Cardinality(Upto(j)) # 0
    BY <2>1, <2>2, FS_EmptySet
  <2> QED
    BY <2>2, <2>3, FS_CardinalityType
<1>3. f \in [NB -> 1 .. n]
  BY <1>1, <1>2
<1>4. ASSUME NEW x \in NB, NEW y \in NB, x < y PROVE f[x] # f[y]
  <2>0. x \in Int /\ y \in Int
    BY <1>1
  <2>1. Upto(x) \in SUBSET Upto(y)
    <3> SUFFICES ASSUME NEW m \in NB, m <= x PROVE m <= y
      OBVIOUS
    <3>1. m \in Int
      BY <1>1
    <3> QED
      BY <1>4, <2>0, <3>1
  <2>2. y \in Upto(y) /\ y \notin Upto(x)
    BY <1>4, <2>0
  <2>3. Cardinality(Upto(x)) # Cardinality(Upto(y))
    BY <1>2, <2>1, <2>2, FS_Subset
  <2> QED
    BY <2>3
<1>5. \A x, y \in NB : f[x] = f[y] => x = y
  BY <1>1, <1>4
<1> HIDE DEF f
<1>6. f \in Injection(NB, 1 .. n)
  BY <1>3, <1>5 DEF Injection, IsInjective
<1>7. IsFiniteSet(1 .. n) /\ Cardinality(1 .. n) = n
  BY <1>1, FS_Interval
<1>8. f \in Surjection(NB, 1 .. n)
  BY <1>6, <1>7, FS_Injection
<1>9. PICK j \in NB : f[j] = k
  BY <1>8 DEF Surjection, NB
<1> QED
  BY <1>9 DEF f, NB, Rank

LEMMA TokensSeq ==
  ASSUME NEW line \in Seq(Fields)
  PROVE  /\ Tokens(line) \in Seq(Words)
         /\ Len(Tokens(line)) = Cardinality(Filled(line))
<1> DEFINE n == Cardinality(Filled(line))
           P(k) == CHOOSE j \in Filled(line) : Rank(line, j) = k
<1>1. n \in Nat /\ Filled(line) \subseteq 1 .. Len(line)
  BY FilledFinite
<1>2. \A k \in 1 .. n : P(k) \in Filled(line)
  BY RankOnto
<1>3. \A j \in Filled(line) : line[j] \in Words
  BY <1>1, ElementOfSeq DEF Filled, Words
<1>4. \A k \in 1 .. n : line[P(k)] \in Words
  BY <1>2, <1>3
<1>5. Tokens(line) = [k \in 1 .. n |-> line[P(k)]]
  BY DEF Tokens
<1> HIDE DEF P, n
<1>6. Tokens(line) \in [1 .. n -> Words]
  BY <1>4, <1>5
<1>7. Tokens(line) \in Seq(Words)
  BY <1>1, <1>6, SeqDef
<1>8. Len(Tokens(line)) = n
  BY <1>1, <1>6, <1>7, LenProperties
<1> QED
  BY <1>7, <1>8 DEF n

LEMMA FirstTokensSeq ==
  ASSUME NEW line \in Seq(Fields)
  PROVE  /\ FirstTokens(line) \in Seq(Words)
         /\ Len(FirstTokens(line)) <= MaxArguments
         /\ Len(FirstTokens(line)) <= Len(Tokens(line))
<1> DEFINE t == Tokens(line)
           m == IF Len(t) > MaxArguments THEN MaxArguments ELSE Len(t)
<1>1. t \in Seq(Words) /\ Len(t) \in Nat
  BY TokensSeq, LenProperties
<1> HIDE DEF t
<1>2. m \in Nat /\ m <= Len(t) /\ m <= MaxArguments
  BY <1>1 DEF MaxArguments
<1>3. FirstTokens(line) = SubSeq(t, 1, m)
  BY DEF FirstTokens, t
<1> HIDE DEF m
<1>4. \A j \in 1 .. m : t[j] \in Words
  BY <1>1, <1>2, ElementOfSeq
<1>5. SubSeq(t, 1, m) \in Seq(Words) /\ Len(SubSeq(t, 1, m)) = m
  BY <1>2, <1>4, SubSeqProperties
<1> QED
  BY <1>2, <1>3, <1>5 DEF t

(* What strtok leaves of a line has at most one token.                     *)
LEMMA CutTokens ==
  ASSUME NEW line \in Seq(Fields)
  PROVE  Cut(line) \in Seq(Fields) /\ Len(Tokens(Cut(line))) <= 1
<1>1. CASE Tokens(line) = <<>>
  BY <1>1 DEF Cut
<1>2. CASE Tokens(line) # <<>>
  <2> DEFINE j == CHOOSE x \in Filled(line) : Rank(line, x) = 1
             Upto == {m \in Filled(line) : m <= j}
  <2>1. Cardinality(Filled(line)) # 0
    <3>1. Len(Tokens(line)) # 0
      BY <1>2, TokensSeq, EmptySeq
    <3> QED
      BY <3>1, TokensSeq
  <2>2. 1 \in 1 .. Cardinality(Filled(line))
    BY <2>1, FilledFinite
  <2>3. j \in Filled(line) /\ Cardinality(Upto) = 1
    <3>1. \E x \in Filled(line) : Rank(line, x) = 1
      BY <2>2, RankOnto
    <3> QED
      BY <3>1 DEF Rank
  <2>4. Cut(line) = SubSeq(line, 1, j)
    BY <1>2 DEF Cut
  <2> HIDE DEF j
  <2>5. j \in 1 .. Len(line) /\ Len(line) \in Nat
    BY <2>3, FilledFinite, LenProperties
  <2>6. \A m \in 1 .. j : line[m] \in Fields
    BY <2>5, ElementOfSeq
  <2>7. /\ SubSeq(line, 1, j) \in Seq(Fields)
        /\ Len(SubSeq(line, 1, j)) = j
        /\ \A m \in 1 .. j : SubSeq(line, 1, j)[m] = line[m]
    BY <2>5, <2>6, SubSeqProperties
  <2>8. DOMAIN SubSeq(line, 1, j) = 1 .. j /\ DOMAIN line = 1 .. Len(line)
    BY <2>7, LenProperties
  <2>9. Filled(SubSeq(line, 1, j)) = Upto
    BY <2>5, <2>7, <2>8 DEF Filled
  <2> HIDE DEF Upto
  <2>10. Len(Tokens(SubSeq(line, 1, j))) = 1
    BY <2>3, <2>7, <2>9, TokensSeq
  <2>11. Len(Tokens(Cut(line))) = 1 /\ Cut(line) \in Seq(Fields)
    BY <2>4, <2>7, <2>10, Zenon
  <2> QED
    BY <2>11
<1> QED
  BY <1>1, <1>2
-----------------------------------------------------------------------------
(* Type correctness.                                                       *)

LEMMA LineSeq ==
  ASSUME AppsTypeOK, NEW a \in Apps
  PROVE  /\ Line(a) \in Seq(Fields)
         /\ (IF input[a] = <<>> THEN input[a] ELSE Tail(input[a]))
              \in Seq(Seq(Fields))
<1>1. input[a] \in Seq(Seq(Fields)) /\ comando[a] \in Seq(Fields)
  BY DEF AppsTypeOK
<1>2. CASE input[a] = <<>>
  BY <1>1, <1>2 DEF Line
<1>3. CASE input[a] # <<>>
  BY <1>1, <1>3, HeadTailProperties DEF Line
<1> QED
  BY <1>2, <1>3

LEMMA FgetsType ==
  ASSUME AppsTypeOK, NEW a \in Apps, Fgets(a)
  PROVE  /\ input' \in [Apps -> Seq(Seq(Fields))]
         /\ fresh' \in [Apps -> BOOLEAN]
<1> DEFINE rest == IF input[a] = <<>> THEN input[a] ELSE Tail(input[a])
<1>1. input' = [input EXCEPT ![a] = rest]
  BY DEF Fgets
<1>2. rest \in Seq(Seq(Fields))
  BY LineSeq
<1>3. \E b \in BOOLEAN : fresh' = [fresh EXCEPT ![a] = b]
  BY DEF Fgets
<1> HIDE DEF rest
<1> QED
  BY <1>1, <1>2, <1>3 DEF AppsTypeOK

LEMMA TypeSalir ==
  ASSUME AppsTypeOK, NEW a \in Apps, Salir(a)
  PROVE  AppsTypeOK'
<1>1. /\ comando' = [comando EXCEPT ![a] = Line(a)]
      /\ at' = [at EXCEPT ![a] = "ended"]
      /\ UNCHANGED <<argumentos, i, parsed, told>>
      /\ Fgets(a)
  BY DEF Salir, Goto
<1>2. /\ input' \in [Apps -> Seq(Seq(Fields))]
      /\ fresh' \in [Apps -> BOOLEAN]
  BY <1>1, FgetsType
<1>3. Line(a) \in Seq(Fields)
  BY LineSeq
<1> QED
  BY <1>1, <1>2, <1>3 DEF AppsTypeOK, parsed

LEMMA TypeReadCommand ==
  ASSUME AppsTypeOK, NEW a \in Apps, ReadCommand(a)
  PROVE  AppsTypeOK'
<1>1. Fgets(a) /\ Line(a) \in Seq(Fields)
  BY LineSeq DEF ReadCommand
<1>2. /\ input' \in [Apps -> Seq(Seq(Fields))]
      /\ fresh' \in [Apps -> BOOLEAN]
  BY <1>1, FgetsType
<1>3. comando' \in [Apps -> Seq(Fields)]
  <2>1. Cut(Line(a)) \in Seq(Fields)
    BY <1>1, CutTokens
  <2> QED
    BY <2>1 DEF ReadCommand, AppsTypeOK
<1>4. /\ argumentos' \in [Apps -> Seq(Words)]
      /\ \A x \in Apps : Len(argumentos'[x]) <= MaxArguments
  <2>1. /\ FirstTokens(Line(a)) \in Seq(Words)
        /\ Len(FirstTokens(Line(a))) <= MaxArguments
    BY <1>1, FirstTokensSeq
  <2> QED
    BY <2>1 DEF ReadCommand, AppsTypeOK
<1>5. /\ i' \in [Apps -> 1 .. MaxArguments + 1]
      /\ \A x \in Apps : i'[x] <= Len(argumentos'[x]) + 1
  <2>1. i' = [i EXCEPT ![a] = 1] /\ 1 \in 1 .. MaxArguments + 1
    BY DEF ReadCommand, MaxArguments
  <2>2. i' \in [Apps -> 1 .. MaxArguments + 1]
    BY <2>1 DEF AppsTypeOK
  <2>3. \A x \in Apps : Len(argumentos'[x]) \in Nat
    BY <1>4, LenProperties
  <2>4. ASSUME NEW x \in Apps, x # a
        PROVE  i'[x] = i[x] /\ argumentos'[x] = argumentos[x]
    BY <2>4 DEF ReadCommand, AppsTypeOK
  <2>5. i'[a] = 1
    BY <2>1 DEF AppsTypeOK
  <2>6. \A x \in Apps : i'[x] <= Len(argumentos'[x]) + 1
    <3> TAKE x \in Apps
    <3>1. CASE x = a
      BY <2>3, <2>5, <3>1
    <3>2. CASE x # a
      BY <2>4, <3>2 DEF AppsTypeOK
    <3> QED
      BY <3>1, <3>2
  <2> QED
    BY <2>2, <2>6
<1>6. /\ archivo_entrada' \in [Apps -> Fields \cup {NULL}]
      /\ archivo_salida' \in [Apps -> Fields \cup {NULL}]
      /\ archivo_clave' \in [Apps -> Fields \cup {NULL}]
      /\ num_hilos' \in [Apps -> Int]
  BY DEF ReadCommand, AppsTypeOK
<1>7. /\ error_parametros' \in [Apps -> BOOLEAN]
      /\ at' \in [Apps -> {"prompt", "parse", "syscall", "ended", "killed"}]
      /\ told' \in [Apps -> {"nothing", "usage", "success", "failure"}]
  BY DEF ReadCommand, AppsTypeOK, Goto, Tell
<1> QED
  BY <1>2, <1>3, <1>4, <1>5, <1>6, <1>7 DEF AppsTypeOK

(* The option at i and the value after it.                                 *)
LEMMA OptionFacts ==
  ASSUME AppsTypeOK, NEW a \in Apps, AtOption(a)
  PROVE  /\ i[a] \in 1 .. Len(argumentos[a]) - 1
         /\ Len(argumentos[a]) \in Nat /\ Len(argumentos[a]) <= MaxArguments
         /\ argumentos[a][i[a] + 1] \in Fields
         /\ Atoi(argumentos[a][i[a] + 1]) \in Int
<1>1. /\ argumentos[a] \in Seq(Words) /\ Len(argumentos[a]) \in Nat
      /\ Len(argumentos[a]) <= MaxArguments
      /\ i[a] \in 1 .. MaxArguments + 1
  BY LenProperties DEF AppsTypeOK
<1>2. i[a] \in 1 .. Len(argumentos[a]) - 1
  BY <1>1 DEF AtOption, MaxArguments
<1>3. i[a] + 1 \in 1 .. Len(argumentos[a])
  BY <1>1, <1>2
<1>4. argumentos[a][i[a] + 1] \in Words
  BY <1>1, <1>3, ElementOfSeq
<1>5. argumentos[a][i[a] + 1] \in Fields
  BY <1>4, Zenon DEF Words
<1> QED
  BY <1>1, <1>2, <1>5, AtoiType

LEMMA IndexType ==
  ASSUME AppsTypeOK, NEW a \in Apps, NEW n \in Nat, n # 0,
         n <= Len(argumentos[a]) + 1, i' = [i EXCEPT ![a] = n],
         argumentos' = argumentos
  PROVE  /\ i' \in [Apps -> 1 .. MaxArguments + 1]
         /\ \A x \in Apps : i'[x] <= Len(argumentos'[x]) + 1
<1>1. /\ i \in [Apps -> 1 .. MaxArguments + 1]
      /\ \A x \in Apps : i[x] <= Len(argumentos[x]) + 1
      /\ Len(argumentos[a]) <= MaxArguments
      /\ Len(argumentos[a]) \in Nat
  BY LenProperties DEF AppsTypeOK
<1>2. n \in 1 .. MaxArguments + 1
  BY <1>1 DEF MaxArguments
<1> QED
  BY <1>1, <1>2

LEMMA TypeParseOption ==
  ASSUME AppsTypeOK, NEW a \in Apps, ParseOption(a)
  PROVE  AppsTypeOK'
<1> DEFINE opt == argumentos[a][i[a]]
           val == argumentos[a][i[a] + 1]
<1>1. /\ i[a] \in 1 .. Len(argumentos[a]) - 1
      /\ Len(argumentos[a]) \in Nat /\ Len(argumentos[a]) <= MaxArguments
      /\ val \in Fields /\ Atoi(val) \in Int
  BY OptionFacts DEF ParseOption
<1>2. /\ archivo_entrada' = [archivo_entrada EXCEPT ![a] =
                               IF opt = "-p" THEN val ELSE @]
      /\ archivo_salida' = [archivo_salida EXCEPT ![a] =
                              IF opt = "-o" THEN val ELSE @]
      /\ archivo_clave' = [archivo_clave EXCEPT ![a] =
                             IF opt = "-k" THEN val ELSE @]
      /\ num_hilos' = [num_hilos EXCEPT ![a] =
                         IF opt = "-t" THEN Atoi(val) ELSE @]
      /\ \E b \in BOOLEAN :
           error_parametros' = [error_parametros EXCEPT ![a] = b]
      /\ i' = [i EXCEPT ![a] = @ + 2]
      /\ UNCHANGED <<input, comando, argumentos, at, told, fresh>>
  BY DEF ParseOption
<1> HIDE DEF val, opt
<1>3. /\ archivo_entrada' \in [Apps -> Fields \cup {NULL}]
      /\ archivo_salida' \in [Apps -> Fields \cup {NULL}]
      /\ archivo_clave' \in [Apps -> Fields \cup {NULL}]
      /\ num_hilos' \in [Apps -> Int]
  BY <1>1, <1>2 DEF AppsTypeOK
<1>4. error_parametros' \in [Apps -> BOOLEAN]
  BY <1>2 DEF AppsTypeOK
<1>5. /\ i' \in [Apps -> 1 .. MaxArguments + 1]
      /\ \A x \in Apps : i'[x] <= Len(argumentos'[x]) + 1
  <2>1. /\ i[a] + 2 \in Nat /\ i[a] + 2 # 0
        /\ i[a] + 2 <= Len(argumentos[a]) + 1
    BY <1>1
  <2> QED
    BY <1>2, <2>1, IndexType
<1> QED
  BY <1>2, <1>3, <1>4, <1>5 DEF AppsTypeOK

LEMMA TypeParseUnknown ==
  ASSUME AppsTypeOK, NEW a \in Apps, ParseUnknown(a)
  PROVE  AppsTypeOK'
<1>1. /\ Len(argumentos[a]) \in Nat /\ Len(argumentos[a]) <= MaxArguments
      /\ i[a] \in 1 .. MaxArguments + 1 /\ i[a] <= Len(argumentos[a])
  BY LenProperties DEF AppsTypeOK, ParseUnknown
<1>2. /\ \E n \in {Len(argumentos[a]) + 1, i[a] + 1} :
           i' = [i EXCEPT ![a] = n]
      /\ \/ error_parametros' = [error_parametros EXCEPT ![a] = TRUE]
         \/ UNCHANGED error_parametros
      /\ told' = [told EXCEPT ![a] = "usage"]
      /\ UNCHANGED <<input, comando, argumentos, archivo_entrada,
                     archivo_salida, archivo_clave, num_hilos, at, fresh>>
  BY DEF ParseUnknown, Tell
<1>3. /\ i' \in [Apps -> 1 .. MaxArguments + 1]
      /\ \A x \in Apps : i'[x] <= Len(argumentos'[x]) + 1
  <2>1. PICK n \in {Len(argumentos[a]) + 1, i[a] + 1} :
          i' = [i EXCEPT ![a] = n]
    BY <1>2
  <2>2. n \in Nat /\ n # 0 /\ n <= Len(argumentos[a]) + 1
    BY <1>1
  <2> QED
    BY <1>2, <2>1, <2>2, IndexType
<1>4. error_parametros' \in [Apps -> BOOLEAN]
  BY <1>2 DEF AppsTypeOK
<1> QED
  BY <1>2, <1>3, <1>4 DEF AppsTypeOK

LEMMA AppsTypeNext == AppsTypeOK /\ [AppsNext]_appVars => AppsTypeOK'
<1> SUFFICES ASSUME AppsTypeOK, [AppsNext]_appVars PROVE AppsTypeOK'
  OBVIOUS
<1>1. ASSUME NEW a \in Apps, Command(a) PROVE AppsTypeOK'
  <2>1. CASE Rejected(a)
    BY <2>1 DEF Rejected, Goto, Tell, AppsTypeOK
  <2> QED
    BY <1>1, <2>1, TypeSalir, TypeReadCommand, TypeParseOption,
       TypeParseUnknown
    DEF Command
<1>2. ASSUME NEW a \in Apps, Accepted(a) \/ SyscallKills(a)
      PROVE  AppsTypeOK'
  BY <1>2 DEF Accepted, SyscallKills, Goto, AppsTypeOK, parsed
<1>3. ASSUME NEW a \in Apps, NEW ok \in BOOLEAN, SyscallReturns(a, ok)
      PROVE  AppsTypeOK'
  BY <1>3 DEF SyscallReturns, Goto, Tell, AppsTypeOK, parsed
<1>4. ASSUME UNCHANGED appVars PROVE AppsTypeOK'
  BY <1>4 DEF appVars, AppsTypeOK, parsed
<1> QED
  BY <1>1, <1>2, <1>3, <1>4 DEF AppsNext, Main, AppsOver

LEMMA AppsTypeInit == AppsInit => AppsTypeOK
<1> SUFFICES ASSUME AppsInit PROVE AppsTypeOK
  OBVIOUS
<1>1. <<>> \in Seq(Words) /\ Len(<<>>) = 0
  BY EmptySeq
<1>2. input \in [Apps -> Seq(Seq(Fields))] /\ comando \in [Apps -> Seq(Fields)]
  BY InputsType, GarbageType DEF AppsInit
<1> QED
  BY <1>1, <1>2 DEF AppsInit, AppsTypeOK, MaxArguments

(* Whatever is typed, the parser stays inside the ten pointers.            *)
THEOREM AppsTypeCorrect == AppsSpec => []AppsTypeOK
BY AppsTypeInit, AppsTypeNext, PTL DEF AppsSpec
-----------------------------------------------------------------------------
(* The commands.                                                           *)

(* The steps of process a.                                                 *)
Step(a) ==
  \/ Main(a)
  \/ \E ok \in BOOLEAN : SyscallReturns(a, ok)
  \/ SyscallKills(a)

LEMMA OtherApps ==
  ASSUME AppsTypeOK, NEW a \in Apps, Step(a), NEW x \in Apps, x # a
  PROVE  /\ input'[x] = input[x] /\ comando'[x] = comando[x]
         /\ argumentos'[x] = argumentos[x] /\ i'[x] = i[x]
         /\ archivo_entrada'[x] = archivo_entrada[x]
         /\ archivo_salida'[x] = archivo_salida[x]
         /\ archivo_clave'[x] = archivo_clave[x]
         /\ num_hilos'[x] = num_hilos[x]
         /\ error_parametros'[x] = error_parametros[x]
         /\ at'[x] = at[x] /\ told'[x] = told[x] /\ fresh'[x] = fresh[x]
<1> USE DEF AppsTypeOK, Goto, Tell, parsed
<1>1. CASE Salir(a)
  BY <1>1 DEF Salir, Fgets
<1>2. CASE ReadCommand(a)
  BY <1>2 DEF ReadCommand, Fgets
<1>3. CASE ParseOption(a)
  BY <1>3 DEF ParseOption
<1>4. CASE ParseUnknown(a)
  BY <1>4 DEF ParseUnknown
<1>5. CASE Rejected(a) \/ Accepted(a) \/ SyscallKills(a)
  BY <1>5 DEF Rejected, Accepted, SyscallKills
<1>6. CASE \E ok \in BOOLEAN : SyscallReturns(a, ok)
  BY <1>6 DEF SyscallReturns
<1> QED
  BY <1>1, <1>2, <1>3, <1>4, <1>5, <1>6 DEF Step, Main, Command

(* A step that parses nothing.                                             *)
LEMMA QuietSteps ==
  ASSUME AppsTypeOK, NEW a \in Apps, Step(a)
  PROVE  \/ ReadCommand(a) \/ ParseOption(a) \/ ParseUnknown(a)
         \/ /\ UNCHANGED <<argumentos, i, archivo_entrada, archivo_salida,
                           archivo_clave, num_hilos>>
            /\ \/ at'[a] # "syscall" /\ error_parametros'[a] = TRUE
               \/ UNCHANGED error_parametros
            /\ at'[a] = "syscall" =>
                 /\ ~error_parametros[a] /\ ~Missing(a)
                 /\ i[a] > Len(argumentos[a])
<1> USE DEF AppsTypeOK, Goto, parsed
<1>1. CASE Salir(a)
  BY <1>1 DEF Salir
<1>2. CASE Rejected(a) \/ Accepted(a) \/ SyscallKills(a)
  BY <1>2 DEF Rejected, Accepted, SyscallKills
<1>3. CASE \E ok \in BOOLEAN : SyscallReturns(a, ok)
  BY <1>3 DEF SyscallReturns
<1> QED
  BY <1>1, <1>2, <1>3 DEF Step, Main, Command

LEMMA OwnParsed ==
  ASSUME AppsTypeOK, NEW a \in Apps, ParsedInv(a), Step(a)
  PROVE  ParsedInv(a)'
<1>1. CASE ReadCommand(a)
  <2>1. /\ archivo_entrada'[a] = NULL /\ archivo_salida'[a] = NULL
        /\ archivo_clave'[a] = NULL /\ num_hilos'[a] = 0
        /\ at'[a] = "parse"
    BY <1>1 DEF ReadCommand, Goto, AppsTypeOK
  <2> QED
    BY <2>1 DEF ParsedInv
<1>2. CASE ParseOption(a)
  <2> DEFINE opt == argumentos[a][i[a]]
             val == argumentos[a][i[a] + 1]
  <2>1. /\ i[a] \in 1 .. Len(argumentos[a]) - 1 /\ val \in Fields
    BY <1>2, OptionFacts DEF ParseOption
  <2>2. /\ archivo_entrada'[a] = IF opt = "-p" THEN val
                                 ELSE archivo_entrada[a]
        /\ archivo_salida'[a] = IF opt = "-o" THEN val ELSE archivo_salida[a]
        /\ archivo_clave'[a] = IF opt = "-k" THEN val ELSE archivo_clave[a]
        /\ num_hilos'[a] = IF opt = "-t" THEN Atoi(val) ELSE num_hilos[a]
        /\ argumentos' = argumentos
        /\ at'[a] = "parse"
    BY <1>2 DEF ParseOption, AppsTypeOK
  <2>3. Follows(a, opt, val) /\ ParsedInv(a)
    BY <2>1 DEF Follows
  <2> HIDE DEF opt, val
  <2>4. archivo_entrada'[a] = NULL \/ Follows(a, "-p", archivo_entrada[a])'
    BY <2>2, <2>3 DEF ParsedInv, Follows
  <2>5. archivo_salida'[a] = NULL \/ Follows(a, "-o", archivo_salida[a])'
    BY <2>2, <2>3 DEF ParsedInv, Follows
  <2>6. archivo_clave'[a] = NULL \/ Follows(a, "-k", archivo_clave[a])'
    BY <2>2, <2>3 DEF ParsedInv, Follows
  <2>7. \/ num_hilos'[a] = 0
        \/ \E v \in Fields : Atoi(v) = num_hilos'[a] /\ Follows(a, "-t", v)'
    BY <2>1, <2>2, <2>3 DEF ParsedInv, Follows
  <2> QED
    BY <2>2, <2>4, <2>5, <2>6, <2>7 DEF ParsedInv
<1>3. CASE ParseUnknown(a)
  <2>1. /\ UNCHANGED <<argumentos, archivo_entrada, archivo_salida,
                       archivo_clave, num_hilos>>
        /\ at'[a] = "parse"
    BY <1>3 DEF ParseUnknown
  <2> QED
    BY <2>1 DEF ParsedInv, Follows
<1>4. CASE /\ UNCHANGED <<argumentos, i, archivo_entrada, archivo_salida,
                          archivo_clave, num_hilos>>
           /\ at'[a] = "syscall" => ~Missing(a)
  BY <1>4 DEF ParsedInv, Follows, Missing
<1> QED
  BY <1>1, <1>2, <1>3, <1>4, QuietSteps

LEMMA OddPlaces ==
  ASSUME NEW n \in Nat, n % 2 = 1, NEW j \in 1 .. n + 1, j % 2 = 1
  PROVE  j \in 1 .. n - 1 \/ j = n
<1>1. j # n + 1
  OBVIOUS
<1> QED
  BY <1>1

LEMMA BeforeOdd ==
  ASSUME NEW n \in Nat, (n + 1) % 2 = 1
  PROVE  n % 2 = 0
OBVIOUS

LEMMA OwnStrict ==
  ASSUME AppsTypeOK, NEW a \in EncryptApps, StrictInv(a), Step(a)
  PROVE  StrictInv(a)'
<1>0. a \in Apps
  BY DEF Apps
<1>1. CASE ReadCommand(a)
  <2>1. i'[a] = 1 /\ num_hilos'[a] = 0 /\ at'[a] = "parse"
    BY <1>0, <1>1 DEF ReadCommand, Goto, AppsTypeOK
  <2> QED
    BY <2>1 DEF StrictInv
<1>2. CASE ParseOption(a)
  <2> DEFINE opt == argumentos[a][i[a]]
             val == argumentos[a][i[a] + 1]
  <2>1. /\ i[a] \in 1 .. Len(argumentos[a]) - 1 /\ i[a] \in Nat
        /\ opt \in Options /\ Atoi(val) \in Int /\ num_hilos[a] \in Int
    <3>1. AtOption(a)
      BY <1>2 DEF ParseOption
    <3>2. i[a] \in 1 .. Len(argumentos[a]) - 1 /\ Atoi(val) \in Int
      BY <1>0, <3>1, OptionFacts
    <3>3. opt \in Options
      BY <3>1 DEF AtOption
    <3>4. i[a] \in Nat /\ num_hilos[a] \in Int
      BY <1>0 DEF AppsTypeOK
    <3> QED
      BY <3>2, <3>3, <3>4
  <2>2. /\ num_hilos'[a] = IF opt = "-t" THEN Atoi(val) ELSE num_hilos[a]
        /\ i'[a] = i[a] + 2
        /\ argumentos' = argumentos
        /\ at'[a] = "parse"
    BY <1>0, <1>2 DEF ParseOption, AppsTypeOK
  <2>3. ~error_parametros'[a] =>
          ~error_parametros[a] /\ ~(opt = "-t" /\ Atoi(val) <= 0)
    BY <1>0, <1>2 DEF ParseOption, AppsTypeOK
  <2> SUFFICES ASSUME ~error_parametros'[a]
               PROVE  /\ i'[a] % 2 = 1
                      /\ \A j \in 1 .. i'[a] - 1 :
                           j % 2 = 1 => argumentos'[a][j] \in Options
                      /\ \/ num_hilos'[a] > 0
                         \/ /\ num_hilos'[a] = 0
                            /\ \A j \in 1 .. i'[a] - 1 :
                                 j % 2 = 1 => argumentos'[a][j] # "-t"
    BY <2>2 DEF StrictInv
  <2>4. /\ i[a] % 2 = 1
        /\ \A j \in 1 .. i[a] - 1 : j % 2 = 1 => argumentos[a][j] \in Options
        /\ \/ num_hilos[a] > 0
           \/ /\ num_hilos[a] = 0
              /\ \A j \in 1 .. i[a] - 1 :
                   j % 2 = 1 => argumentos[a][j] # "-t"
    BY <2>3 DEF StrictInv
  <2>5. i'[a] % 2 = 1
    BY <2>1, <2>2, <2>4
  <2>6. ASSUME NEW j \in 1 .. i'[a] - 1, j % 2 = 1
        PROVE  j \in 1 .. i[a] - 1 \/ j = i[a]
    <3>1. j \in 1 .. i[a] + 1
      BY <2>1, <2>2, <2>6
    <3> QED
      BY <2>1, <2>4, <2>6, <3>1, OddPlaces
  <2>7. ASSUME NEW j \in 1 .. i'[a] - 1, j % 2 = 1
        PROVE  argumentos'[a][j] \in Options
    <3>1. CASE j = i[a]
      BY <2>1, <2>2, <3>1
    <3>2. CASE j \in 1 .. i[a] - 1
      BY <2>2, <2>4, <2>7, <3>2
    <3> QED
      BY <2>6, <2>7, <3>1, <3>2
  <2>8. CASE opt = "-t"
    <3>1. Atoi(val) > 0
      BY <2>1, <2>3, <2>8
    <3>2. num_hilos'[a] > 0
      BY <2>2, <2>8, <3>1
    <3> QED
      BY <2>5, <2>7, <3>2
  <2>9. CASE opt # "-t"
    <3>1. num_hilos'[a] = num_hilos[a]
      BY <2>2, <2>9
    <3>2. ASSUME \A j \in 1 .. i[a] - 1 : j % 2 = 1 => argumentos[a][j] # "-t",
                 NEW j \in 1 .. i'[a] - 1, j % 2 = 1
          PROVE  argumentos'[a][j] # "-t"
      <4>1. CASE j = i[a]
        BY <2>2, <2>9, <4>1
      <4>2. CASE j \in 1 .. i[a] - 1
        BY <2>2, <3>2, <4>2
      <4> QED
        BY <2>6, <3>2, <4>1, <4>2
    <3> QED
      BY <2>4, <2>5, <2>7, <3>1, <3>2
  <2> QED
    BY <2>8, <2>9
<1>3. CASE ParseUnknown(a)
  <2>1. error_parametros'[a] = TRUE /\ at'[a] = "parse"
    BY <1>0, <1>3 DEF ParseUnknown, AppsTypeOK
  <2> QED
    BY <2>1 DEF StrictInv
<1>4. CASE /\ UNCHANGED <<argumentos, i, num_hilos>>
           /\ \/ at'[a] # "syscall" /\ error_parametros'[a] = TRUE
              \/ UNCHANGED error_parametros
           /\ at'[a] = "syscall" =>
                ~error_parametros[a] /\ i[a] > Len(argumentos[a])
  <2>1. /\ i[a] \in Nat /\ Len(argumentos[a]) \in Nat
        /\ i[a] <= Len(argumentos[a]) + 1
    BY <1>0, LenProperties DEF AppsTypeOK
  <2>2. CASE at'[a] # "syscall" /\ error_parametros'[a] = TRUE
    BY <2>2 DEF StrictInv
  <2>3. CASE UNCHANGED error_parametros
    BY <1>4, <2>1, <2>3 DEF StrictInv
  <2> QED
    BY <1>4, <2>2, <2>3
<1> QED
  BY <1>0, <1>1, <1>2, <1>3, <1>4, QuietSteps

LEMMA AppsSteps ==
  ASSUME [AppsNext]_appVars
  PROVE  (\E a \in Apps : Step(a)) \/ UNCHANGED appVars
BY DEF AppsNext, Step, AppsOver

LEMMA CommandNext ==
  AppsTypeOK /\ CommandInv /\ [AppsNext]_appVars => CommandInv'
<1> SUFFICES ASSUME AppsTypeOK, CommandInv, [AppsNext]_appVars
             PROVE  CommandInv'
  OBVIOUS
<1>1. ASSUME NEW a \in Apps, Step(a) PROVE CommandInv'
  <2>1. ASSUME NEW x \in Apps PROVE ParsedInv(x)'
    <3>1. ParsedInv(x)
      BY DEF CommandInv
    <3>2. CASE x = a
      BY <1>1, <3>1, <3>2, OwnParsed
    <3>3. CASE x # a
      <4>1. /\ argumentos'[x] = argumentos[x] /\ at'[x] = at[x]
            /\ archivo_entrada'[x] = archivo_entrada[x]
            /\ archivo_salida'[x] = archivo_salida[x]
            /\ archivo_clave'[x] = archivo_clave[x]
            /\ num_hilos'[x] = num_hilos[x]
        BY <1>1, <3>3, OtherApps
      <4> QED
        BY <3>1, <4>1 DEF ParsedInv, Follows, Missing
    <3> QED
      BY <3>2, <3>3
  <2>2. ASSUME NEW x \in EncryptApps PROVE StrictInv(x)'
    <3>1. StrictInv(x) /\ x \in Apps
      BY DEF CommandInv, Apps
    <3>2. CASE x = a
      BY <1>1, <3>1, <3>2, OwnStrict
    <3>3. CASE x # a
      <4>1. /\ argumentos'[x] = argumentos[x] /\ at'[x] = at[x]
            /\ i'[x] = i[x] /\ num_hilos'[x] = num_hilos[x]
            /\ error_parametros'[x] = error_parametros[x]
        BY <1>1, <3>1, <3>3, OtherApps
      <4> QED
        BY <3>1, <4>1 DEF StrictInv
    <3> QED
      BY <3>2, <3>3
  <2> QED
    BY <2>1, <2>2 DEF CommandInv
<1>2. ASSUME UNCHANGED appVars PROVE CommandInv'
  BY <1>2
  DEF appVars, parsed, CommandInv, ParsedInv, StrictInv, Follows, Missing
<1> QED
  BY <1>1, <1>2, AppsSteps

LEMMA CommandInvariant == AppsSpec => [](AppsTypeOK /\ CommandInv)
<1>1. AppsInit => CommandInv
  BY DEF AppsInit, CommandInv, ParsedInv, StrictInv, Apps
<1> QED
  BY <1>1, AppsTypeInit, AppsTypeNext, CommandNext, PTL DEF AppsSpec

(* Every argument of every system call was typed in the command that makes *)
(* it.                                                                     *)
THEOREM CallsAreOneCommand == AppsSpec => []CallIsOneCommand
<1>1. AppsTypeOK /\ CommandInv => CallIsOneCommand
  <2> SUFFICES ASSUME AppsTypeOK, CommandInv, NEW a \in Apps,
                      at[a] = "syscall"
               PROVE  /\ Follows(a, "-p", archivo_entrada[a])
                      /\ Follows(a, "-o", archivo_salida[a])
                      /\ Follows(a, "-k", archivo_clave[a])
                      /\ \/ \E v \in Fields : /\ Atoi(v) = num_hilos[a]
                                              /\ Follows(a, "-t", v)
                         \/ a \in EncryptApps /\ num_hilos[a] = 0
    BY DEF CallIsOneCommand
  <2>1. ParsedInv(a) /\ num_hilos[a] \in Int
    BY DEF CommandInv, AppsTypeOK
  <2>2. ~Missing(a)
    BY <2>1 DEF ParsedInv
  <2> QED
    BY <2>1, <2>2 DEF ParsedInv, Missing, Apps
<1> QED
  BY <1>1, CommandInvariant, PTL

(* encrypt_app calls only for a list of options and values.                *)
THEOREM CallsHaveOptionsOnly == AppsSpec => []OptionsOnly
<1>1. AppsTypeOK /\ CommandInv => OptionsOnly
  <2> SUFFICES ASSUME AppsTypeOK, CommandInv, NEW a \in EncryptApps,
                      at[a] = "syscall"
               PROVE  /\ Len(argumentos[a]) % 2 = 0
                      /\ \A j \in 1 .. Len(argumentos[a]) :
                           j % 2 = 1 => argumentos[a][j] \in Options
    BY DEF OptionsOnly
  <2>1. StrictInv(a) /\ Len(argumentos[a]) \in Nat
    BY LenProperties DEF CommandInv, AppsTypeOK, Apps
  <2>2. /\ i[a] = Len(argumentos[a]) + 1
        /\ i[a] % 2 = 1
        /\ \A j \in 1 .. i[a] - 1 : j % 2 = 1 => argumentos[a][j] \in Options
    BY <2>1 DEF StrictInv
  <2>3. Len(argumentos[a]) % 2 = 0
    BY <2>1, <2>2, BeforeOdd
  <2>4. 1 .. Len(argumentos[a]) = 1 .. i[a] - 1
    BY <2>1, <2>2
  <2> QED
    BY <2>2, <2>3, <2>4
<1> QED
  BY <1>1, CommandInvariant, PTL

(* A number of threads that is not positive reaches the kernel only from   *)
(* encrypt_app, as the zero of a command without -t.                       *)
THEOREM ThreadNumbersChecked == AppsSpec => []ThreadsChecked
<1>1. AppsTypeOK /\ CommandInv => ThreadsChecked
  <2> SUFFICES ASSUME AppsTypeOK, CommandInv, NEW a \in Apps,
                      at[a] = "syscall", num_hilos[a] <= 0
               PROVE  /\ a \in EncryptApps
                      /\ num_hilos[a] = 0
                      /\ \A j \in DOMAIN argumentos[a] :
                           j % 2 = 1 => argumentos[a][j] # "-t"
    BY DEF ThreadsChecked
  <2>1. /\ ParsedInv(a) /\ num_hilos[a] \in Int
        /\ Len(argumentos[a]) \in Nat
        /\ DOMAIN argumentos[a] = 1 .. Len(argumentos[a])
    BY LenProperties DEF CommandInv, AppsTypeOK
  <2>2. a \in EncryptApps
    BY <2>1 DEF ParsedInv, Missing, Apps
  <2>3. StrictInv(a)
    BY <2>2 DEF CommandInv
  <2>4. /\ i[a] = Len(argumentos[a]) + 1
        /\ num_hilos[a] = 0
        /\ \A j \in 1 .. i[a] - 1 : j % 2 = 1 => argumentos[a][j] # "-t"
    BY <2>1, <2>3 DEF StrictInv
  <2>5. DOMAIN argumentos[a] = 1 .. i[a] - 1
    BY <2>1, <2>4
  <2> QED
    BY <2>2, <2>4, <2>5
<1> QED
  BY <1>1, CommandInvariant, PTL
-----------------------------------------------------------------------------
(* The end of the input.                                                   *)

LEMMA TokensFrame ==
  ASSUME NEW a \in Apps, comando'[a] = comando[a]
  PROVE  Tokens(comando[a])' = Tokens(comando[a])
BY DEF Tokens, Filled, Rank

LEMMA OwnEnd ==
  ASSUME AppsTypeOK, NEW a \in Apps, EndInv(a), Step(a)
  PROVE  EndInv(a)'
<1> USE DEF AppsTypeOK, Goto, parsed
<1>1. CASE Salir(a)
  BY <1>1 DEF Salir, EndInv
<1>2. CASE ReadCommand(a)
  <2>1. Line(a) \in Seq(Fields)
    BY LineSeq
  <2>2. /\ comando'[a] = Cut(Line(a))
        /\ argumentos'[a] = FirstTokens(Line(a))
        /\ at[a] = "prompt"
        /\ fresh'[a] = (input[a] # <<>>)
    BY <1>2 DEF ReadCommand, Fgets
  <2>3. Len(Tokens(comando'[a])) <= 1
    BY <2>1, <2>2, CutTokens
  <2>4. ASSUME ~fresh'[a] PROVE Len(argumentos'[a]) <= 1
    <3>1. Line(a) = comando[a] /\ Len(Tokens(comando[a])) <= 1
      BY <2>2, <2>4 DEF Line, EndInv
    <3>2. Len(FirstTokens(Line(a))) <= Len(Tokens(Line(a)))
      BY <2>1, FirstTokensSeq
    <3>3. /\ Len(FirstTokens(Line(a))) \in Nat
          /\ Len(Tokens(Line(a))) \in Nat
      BY <2>1, FirstTokensSeq, TokensSeq, LenProperties
    <3> QED
      BY <2>2, <3>1, <3>2, <3>3
  <2>5. Len(Tokens(comando[a]))' <= 1
    BY <2>3 DEF Tokens, Filled, Rank
  <2> QED
    BY <2>4, <2>5 DEF EndInv
<1>3. CASE ParseOption(a) \/ ParseUnknown(a)
  <2>1. UNCHANGED <<input, comando, argumentos, at, fresh>>
    BY <1>3 DEF ParseOption, ParseUnknown
  <2> QED
    BY <2>1, TokensFrame DEF EndInv
<1>4. CASE Rejected(a) \/ Accepted(a) \/ SyscallKills(a)
  <2>1. /\ UNCHANGED <<input, comando, argumentos, fresh>>
        /\ at[a] \in {"parse", "syscall"}
    BY <1>4 DEF Rejected, Accepted, SyscallKills
  <2> QED
    BY <2>1, TokensFrame DEF EndInv
<1>5. CASE \E ok \in BOOLEAN : SyscallReturns(a, ok)
  <2>1. /\ UNCHANGED <<input, comando, argumentos, fresh>>
        /\ at[a] = "syscall"
    BY <1>5 DEF SyscallReturns
  <2> QED
    BY <2>1, TokensFrame DEF EndInv
<1> QED
  BY <1>1, <1>2, <1>3, <1>4, <1>5 DEF Step, Main, Command

(* If something is typed at all, what the array held before and what it    *)
(* holds after the end of the input never become a system call.  (A        *)
(* program whose input is empty parses the bytes it found in the array.)   *)
THEOREM NoCallsAfterEnd ==
  AppsSpec /\ (\A a \in Apps : input[a] # <<>>) => []NoCallAfterEnd
<1> DEFINE Ends == \A a \in Apps : EndInv(a)
<1>1. AppsInit /\ (\A a \in Apps : input[a] # <<>>) => Ends
  BY DEF AppsInit, EndInv
<1>2. AppsTypeOK /\ Ends /\ [AppsNext]_appVars => Ends'
  <2> SUFFICES ASSUME AppsTypeOK, Ends, [AppsNext]_appVars, NEW x \in Apps
               PROVE  EndInv(x)'
    OBVIOUS
  <2>1. ASSUME NEW a \in Apps, Step(a) PROVE EndInv(x)'
    <3>1. CASE x = a
      BY <2>1, <3>1, OwnEnd
    <3>2. CASE x # a
      <4>1. /\ input'[x] = input[x] /\ comando'[x] = comando[x]
            /\ argumentos'[x] = argumentos[x] /\ at'[x] = at[x]
            /\ fresh'[x] = fresh[x]
        BY <2>1, <3>2, OtherApps
      <4>2. EndInv(x)
        OBVIOUS
      <4> QED
        BY <4>1, <4>2, TokensFrame DEF EndInv
    <3> QED
      BY <3>1, <3>2
  <2>2. ASSUME UNCHANGED appVars PROVE EndInv(x)'
    BY <2>2, TokensFrame DEF appVars, EndInv
  <2> QED
    BY <2>1, <2>2, AppsSteps
<1>3. AppsTypeOK /\ CommandInv /\ Ends => NoCallAfterEnd
  <2> SUFFICES ASSUME AppsTypeOK, CommandInv, Ends, NEW a \in Apps,
                      at[a] = "syscall", ~fresh[a]
               PROVE  FALSE
    BY DEF NoCallAfterEnd
  <2>1. Len(argumentos[a]) <= 1 /\ Len(argumentos[a]) \in Nat
    BY LenProperties DEF EndInv, AppsTypeOK
  <2>2. ~Follows(a, "-p", archivo_entrada[a])
    BY <2>1 DEF Follows
  <2>3. ParsedInv(a)
    BY DEF CommandInv
  <2> QED
    BY <2>2, <2>3 DEF ParsedInv, Missing
<1> HIDE DEF Ends
<1> QED
  BY <1>1, <1>2, <1>3, CommandInvariant, PTL DEF AppsSpec
=============================================================================
