-------------------------------- MODULE Apps --------------------------------
(***************************************************************************)
(* The two programs of Practica2, apps/encrypt_app.c and                   *)
(* apps/decrypt_app.c: each reads commands from its standard input until   *)
(* the word salir, takes the options -p, -o, -t and -k out of a command    *)
(* and makes system call 548 or 549.                                       *)
(*                                                                         *)
(* A line is the sequence of what its single spaces separate, so that two  *)
(* spaces in a row, or one at either end, show as an empty field.  A line  *)
(* that does not fit into comando[256] is two lines for fgets.             *)
(***************************************************************************)
EXTENDS Integers, Sequences, FiniteSets

CONSTANTS
  EncryptApps,  \* processes that run encrypt_app
  DecryptApps,  \* processes that run decrypt_app
  Fields,       \* what may stand between two spaces
  Atoi(_),      \* atoi of the C library on Fields
  Inputs,       \* what may be typed: finite sequences of lines
  Garbage,      \* what the array comando may hold before the first fgets
  NULL          \* the null pointer

Apps == EncryptApps \cup DecryptApps

ASSUME AppsDisjoint == EncryptApps \cap DecryptApps = {}

ASSUME AtoiType == \A f \in Fields : Atoi(f) \in Int

ASSUME NullType == NULL \notin Fields

ASSUME InputsType == Inputs \subseteq Seq(Seq(Fields))

ASSUME GarbageType == Garbage \subseteq Seq(Fields)

VARIABLES
  input,             \* the lines that have not been read
  comando,           \* the line in the buffer
  argumentos,        \* the pointers to the tokens
  i,                 \* the loop variable of the parser
  archivo_entrada, archivo_salida, archivo_clave, num_hilos,
  error_parametros,
  at,                \* where the process is
  told,              \* what the user was told last
  fresh              \* history: comando was typed since the last fgets

parsed == <<archivo_entrada, archivo_salida, archivo_clave, num_hilos,
            error_parametros>>
appVars == <<input, comando, argumentos, i, parsed, at, told, fresh>>

Options == {"-p", "-o", "-t", "-k"}
MaxArguments == 10

Empty == ""  \* what stands between two spaces in a row
Words == Fields \ {Empty}

(* strtok skips the empty fields: token k is the k-th of the others.       *)
Filled(line) == {j \in DOMAIN line : line[j] # Empty}
Rank(line, j) == Cardinality({m \in Filled(line) : m <= j})

Tokens(line) ==
  [k \in 1 .. Cardinality(Filled(line)) |->
     line[CHOOSE j \in Filled(line) : Rank(line, j) = k]]

CutNothing(line) == line  \* mutant: the line is split in a copy of itself

(* It ends the first token with a NUL: of the line in the buffer, only the *)
(* blanks before that token and the token itself are left.                 *)
Cut(line) ==
  IF Tokens(line) = <<>> THEN line
  ELSE SubSeq(line, 1, CHOOSE j \in Filled(line) : Rank(line, j) = 1)

FirstTokensAll(line) == Tokens(line)  \* mutant: more than ten are stored

FirstTokens(line) ==
  LET t == Tokens(line)
  IN  SubSeq(t, 1, IF Len(t) > MaxArguments THEN MaxArguments ELSE Len(t))

AppsInit ==
  /\ input \in [Apps -> Inputs]
  /\ comando \in [Apps -> Garbage]
  /\ argumentos = [a \in Apps |-> <<>>]
  /\ i = [a \in Apps |-> 1]
  /\ archivo_entrada = [a \in Apps |-> NULL]
  /\ archivo_salida = [a \in Apps |-> NULL]
  /\ archivo_clave = [a \in Apps |-> NULL]
  /\ num_hilos = [a \in Apps |-> 0]
  /\ error_parametros = [a \in Apps |-> FALSE]
  /\ at = [a \in Apps |-> "prompt"]
  /\ told = [a \in Apps |-> "nothing"]
  /\ fresh = [a \in Apps |-> FALSE]

Goto(a, l) == at' = [at EXCEPT ![a] = l]
Tell(a, m) == told' = [told EXCEPT ![a] = m]
-----------------------------------------------------------------------------
(* fgets: at the end of the input the buffer keeps what it held, and the   *)
(* programs do not look at the result.                                     *)
Line(a) == IF input[a] = <<>> THEN comando[a] ELSE Head(input[a])

Fgets(a) ==
  /\ at[a] = "prompt"
  /\ input' = [input EXCEPT ![a] = IF @ = <<>> THEN @ ELSE Tail(@)]
  /\ fresh' = [fresh EXCEPT ![a] = input[a] # <<>>]

Salir(a) ==
  /\ Fgets(a)
  /\ Line(a) = <<"salir">>
  /\ comando' = [comando EXCEPT ![a] = Line(a)]
  /\ Goto(a, "ended")
  /\ UNCHANGED <<argumentos, i, parsed, told>>

ReadCommandNoReset(a) ==  \* mutant: the parameters are not initialized again
  /\ Fgets(a)
  /\ Line(a) # <<"salir">>
  /\ comando' = [comando EXCEPT ![a] = Cut(Line(a))]
  /\ argumentos' = [argumentos EXCEPT ![a] = FirstTokens(Line(a))]
  /\ i' = [i EXCEPT ![a] = 1]
  /\ error_parametros' = [error_parametros EXCEPT ![a] = FALSE]
  /\ Goto(a, "parse")
  /\ Tell(a, "nothing")
  /\ UNCHANGED <<archivo_entrada, archivo_salida, archivo_clave, num_hilos>>

(* The line is split into at most ten tokens, the rest is dropped, and the *)
(* parameters are initialized.                                             *)
ReadCommand(a) ==
  /\ Fgets(a)
  /\ Line(a) # <<"salir">>
  /\ comando' = [comando EXCEPT ![a] = Cut(Line(a))]
  /\ argumentos' = [argumentos EXCEPT ![a] = FirstTokens(Line(a))]
  /\ i' = [i EXCEPT ![a] = 1]
  /\ archivo_entrada' = [archivo_entrada EXCEPT ![a] = NULL]
  /\ archivo_salida' = [archivo_salida EXCEPT ![a] = NULL]
  /\ archivo_clave' = [archivo_clave EXCEPT ![a] = NULL]
  /\ num_hilos' = [num_hilos EXCEPT ![a] = 0]
  /\ error_parametros' = [error_parametros EXCEPT ![a] = FALSE]
  /\ Goto(a, "parse")
  /\ Tell(a, "nothing")

(* Is argumentos[i] an option that a value follows?                        *)
AtOption(a) ==
  /\ i[a] < Len(argumentos[a])
  /\ argumentos[a][i[a]] \in Options

ParseOption(a) ==
  LET opt == argumentos[a][i[a]]
      val == argumentos[a][i[a] + 1]
      Take(var, o) == [var EXCEPT ![a] = IF opt = o THEN val ELSE @]
  IN  /\ at[a] = "parse"
      /\ AtOption(a)
      /\ archivo_entrada' = Take(archivo_entrada, "-p")
      /\ archivo_salida' = Take(archivo_salida, "-o")
      /\ archivo_clave' = Take(archivo_clave, "-k")
      /\ num_hilos' =
           [num_hilos EXCEPT ![a] = IF opt = "-t" THEN Atoi(val) ELSE @]
      /\ error_parametros' = [error_parametros EXCEPT ![a] =
           @ \/ (opt = "-t" /\ a \in EncryptApps /\ Atoi(val) <= 0)]
      /\ i' = [i EXCEPT ![a] = @ + 2]
      /\ UNCHANGED <<input, comando, argumentos, at, told, fresh>>

ParseUnknownAgain(a) ==  \* mutant: i is not incremented
  /\ at[a] = "parse"
  /\ i[a] <= Len(argumentos[a]) /\ ~AtOption(a)
  /\ Tell(a, "usage")
  /\ UNCHANGED <<input, comando, argumentos, i, parsed, at, fresh>>

ParseUnknownGoOn(a) ==  \* mutant: encrypt_app goes on like decrypt_app
  /\ at[a] = "parse"
  /\ i[a] <= Len(argumentos[a]) /\ ~AtOption(a)
  /\ Tell(a, "usage")
  /\ i' = [i EXCEPT ![a] = @ + 1]
  /\ UNCHANGED <<input, comando, argumentos, parsed, at, fresh>>

(* Any other token: encrypt_app gives the command up, decrypt_app goes on  *)
(* with the next token, as its continue belongs to the inner loop.         *)
ParseUnknown(a) ==
  /\ at[a] = "parse"
  /\ i[a] <= Len(argumentos[a]) /\ ~AtOption(a)
  /\ Tell(a, "usage")
  /\ IF a \in EncryptApps
     THEN /\ error_parametros' = [error_parametros EXCEPT ![a] = TRUE]
          /\ i' = [i EXCEPT ![a] = Len(argumentos[a]) + 1]
     ELSE /\ i' = [i EXCEPT ![a] = @ + 1]
          /\ UNCHANGED error_parametros
  /\ UNCHANGED <<input, comando, argumentos, archivo_entrada, archivo_salida,
                 archivo_clave, num_hilos, at, fresh>>

MissingNoThreads(a) ==  \* mutant: decrypt_app does not ask for -t
  NULL \in {archivo_entrada[a], archivo_salida[a], archivo_clave[a]}

(* The mandatory parameters: only decrypt_app counts -t as one.            *)
Missing(a) ==
  \/ NULL \in {archivo_entrada[a], archivo_salida[a], archivo_clave[a]}
  \/ a \in DecryptApps /\ num_hilos[a] <= 0

Rejected(a) ==
  /\ at[a] = "parse"
  /\ i[a] > Len(argumentos[a])
  /\ error_parametros[a] \/ Missing(a)
  /\ error_parametros' = [error_parametros EXCEPT ![a] = TRUE]
  /\ Tell(a, "usage")
  /\ Goto(a, "prompt")
  /\ UNCHANGED <<input, comando, argumentos, i, archivo_entrada,
                 archivo_salida, archivo_clave, num_hilos, fresh>>

Accepted(a) ==
  /\ at[a] = "parse"
  /\ i[a] > Len(argumentos[a])
  /\ ~error_parametros[a] /\ ~Missing(a)
  /\ Goto(a, "syscall")
  /\ UNCHANGED <<input, comando, argumentos, i, parsed, told, fresh>>

(* syscall() comes back, with 0 or an error.                               *)
SyscallReturns(a, ok) ==
  /\ at[a] = "syscall"
  /\ Tell(a, IF ok THEN "success" ELSE "failure")
  /\ Goto(a, "prompt")
  /\ UNCHANGED <<input, comando, argumentos, i, parsed, fresh>>

(* The kernel kills the process in the system call.                        *)
SyscallKills(a) ==
  /\ at[a] = "syscall"
  /\ Goto(a, "killed")
  /\ UNCHANGED <<input, comando, argumentos, i, parsed, told, fresh>>

(* main() between two system calls, and up to the next one.                *)
Command(a) ==
  \/ Salir(a)
  \/ ReadCommand(a)
  \/ ParseOption(a)
  \/ ParseUnknown(a)
  \/ Rejected(a)

Main(a) == Command(a) \/ Accepted(a)
-----------------------------------------------------------------------------
(* The programs over a kernel that does with a call what it likes.         *)
AppsOver ==
  /\ \A a \in Apps : at[a] \in {"ended", "killed"}
  /\ UNCHANGED appVars

AppsNext ==
  \/ \E a \in Apps : Main(a)
  \/ \E a \in Apps : (\E ok \in BOOLEAN : SyscallReturns(a, ok))
                     \/ SyscallKills(a)
  \/ AppsOver

AppsSpec == AppsInit /\ [][AppsNext]_appVars

(* A process runs, and a system call ends.                                 *)
AppsFairness ==
  \A a \in Apps :
    /\ WF_appVars(Main(a))
    /\ WF_appVars((\E ok \in BOOLEAN : SyscallReturns(a, ok))
                  \/ SyscallKills(a))
-----------------------------------------------------------------------------
(* Every variable keeps its type; the loop over the arguments does not run *)
(* off the ten pointers.                                                   *)
AppsTypeOK ==
  /\ input \in [Apps -> Seq(Seq(Fields))]
  /\ comando \in [Apps -> Seq(Fields)]
  /\ argumentos \in [Apps -> Seq(Words)]
  /\ \A a \in Apps : Len(argumentos[a]) <= MaxArguments
  /\ i \in [Apps -> 1 .. MaxArguments + 1]
  /\ \A a \in Apps : i[a] <= Len(argumentos[a]) + 1
  /\ archivo_entrada \in [Apps -> Fields \cup {NULL}]
  /\ archivo_salida \in [Apps -> Fields \cup {NULL}]
  /\ archivo_clave \in [Apps -> Fields \cup {NULL}]
  /\ num_hilos \in [Apps -> Int]
  /\ error_parametros \in [Apps -> BOOLEAN]
  /\ at \in [Apps -> {"prompt", "parse", "syscall", "ended", "killed"}]
  /\ told \in [Apps -> {"nothing", "usage", "success", "failure"}]
  /\ fresh \in [Apps -> BOOLEAN]

Follows(a, opt, v) ==
  \E j \in 1 .. Len(argumentos[a]) - 1 :
    argumentos[a][j] = opt /\ argumentos[a][j + 1] = v

(* All that a system call is given was typed in the command that makes it: *)
(* a parameter missing from a command is not filled in from an earlier     *)
(* one.                                                                    *)
CallIsOneCommand ==
  \A a \in Apps :
    at[a] = "syscall" =>
      /\ Follows(a, "-p", archivo_entrada[a])
      /\ Follows(a, "-o", archivo_salida[a])
      /\ Follows(a, "-k", archivo_clave[a])
      /\ \/ \E v \in Fields : Atoi(v) = num_hilos[a] /\ Follows(a, "-t", v)
         \/ a \in EncryptApps /\ num_hilos[a] = 0

(* A command is executed once: when the input has ended and fgets leaves   *)
(* the last command in the buffer, no system call is made.  Were the       *)
(* buffer not cut by strtok, the command would be executed for ever.       *)
NoCallAfterEnd == \A a \in Apps : at[a] = "syscall" => fresh[a]

(* encrypt_app makes a system call only for a command in which every token *)
(* it kept is an option or the value of one.                               *)
OptionsOnly ==
  \A a \in EncryptApps :
    at[a] = "syscall" =>
      /\ Len(argumentos[a]) % 2 = 0
      /\ \A j \in 1 .. Len(argumentos[a]) :
           j % 2 = 1 => argumentos[a][j] \in Options

(* A system call is made with a positive number of threads.                *)
ThreadsPositive == \A a \in Apps : at[a] = "syscall" => num_hilos[a] > 0

(* decrypt_app never makes my_decrypt divide by zero or ask for a negative *)
(* number of workers; encrypt_app does so only for a command without -t,   *)
(* and then with zero.                                                     *)
ThreadsChecked ==
  \A a \in Apps :
    /\ at[a] = "syscall"
    /\ num_hilos[a] <= 0
    => /\ a \in EncryptApps
       /\ num_hilos[a] = 0
       /\ \A j \in DOMAIN argumentos[a] :
            j % 2 = 1 => argumentos[a][j] # "-t"

(* A program that is still to read the word salir ends, or dies before.    *)
SalirEnds ==
  \A a \in Apps :
    (\E j \in DOMAIN input[a] : input[a][j] = <<"salir">>)
      ~> (at[a] \in {"ended", "killed"})
=============================================================================
