-------------------------------- MODULE Cli ---------------------------------
(***************************************************************************)
(* The client's command line (src/client_cpp/src/main.cpp): the argument   *)
(* loop, atoi on the numeric options, and the semantics chosen by --sem.   *)
(* Arguments are byte strings as main receives them, because atoi and     *)
(* strcmp work on their bytes.                                             *)
(***************************************************************************)
EXTENDS Integers, Sequences, Strconv

\* The words main compares arguments with, as bytes.
OptServer     == <<45, 45, 115, 101, 114, 118, 101, 114>>              \* "--server"
OptPort       == <<45, 45, 112, 111, 114, 116>>                        \* "--port"
OptSem        == <<45, 45, 115, 101, 109>>                             \* "--sem"
OptTimeout    == <<45, 45, 116, 105, 109, 101, 111, 117, 116>>         \* "--timeout"
OptRetry      == <<45, 45, 114, 101, 116, 114, 121>>                   \* "--retry"
OptHelp       == <<45, 45, 104, 101, 108, 112>>                        \* "--help"
OptH          == <<45, 104>>                                           \* "-h"
SemAtMost     == <<97, 116, 109, 111, 115, 116>>                       \* "atmost"
SemAtMostOnce == <<97, 116, 45, 109, 111, 115, 116, 45, 111, 110, 99, 101>> \* "at-most-once"
LocalHost     == <<49, 50, 55, 46, 48, 46, 48, 46, 49>>                \* "127.0.0.1"

-----------------------------------------------------------------------------
(* The prompts of the menu handlers (client.cpp).  A line is what          *)
(* std::getline returned, without its newline.                             *)

Q    == <<113>>   \* "q"
QCap == <<81>>    \* "Q"

\* readInt: an empty line, "q" or "Q" cancels (false); so does a line
\* stoi throws on, after "Invalid number".
ReadInt(line) ==
    IF line \in {<<>>, Q, QCap} THEN [ok |-> FALSE, val |-> 0] ELSE StoI(line)

\* readDouble: the same with stod, which throws when nothing converts.
ReadDouble(line) ==
    IF line \in {<<>>, Q, QCap} THEN [ok |-> FALSE, val |-> StrToD(<<>>)]
    ELSE [ok |-> StrToD(line).ok, val |-> StrToD(line)]

CNYWords == {<<67, 78, 89>>, <<99, 110, 121>>}   \* "CNY", "cny"
SGDWords == {<<83, 71, 68>>, <<115, 103, 100>>}  \* "SGD", "sgd"

\* readCurrency over the lines the user types: it asks again after any
\* other answer, and returns 0xFFFF for "q" or "Q", else the Currency code.
\* Every sequence of answers given to it ends with an accepted one.
ReadCurrency(lines) ==
    LET i == SelectInSeq(lines, LAMBDA l : l \in {Q, QCap} \cup CNYWords \cup SGDWords)
    IN  CASE i = 0                  -> Assert(FALSE, "readCurrency: no accepted answer")
          [] lines[i] \in {Q, QCap} -> 65535
          [] lines[i] \in CNYWords  -> 0
          [] lines[i] \in SGDWords  -> 1

-----------------------------------------------------------------------------
(* main.                                                                   *)

ClientDefaults ==
    [server |-> LocalHost, port |-> 9000, sem |-> SemAtMost, timeoutMs |-> 500,
     retry |-> 5, help |-> FALSE]

\* The for loop over argv[1 ..]: an option followed by a value takes it;
\* --help or -h prints the usage and returns 0; any other argument, and an
\* option that is the last argument, is passed over without a word.
RECURSIVE ClientArgs(_, _, _)
ClientArgs(args, i, cfg) ==
    IF i > Len(args) THEN cfg
    ELSE LET a   == args[i]
             has == i < Len(args)
             v   == IF has THEN args[i + 1] ELSE <<>>
         IN  CASE has /\ a = OptServer  -> ClientArgs(args, i + 2, [cfg EXCEPT !.server = v])
               [] has /\ a = OptPort    -> ClientArgs(args, i + 2, [cfg EXCEPT !.port = AtoI(v)])
               [] has /\ a = OptSem     -> ClientArgs(args, i + 2, [cfg EXCEPT !.sem = v])
               [] has /\ a = OptTimeout -> ClientArgs(args, i + 2, [cfg EXCEPT !.timeoutMs = AtoI(v)])
               [] has /\ a = OptRetry   -> ClientArgs(args, i + 2, [cfg EXCEPT !.retry = AtoI(v)])
               [] a \in {OptHelp, OptH} -> [cfg EXCEPT !.help = TRUE]
               [] OTHER                 -> ClientArgs(args, i + 1, cfg)

\* What main hands to the Client constructor: the parsed options, and
\* at-most-once exactly when --sem is "atmost" or "at-most-once" (any other
\* word, "atleast" or a misspelling, gives at-least-once).
ClientConfig(args) ==
    LET cfg == ClientArgs(args, 1, ClientDefaults)
    IN  [timeoutMs  |-> cfg.timeoutMs,
         retry      |-> cfg.retry,
         atMostOnce |-> cfg.sem \in {SemAtMost, SemAtMostOnce},
         runs       |-> ~cfg.help]

=============================================================================
