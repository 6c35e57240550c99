----------------------------- MODULE ServerCli -----------------------------
(***************************************************************************)
(* The servers' command line (main of src/z_server_cpp/src/main.cpp; the  *)
(* loop of src/server_cpp/src/main.cpp is the same text) and what the     *)
(* loss options do: each datagram is dropped when uni(rng) < p, with uni  *)
(* uniform over [0, 1).                                                   *)
(***************************************************************************)
EXTENDS Integers, Sequences, Strconv

OptPort    == <<45, 45, 112, 111, 114, 116>>                        \* "--port"
OptLossReq == <<45, 45, 108, 111, 115, 115, 82, 101, 113>>          \* "--lossReq"
OptLossRep == <<45, 45, 108, 111, 115, 115, 82, 101, 112>>          \* "--lossRep"

\* The for loop over argv[1 ..]: a known option followed by a value takes
\* it; anything else prints the usage and main returns 1.
RECURSIVE ServerArgs(_, _, _)
ServerArgs(args, i, cfg) ==
    IF i > Len(args) THEN cfg
    ELSE LET a   == args[i]
             has == i < Len(args)
             v   == IF has THEN args[i + 1] ELSE <<>>
         IN  CASE has /\ a = OptPort    -> ServerArgs(args, i + 2, [cfg EXCEPT !.port = AtoI(v)])
               [] has /\ a = OptLossReq -> ServerArgs(args, i + 2, [cfg EXCEPT !.lossReq = StrToD(v)])
               [] has /\ a = OptLossRep -> ServerArgs(args, i + 2, [cfg EXCEPT !.lossRep = StrToD(v)])
               [] OTHER                 -> [cfg EXCEPT !.runs = FALSE]

\* port 9000, lossReq 0.0, lossRep 0.0.
ServerConfig(args) ==
    ServerArgs(args, 1, [port |-> 9000, lossReq |-> StrToD(<<48>>), lossRep |-> StrToD(<<48>>),
                         runs |-> TRUE])

\* The outcomes of uni(rng) < p over u in [0, 1): never for p <= 0, -inf
\* or NaN (every comparison with NaN is false); always for p >= 1 or +inf;
\* either way in between.
Draws(p) ==
    CASE p.kind = "nan"                  -> {FALSE}
      [] p.neg \/ (p.kind = "num" /\ p.num = 0) -> {FALSE}
      [] p.kind = "inf" \/ p.num >= p.den -> {TRUE}
      [] OTHER                            -> BOOLEAN

=============================================================================
