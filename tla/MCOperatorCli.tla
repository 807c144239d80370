--------------------------- MODULE MCOperatorCli ---------------------------
(* Small instances of the operators' command line for TLC. *)
EXTENDS OperatorCli, MCEstablished

CONSTANT msol

FileOf(theta, sigma, flag, ltv) ==
    [lst_id |-> msol, theta |-> theta, sigma |-> sigma, regime_flag |-> flag,
     suggested_ltv |-> ltv]

\* Ten steps of a file to a unit: an LTV that is rounded and one above the
\* range, and a sigma too small to be stored.
OneFile    == {FileOf(10, 14, 0, 76)}
MixedFiles == OneFile \cup {FileOf(0, 5, 1, 130), FileOf(10, 4, 0, 76)}

FilePayloads == {ParamsOf(file) : file \in Files}

\* From a running deployment, and from an empty chain.
StatusSpec == CliInit(EstablishedInit \/ Init) /\ [][CliNext]_cliAllVars

\* Rounds, disputes and the turnover of attesters over feeds that stay open,
\* the disputes filed and resolved with the command line.
DisputesCliNext ==
    \/ AttesterCommand
    \/ DisputeCommand
    \/ /\ \/ \E k \in RoundKeys : CancelExpired(k)
          \/ \E k \in RoundKeys, a \in Suspects : CloseExpiredDispute(k, a)
          \/ Tick /\ UNCHANGED oracleVars
       /\ UNCHANGED cliVars
DisputesCliSpec == CliInit(EstablishedInit) /\ [][DisputesCliNext]_cliAllVars

=============================================================================
