--------------------------- MODULE MCTelegramDaemon ---------------------------
(* Instance of TelegramDaemon for TLC: what the paired chat sends.          *)
EXTENDS TelegramDaemon

Text(a) == [kind |-> "text", to |-> a]
Plain == [kind |-> "plain", to |-> Nobody]
Select(n) == [kind |-> "select", to |-> n]
Cancel(a) == [kind |-> "cancel", to |-> a]

MCScenarios == {[sends |-> <<Text(1), Text(1)>>, tuis |-> 2, ends |-> 1],
                [sends |-> <<Text(1), Cancel(1)>>, tuis |-> 1, ends |-> 2],
                [sends |-> <<Select(1), Plain>>, tuis |-> 1, ends |-> 2],
                [sends |-> <<>>, tuis |-> 2, ends |-> 3]}
=============================================================================
