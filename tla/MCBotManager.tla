---------------------------- MODULE MCBotManager ----------------------------
(* Instances of BotManager for TLC.                                        *)
EXTENDS BotManager, TLC

CONSTANTS sA, sB, c1, c2, k1, k2, h1

Text(tA, cA, tB, cB, ok, say) ==
    [token   |-> [s \in Servers |-> IF s = sA THEN tA ELSE tB],
     channel |-> [s \in Servers |-> IF s = sA THEN cA ELSE cB],
     allowed |-> ok, relay |-> say]

\* Two servers with a bot each; one bot for both; channels swapped; one
\* server without Discord; two servers that claim the same channel.
FewTexts == {Text(k1, c1, k2, c2, {sA}, {sB}), Text(k1, c1, k1, c2, {sA, sB}, {}),
             Text(k1, c2, k2, c1, {sB}, {sA}), Text(k2, c1, Empty, Empty, {}, {sA}),
             Text(k1, c1, k1, c1, {sA}, {sA, sB})}
=============================================================================
