----------------------------- MODULE MCGateway -----------------------------
(* Gateway on small instances: constants for TLC.                          *)
EXTENDS Gateway

CONSTANTS k1, c1, c2, ch1, ch2, gpt

All(n) == [m \in Metrics |-> n]

MCDefaultLimits == [rpm |-> 1, tpm |-> 3, rpd |-> 2, tpd |-> 9]

\* Enough for one request.
MCSmallKey == {[balance |-> 1, limits |-> All(0), active |-> TRUE]}

\* Enough for one request and enough for two.
MCCreateRequests == {[balance |-> b, limits |-> All(0), active |-> TRUE] : b \in {1, 2}}

MCUsages == {[input |-> 1, output |-> 1, total |-> 2], [input |-> 0, output |-> 0, total |-> 2]}

OneKey == [c \in Callers |-> k1]

Ask(endpoint) == [endpoint |-> endpoint, modelID |-> gpt, valid |-> TRUE]

\* Every handler, one request after the other.
EveryRequest == {Ask(e) : e \in Endpoints} \cup {[Ask("chat") EXCEPT !.valid = FALSE]}

\* The two ways through a handler: to the settlement, and past it.
TwoRequests == {Ask("responses"), Ask("chat stream")}

ChatRequests == {Ask("chat"), Ask("chat stream"), [Ask("chat") EXCEPT !.valid = FALSE]}

\* Channels that all serve the model, the first preferred and cheaper.  Only
\* Gemini requests look at the type of a channel.
MCStartChannels ==
  [i \in Channels |->
     [deleted |-> FALSE,
      is |-> [name |-> i, kind |-> IF i = ch1 THEN "gemini" ELSE "openai",
              priority |-> IF i = ch1 THEN 0 ELSE 1, active |-> TRUE]]]

Price(n) == [input |-> n, output |-> n]

MCPrices == {Price(1), Price(2)}

MCStartModels ==
  [m \in ModelRows |->
     [deleted |-> FALSE,
      is |-> [channel |-> IF m = 1 THEN ch1 ELSE ch2, modelID |-> gpt,
              price |-> Price(m), active |-> TRUE]]]

=============================================================================
