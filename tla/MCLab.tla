------------------------------- MODULE MCLab -------------------------------
(* Lab with two symbols, of which the first has more bars, and parameters   *)
(* small enough that every strategy trades.                                 *)
EXTENDS Lab

MCUniverse == <<1, 2>>
MCStrategy ==
  {[key |-> "sma-cross", fast |-> 1, slow |-> 2],
   [key |-> "rsi-reversion", period |-> 1, oversold |-> 30, overbought |-> 70],
   [key |-> "donchian-breakout", period |-> 1],
   [key |-> "bollinger-reversion", period |-> 3, sigma |-> <<1, 1>>],
   [key |-> "macd-cross", fast |-> 1, slow |-> 2, signal |-> 2],
   [key |-> "momentum-rotation", long |-> 2, short |-> 1, top |-> 1]}
MCGrid(key) ==
  LET default == CHOOSE p \in MCStrategy : p.key = key
  IN CASE key = "donchian-breakout" -> <<[default EXCEPT !.period = 2], default>>
       [] key = "rsi-reversion" ->
            <<default, [default EXCEPT !.period = 2],
              [default EXCEPT !.oversold = 60, !.overbought = 60]>>
       [] key = "sma-cross" -> <<default, [default EXCEPT !.slow = 3]>>
       [] OTHER -> <<default>>

Intent(side, q, limit) == <<[symbol |-> 1, side |-> side, quantity |-> q, limit |-> limit]>>
MCScripts ==
  {<<>>, Intent("buy", 2, 0), Intent("buy", 30, 0), Intent("buy", 1, 2),
   Intent("sell", 1, 0), Intent("sell", 2, 3)}
MCCloses == {2, 3}
MCStored(p) ==
  IF p.key = "generated" THEN {<<3, 1>>, <<3, 0>>}
  ELSE {<<5, 3>>, <<4, 2>>, <<0, 3>>}
Bar(s, c) == [symbol |-> s, close |-> c]
MCFeeds ==
  {<<>>, <<Bar(1, 2), Bar(2, 2)>>} \cup
  {<<Bar(2, 2)>> \o bars : bars \in [1 .. 10 -> {Bar(1, c) : c \in MCCloses}]}
=============================================================================
