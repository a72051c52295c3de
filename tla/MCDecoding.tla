------------------------------ MODULE MCDecoding ------------------------------
(* Values for the constants of the decoding modules. *)
EXTENDS Integers, Sequences

MCTokens == {0, 1}

(* An arbitrary argmax that depends on every token seen and on its position. *)
MCTarget(view) ==
  LET sum[i \in 0 .. Len(view)] ==
        IF i = 0 THEN 0
        ELSE sum[i - 1] + (2 * view[i].tok + 1) * (view[i].pos + 2) * (view[i].pos + i)
  IN (sum[Len(view)] \div 3) % 2

(* Two rows of two tenants, and of one. *)
MCRoutings == {<<"t1", "t2">>, <<"t1", "t1">>}

MCPrompts == {<<0, 1>>, <<1, 1>>, <<1, 0, 0>>}
=============================================================================
