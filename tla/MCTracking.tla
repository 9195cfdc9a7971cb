---------------------------- MODULE MCTracking ----------------------------
(***************************************************************************)
(* An instance of Tracking for TLC: complete events, events that lack what  *)
(* get_payload wants, and a self-describing event whose JSON is not UTF-8, *)
(* with texts of all lengths modulo three that hold the characters the     *)
(* encodings treat specially and UTF-8 of every length, and with text that *)
(* is not UTF-8, cut short or a surrogate, in places where it is found out *)
(* at different times.                                                     *)
(***************************************************************************)
EXTENDS Tracking

CONSTANTS s1, s2

Plainly == [subject |-> {}, context |-> << >>, true_timestamp |-> {}]

Play == [kind |-> "structured", category |-> <<109>>, action |-> <<61, 37>>,
         label |-> {<<38, 226, 130, 172>>}, property |-> {<< >>}, value |-> {<<49>>}] @@ Plainly
NoAction == [Play EXCEPT !.action = << >>]

Loading == [kind |-> "timing", category |-> <<43, 47>>, variable |-> <<63>>,
            timing |-> <<56>>, label |-> {}, subject |-> {s2},
            context |-> << <<123, 37, 38, 125>> >>, true_timestamp |-> {<<50>>}]

Home == [kind |-> "screen_view", id |-> {<<195, 191, 62>>}, name |-> {<<240, 159, 152, 128>>},
         subject |-> {s1}, context |-> << >>, true_timestamp |-> {}]
Nowhere == [Home EXCEPT !.id = {}, !.name = {}]

Garbled == [kind |-> "self_describing", event |-> <<123, 195, 125>>] @@ Plainly
Untyped == [kind |-> "custom", type |-> << >>] @@ Plainly

MCEventData == {Play, NoAction, Loading, Home, Nowhere, Garbled, Untyped}

MCTrackers ==
  {[subject |-> {s1}, use_base64 |-> TRUE, desktop_context |-> FALSE,
    client_session |-> TRUE, method |-> "GET"],
   [subject |-> {}, use_base64 |-> FALSE, desktop_context |-> TRUE,
    client_session |-> FALSE, method |-> "POST"]}

MCSubjects == s1 :> (Key.uid :> <<97>> @@ Key.lang :> <<101>>) @@ s2 :> (Key.uid :> <<61>>)

MCAttribute == {Key.uid}
MCValue == {<<97, 38>>, <<237, 160, 128>>}

Symmetry == Permutations(Thread)
=============================================================================
