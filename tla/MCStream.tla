------------------------------- MODULE MCStream -------------------------------
(* Stream with fields of one byte and buffers of a few. *)
EXTENDS Stream

MCSchema == (7 :> <<Int32, Vector(String), MapOf(Int32, Int64), SetOf(Int32)>>)
            @@ (8 :> <<>>)

Full  == [id |-> 7, values |-> <<9, << <<5>> >>, 3 :> 300, {2}>>]
Blank == [id |-> 8, values |-> <<>>]

MCPackets == {[cmd |-> 4, cb |-> 0, err |-> 0, msg |-> Full],
              [cmd |-> 5, cb |-> 6, err |-> 0, msg |-> Blank],
              [cmd |-> 0, cb |-> 6, err |-> 2, msg |-> NoMessage],
              [cmd |-> Heart, cb |-> 0, err |-> 0, msg |-> NoMessage]}

===============================================================================
