------------------------------- MODULE MCCtc --------------------------------
(***************************************************************************)
(* An instance of Ctc for TLC: one process that resets nodes or is given   *)
(* lines of every other kind, and one that starts the node or stops it.    *)
(***************************************************************************)
EXTENDS Ctc, TLC

CONSTANTS p1, p2, n1

NoFile == -1
HostOf == [node1 |-> n1]
NumberOf == [one |-> 1, two |-> 2, seven |-> 7]

Arguments(words) == [i \in 1 .. Len(words) |-> <<"", words[i]>>]
Line(option, word, words) == <<<<option, word>>>> \o Arguments(words)

Commands == {Line("c", "reset_conf", <<"conf", "nowhere", "node1">>),
             Line("c", "stop", <<"node1">>)}

Others == {Line("c", "reset_conf", <<>>),
           Line("c", "reset_conf", <<"conf">>),
           Line("c", "restart", <<"node1">>),
           Line("c", "start", <<"nowhere">>),
           Line("c", "kill_conn", <<"node1">>),
           Arguments(<<>>),
           Arguments(<<"membership">>),
           Arguments(<<"node1", "start">>),
           Arguments([i \in 1 .. 9 |-> "node1"]),
           Line("p", "quorum", <<>>),
           Line("m", "membership", <<>>),
           Line("m", "memory", <<>>),
           Line("q", "set_votes", <<>>),
           Line("q", "set_votes", <<"one">>),
           Line("q", "set_votes", <<"one", "seven">>),
           Line("q", "set_votes", <<"two", "many">>),
           Line("q", "get_votes", <<"one">>)}

\* The address precedes the option, and getopt moves it behind.
AddressFirst == <<<<"", "node1">>, <<"c", "start">>>>

LinesOf == p1 :> Commands \cup Others
        @@ p2 :> {AddressFirst, Line("c", "stop", <<"node1">>)}
=============================================================================
