------------------------------- MODULE MCLogging -------------------------------
(***************************************************************************)
(* Instances of Logging for TLC.                                           *)
(***************************************************************************)
EXTENDS Logging, TLC

PortNumbers == ("27016" :> 27016) @@ ("92550" :> 92550)

\* Lines that set the flag or the address, and lines that look like it.
FlagLines ==
    {<<k>> \o sep \o v \o tail :
        k \in Flag \cup {"other"},
        sep \in {<<"=">>, <<" ", "=", " ">>, <<" ">>},
        v \in {<<"TRUE">>, <<"FALSE">>, <<>>},
        tail \in {<<>>, <<" ">>, <<"=", "TRUE">>}}

AddressLines ==
    {<<" ", k, "=", " ">> \o v :
        k \in Address,
        v \in {<<"ip", ":", "27016">>, <<"ip", " ", ":", " ", "92550">>,
               <<"ip", ":", "27016", ":", "92550">>, <<"ip">>,
               <<"ip", ".", "ip", ":", "27016">>, <<":">>}}

ConfigLines == FlagLines \cup AddressLines \cup {<<>>}

\* Two lines about the same thing, with either kind of line end, or with a
\* line between them that is cut where it says nothing.
ConfigFiles ==
    {l1 \o <<e>> \o l2 : l1, l2 \in AddressLines \cup {<<>>}, e \in LineEnd}
    \cup {l1 \o e \o l2 : l1 \in FlagLines,
              e \in {<<"newline">>,
                     <<"newline", "other", "char 255", "newline">>},
              l2 \in {<<"LOG_DEBUG", "=", "FALSE">>,
                      <<"LOG_ERROR", " ", "=", "TRUE", "newline">>,
                      <<"CONNECTION_IN", "=", "ip", ":", "92550">>}}

\* A run of the program that only reads its configuration, or one that logs
\* with the configuration of the repository.
Environments ==
    {[file |-> f, lines |-> 1] : f \in ConfigFiles \cup {Missing}}
    \cup {[file |-> <<"LOG_ERROR", " ", "=", " ", "TRUE", "newline",
                      "CONNECTION_IN", " ", "=", " ", "ip", ":", "27016">>,
           lines |-> 6]}
=============================================================================
