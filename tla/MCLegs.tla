------------------------------- MODULE MCLegs --------------------------------
\* A token set-up for both operators, a measured leg of three transactions, a set-up
\* in between and a last measured leg: senders meet again after a leg went wrong.
EXTENDS AgreementLegs

MCSections == <<[measured |-> FALSE, specs |-> <<"a">>],
                [measured |-> TRUE, specs |-> <<"a", "b", "a">>],
                [measured |-> FALSE, specs |-> <<"b">>],
                [measured |-> TRUE, specs |-> <<"a", "a">>]>>

MCLegList == LegsOfDriver(MCSections)
==============================================================================
