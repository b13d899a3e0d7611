---------------------- MODULE MCChannelEstablishment ------------------------
(***************************************************************************)
(* Instances of ChannelEstablishment for TLC: two clients, a and b.        *)
(***************************************************************************)
EXTENDS ChannelEstablishment, TLC

CONSTANTS a, b

\* a calls b: twice if there are channels enough
OneWay == {<<a, b>>}

\* a and b call each other
BothWays == {<<a, b>>, <<b, a>>}

Symmetry == Permutations(Channel)
=============================================================================
