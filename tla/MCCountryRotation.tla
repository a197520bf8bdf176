------------------------- MODULE MCCountryRotation -------------------------
EXTENDS CountryRotation, TLC

CONSTANTS us, de, fr

MCCountries == {us, de, fr}

\* A small list, a blacklist that leaves one country, a list nobody is in,
\* no rotation at all, and more rotations than instances.
MCConfigs ==
  { [enabled |-> TRUE, accepted |-> {us, de}, blacklisted |-> {}, total |-> 1],
    [enabled |-> TRUE, accepted |-> {us, de, fr}, blacklisted |-> {us, de}, total |-> 3],
    [enabled |-> FALSE, accepted |-> {fr, us}, blacklisted |-> {}, total |-> 2],
    [enabled |-> TRUE, accepted |-> {us, de, fr}, blacklisted |-> {fr}, total |-> 0] }

Symmetry == Permutations(Instances)
=============================================================================
