---- MODULE MCResourceCache ----
EXTENDS ResourceCache
\* Two accounts with one resource each that may come and go.
MCPlaces == {<<"a", "r">>, <<"a", "q">>, <<"b", "r">>}
MCKinds == Regional \cup Fanned \cup {Managed, FromAwsConfig} \cup OfOrganizations
====
