----------------------------- MODULE MCStartup -----------------------------
(* Startup for TLC: configuration files and paths around the edges.        *)
EXTENDS Startup

pool(class, size) == [resourceClass |-> class, poolSize |-> size]
tmpl(pools) == [rootfs |-> TRUE, checkpoint |-> TRUE, pools |-> pools]
one == <<"a">> :> tmpl(<<pool(<<"s">>, 1)>>)

class(name, cpu, memory) == [name |-> name, cpu |-> cpu, memory |-> memory]
abs(segments) == [absolute |-> TRUE, segments |-> segments]
rel(segments) == [absolute |-> FALSE, segments |-> segments]

\* Templates over the default classes: several pools, two entries of one class,
\* negative and large max_pending, and what Validate refuses.
templateFiles ==
  { [mode |-> "none", templates |-> t] : t \in
    { one,
      <<"a">> :> tmpl(<<pool(<<"s">>, 1), pool(<<"m">>, 2)>>) @@ <<"b">> :> tmpl(<<pool(<<"s">>, 1)>>),
      <<"a">> :> tmpl(<<pool(<<"s">>, 2), pool(<<"s">>, 1)>>),
      <<"a">> :> tmpl(<<[maxPending |-> -1] @@ pool(<<"s">>, 3)>>),
      <<"a">> :> tmpl(<<[maxPending |-> 7, preRestore |-> FALSE] @@ pool(<<"l">>, 3)>>),
      <<"a">> :> tmpl(<<pool(<<"s">>, 0)>>),
      <<"a">> :> tmpl(<<[poolSize |-> 1]>>),
      <<"a">> :> tmpl(<<pool(<<"x">>, 1)>>),
      <<"a">> :> tmpl(<< >>),
      <<"a">> :> [tmpl(<<pool(<<"s">>, 1)>>) EXCEPT !.rootfs = FALSE],
      << >> } }

\* Classes: other limits, two of one name, limits left out, a quota that the
\* kernel refuses, a fourth class; names that run together in keys and IDs.
classFiles ==
  { [mode |-> "none", templates |-> one, resourceClasses |-> c] : c \in
    { <<class(<<"s">>, 100, 64)>>,
      <<class(<<"s">>, 100, 64), class(<<"s">>, 200, 32)>>,
      <<[name |-> <<"x">>], [name |-> <<"s">>]>>,
      <<class(<<"m">>, 100, 64), class(<<"s">>, 9, 64)>>,
      <<class(<<"x">>, 10, 1), class(<<"y">>, 10, 1), class(<<"z">>, 10, 1), [name |-> <<"s">>, cpu |-> 10]>>,
      << >> } }

nameFiles ==
  { [mode |-> "none", templates |-> f[1], resourceClasses |-> f[2]] : f \in
    { << <<"a">> :> tmpl(<<pool(<<"b", "c">>, 1)>>) @@ <<"a", "b">> :> tmpl(<<pool(<<"c">>, 2)>>),
         <<class(<<"c">>, 10, 1), class(<<"b", "c">>, 10, 1)>> >>,
      << <<"a">> :> tmpl(<<pool(<<"b", "-", "c">>, 1)>>) @@ <<"a", "-", "b">> :> tmpl(<<pool(<<"c">>, 2)>>),
         <<class(<<"c">>, 10, 1), class(<<"b", "-", "c">>, 10, 1)>> >>,
      << <<"a">> :> tmpl(<<pool(<<"b", "/", "c">>, 1)>>) @@ <<"a", "/", "b">> :> tmpl(<<pool(<<"c">>, 2)>>),
         <<class(<<"c">>, 10, 1), class(<<"b", "/", "c">>, 10, 1)>> >>,
      << <<"a", "/", "b">> :> tmpl(<<pool(<<"c">>, 1)>>) @@ <<"a", "-", "b">> :> tmpl(<<pool(<<"c">>, 2)>>),
         <<class(<<"c">>, 10, 1)>> >> } }

networkFiles ==
  {[templates |-> one], [templates |-> one, subnet |-> "10.89.0.0/16"],
   [templates |-> one, subnet |-> ""], [templates |-> one, pluginDir |-> FALSE],
   [templates |-> one, runscPath |-> FALSE]}

dirFiles ==
  { [mode |-> "none", templates |-> one, checkpointDirs |-> d] : d \in
    { {abs(<< <<"a">> >>)}, {abs(<< >>)}, {rel(<< <<"a">> >>)},
      {abs(<< <<"a">>, <<".", ".">>, <<"a", "b">> >>), abs(<< <<"a">>, <<"a">> >>)} } }

MCFiles == templateFiles \cup classFiles \cup nameFiles \cup networkFiles \cup dirFiles

MCPaths ==
  LET segments == {<<"a">>, <<"a", "b">>, <<".">>, <<".", ".">>, << >>}
      upTo3 == UNION {[1 .. n -> segments] : n \in 0 .. 3}
  IN  {abs(s) : s \in upTo3} \cup {rel(s) : s \in upTo3}

MCCwd == << <<"a">> >>

=============================================================================
