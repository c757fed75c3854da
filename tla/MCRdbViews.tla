----------------------------- MODULE MCRdbViews -----------------------------
(* Three sessions and the shapes their waits can have.                     *)
EXTENDS RdbViews, TLC
CONSTANTS s1, s2, s3, u1
Shapes ==
  { {}, {<<s2, s1>>}, {<<s2, Unknown>>},        \* nothing, a pair, no holder known
    {<<s2, s1>>, <<s3, s2>>},                   \* a chain
    {<<s2, s1>>, <<s3, s1>>},                   \* a fork
    {<<s3, s1>>, <<s3, s2>>},                   \* one waits for two
    {<<s2, s1>>, <<s3, s1>>, <<s3, s2>>},       \* the same, one of them waiting too
    {<<s2, s1>>, <<s3, Unknown>>},              \* a pair and one without holder
    {<<s2, s3>>, <<s3, s2>>, <<s2, s1>>},       \* a cycle blocked from outside
    {<<s1, s2>>, <<s2, s1>>},                   \* a cycle
    {<<s1, s2>>, <<s2, s1>>, <<s3, s1>>},       \* a cycle that blocks another
    {<<s1, s2>>, <<s2, s1>>, <<s3, Unknown>>} } \* a cycle beside a chain
=============================================================================
