---------------------------- MODULE MC_AuthChain ----------------------------
(* Instantiation of AuthChain for TLC.  Paths are strings over "/", "a"    *)
(* and "b"; the allowlist mirrors the shapes of buildHandlerChain's list:  *)
(* an exact path with the same path and a sub-tree as prefix ("/apidocs",  *)
(* "/apidocs/*"), a prefix-only sub-tree ("/ai-apis/config.ai.io/*") and,  *)
(* written without the leading slash, another prefix.                       *)
EXTENDS AuthChain

MC_AllowPaths == {<<"/", "a">>, <<"/", "a", "/", "*">>, <<"b", "/", "*">>}
MC_PathChars == {"/", "a", "b"}

\* Requests with cookies are explored on one path the allowlist does not
\* cover, where the identity decides; the violation run needs none.
MC_CookiePaths == {<<"/", "b">>}
MC_NoCookiePaths == {}

\* The shipped order, and the members ordered as the specification lists
\* the verifiers, the weakest (Anonymous) last.
MC_WeakestLast == <<"basic", "bearer", "anonymous">>
MC_Orders == {ShippedAuthenticators, MC_WeakestLast}
MC_ShippedOrder == {ShippedAuthenticators}
=============================================================================
