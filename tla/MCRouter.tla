------------------------------ MODULE MCRouter ------------------------------
(* Up to three routes, with patterns of one url and of both. *)
EXTENDS Router

CONSTANTS get, post, u, v, one, any, g, h

MCMethods == {get, post}
MCUrls == {u, v}
MCPatterns == {one, any}
MCUrlsOf == [p \in MCPatterns |-> IF p = one THEN {u} ELSE MCUrls]
MCHandlers == {g, h}

=============================================================================
