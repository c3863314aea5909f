------------------------------ MODULE MCPostman ------------------------------
EXTENDS PostmanCollection

Ask(service, operation, uses, saves, usual) ==
    [custom |-> FALSE, service |-> service, operation |-> operation,
     url |-> [method |-> "get", path |-> operation],
     uses |-> uses, saves |-> saves, optional |-> saves \cap {"refresh_token"},
     expect |-> Unset, accept |-> <<>>, usual |-> usual, gives |-> saves]
Expecting(r) == [r EXCEPT !.expect = r.usual]

\* The requests of overlay.json that save or use a variable; one of the two
\* grants that return a refresh token, and three of the seven of folder 2.
Client == {"client_id", "client_secret"}
Health == Expecting([Ask("auth", "health", {}, {}, 200) EXCEPT !.custom = TRUE])
Register == [Ask("auth", "register", {}, {"auth_user_id"}, 201) EXCEPT !.accept = <<201, 409>>]
RegisterClient == Ask("auth", "register_client", {}, Client, 201)
OtherRequests == <<
    Ask("auth", "authorize", {"client_id"}, {"auth_code"}, 200),
    Ask("auth", "token", Client \cup {"auth_code"}, {"access_token", "refresh_token"}, 200),
    Ask("auth", "token", Client, {"access_token"}, 200),
    Expecting(Ask("auth", "revoke", Client \cup {"refresh_token"}, {}, 200)),
    Expecting(Ask("user", "create_user", {"access_token"}, {"user_id"}, 201)),
    Expecting(Ask("user", "get_user", {"access_token", "user_id"}, {}, 200)),
    Expecting(Ask("user", "delete_user", {"access_token", "user_id"}, {}, 204))>>

Shipped == <<Health, Register, RegisterClient>> \o OtherRequests
\* The overlay with "expect_status": 201 at request 1.2.
Repaired == <<Health, Register, Expecting(RegisterClient)>> \o OtherRequests

Entry(id, method) == [id |-> id, method |-> method, path |-> id]
AuthSpec == {Entry(id, "post") : id \in
    {"register", "register_client", "authorize", "token", "revoke"}}
UserSpec == {Entry("create_user", "post"), Entry("get_user", "get"), Entry("delete_user", "delete")}
Published == [s \in {"auth", "user"} |-> IF s = "auth" THEN {AuthSpec} ELSE {UserSpec}]
\* A later release has lost an operationId, or moved one to another method.
Evolving == [s \in {"auth", "user"} |->
    IF s = "auth" THEN {AuthSpec, (AuthSpec \ {Entry("revoke", "post")})
        \cup {[Entry("revoke", "post") EXCEPT !.id = NoId]}}
    ELSE {UserSpec, (UserSpec \ {Entry("get_user", "get")}) \cup {Entry("get_user", "head")}}]
=============================================================================
