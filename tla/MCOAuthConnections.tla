-------------------------- MODULE MCOAuthConnections --------------------------
(* OAuthConnections on a small instance. *)
EXTENDS OAuthConnections, TLC

CONSTANTS h1, h2, t1

Calm == [configured |-> TRUE, rotates |-> TRUE, duties |-> [p \in Processes |-> {}],
         scope |-> [p \in Processes |-> Global],
         flows |-> {"authorization_code"}, clients |-> {"c1"}, tokens |-> 2, disruptions |-> 0]
Connecting == {"create", "authorize", "callback"}

\* Requests that overlap, two processes at a time.
Overlaps ==
    {[Calm EXCEPT !.duties[h1] = Connecting, !.duties[h2] = {"update"}, !.tokens = 1],
     [Calm EXCEPT !.duties[h1] = Connecting, !.duties[h2] = {"delete"}, !.tokens = 1],
     [Calm EXCEPT !.duties[h1] = Connecting \cup {"refresh"}, !.duties[h2] = {"refresh"}],
     [Calm EXCEPT !.duties[h1] = {"create", "delete"}, !.duties[h2] = {"update"}],
     [Calm EXCEPT !.duties[h1] = {"create", "refresh"}, !.duties[h2] = {"update", "delete"},
                  !.flows = {"client_credentials"}, !.clients = Clients]}

\* Any sequence of requests, without overlaps but of the timer.
Sequences ==
    {[Calm EXCEPT !.duties[h1] = Kinds \ {"refresh"}, !.clients = Clients, !.tokens = 1],
     [Calm EXCEPT !.duties[h1] = Kinds, !.flows = Flows, !.disruptions = 1],
     [Calm EXCEPT !.duties[h1] = Kinds, !.flows = Flows, !.clients = Clients, !.configured = FALSE]}

Sweeps ==
    {[Calm EXCEPT !.duties[h1] = Connecting, !.duties[t1] = {"sweep"}, !.disruptions = 1,
                  !.rotates = FALSE],
     [Calm EXCEPT !.duties[h1] = {"create", "delete"}, !.duties[t1] = {"sweep"},
                  !.flows = {"client_credentials"}, !.disruptions = 1]}

\* An organization without a connection of its own, and with one.
Organizations ==
    {[Calm EXCEPT !.duties[h1] = Connecting, !.scope[h2] = "org",
                  !.duties[h2] = {"authorize", "update", "cancel", "refresh", "delete"}],
     [Calm EXCEPT !.duties[h1] = {"create", "callback"}, !.scope[h2] = "org", !.tokens = 1,
                  !.duties[h2] = {"create", "authorize", "refresh", "delete"}]}

SettingsChecked == Overlaps \cup Sequences \cup Sweeps \cup Organizations
=============================================================================
