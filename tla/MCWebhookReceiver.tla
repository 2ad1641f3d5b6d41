-------------------------- MODULE MCWebhookReceiver --------------------------
\* Constants for the model checker: clocks that agree, that differ, and one
\* that is before the epoch when the dispatcher starts.
EXTENDS WebhookReceiver

ClockSkews == {-4, 0, 1}

\* A clock that is half a second behind, and one that agrees.
Behind == {-1}
Agreed == {0}

=============================================================================
