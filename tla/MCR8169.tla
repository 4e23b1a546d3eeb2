------------------------------ MODULE MCR8169 -------------------------------
EXTENDS R8169Inv

CONSTANTS q1, q2, q3

\* Three receive buffers, the first of which is also sent.
Buffers == {<<"rx", q1>>, <<"rx", q2>>, <<"rx", q3>>, <<"tx", q1>>}

\* One packet is sent.
Sending == {<<"tx", q1>>}

\* The second buffer is reported: no completion is lost between the
\* acknowledge, the scan of the ring and the next interrupt, and only tx_lock
\* can prevent the report.  For the third the same follows by symmetry.
RxReported == Reported(q2)
=============================================================================
