\* Three requests over one payment.
SPECIFICATION Spec
CONSTANTS
    Requests <- MCRequests
    TxOf <- MCTxOf
    Payers <- MCPayers
    FirstBalance = 2
    MaxElections = 1
INVARIANTS
    TypeOK
    AnswerMeansPaid
    PaidMeansPublished
    NoncesPayOnce
    PaymentIsSentOnce
PROPERTIES
    EveryRequestIsAnswered
\* All requests are answered in the end.
CHECK_DEADLOCK FALSE
