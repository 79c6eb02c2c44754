\* A connection with two requests, and one request with a body of up to three chunks.
SPECIFICATION HttpSpec
CONSTANTS
    MaxRequests = 2
    Methods = {"POST", "PUT"}
    MaxChunks = 3
INVARIANTS AnsweredInOrder ResultsOnce PostAnsweredOnce
PROPERTIES OnlySuccessComesLate RequestsAnswered PostsAnswered
CHECK_DEADLOCK FALSE
