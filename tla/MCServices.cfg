\* One post, two tabs, one zone, two concerts, one reservation; two calls in progress at once (three in the tabs).
SPECIFICATION ServicesSpec
CONSTANTS
    Posts = {p1}
    Requests = {q1, q2}
    NoPost = NoPost
    NoRequest = NoRequest
    t1 = t1
    t2 = t2
    call1 = call1
    call2 = call2
    call3 = call3
    Tabs = {t1, t2}
    Calls = {call1, call2, call3}
    TabOf <- MCTabOf
    FormTabs = {t2}
    Nobody = Nobody
    MaxTokens = 2
    c1 = c1
    z1 = z1
    Concerts = {c1}
    Zones = {z1}
    ConcertOf <- MCConcertOf
    Quantities = {1, 2}
    PageConcerts = {c1, c2}
    Reservations = {r1}
    NoConcert = NoConcert
    NoZone = NoZone
    NoReservation = NoReservation
INVARIANTS
    TypesOK
    AnswerAndStatusAgree
    DeletingIsOneCall
    RepliesListed
    SoldSeatsStayOut
    RemainCoversStock
    SavingIsOneCall
    PanelShowsSelected
    OneDeletionAtATime
    ExchangedOnce
    TabNeverRacesItself
    WaitersAreBehindRefresh
    ChargedOnce
    ChargedAsReserved
    CancelledNotOffered
PROPERTIES
    AnsweredDeletedOnlyInRace
    DeletingEnds
CHECK_DEADLOCK FALSE
