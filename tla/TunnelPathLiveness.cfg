CONSTANTS
    Subscriber = Subscriber
    None = None
    Tunnel = {t1, t2}
    MaxSubscribers = 1
SPECIFICATION FairPathSpec
PROPERTIES
    SideIsSettled
    ControlLossEndsTunnels
    HiddenEndFollows
    SubscriberEndFollows
