\* A draft is saved, from another tab or after a lost answer, on feedback that was submitted.
CONSTANTS
    panelist = panelist
    Panelist = {panelist}
    PanelTab = {pa, pb}
    PanelOwner <- MCOwner
SPECIFICATION PanelSpec
CHECK_DEADLOCK FALSE
PROPERTIES FeedbackFinal
